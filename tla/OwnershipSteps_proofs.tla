------------------------- MODULE OwnershipSteps_proofs -------------------------
(***************************************************************************)
(* The inductive invariant of Ownership and the steps its handlers are     *)
(* made of: for every number of sockets, I/O threads and objects, each     *)
(* step keeps the invariant of the objects with the commands in hand.      *)
(* Ownership_proofs chains the steps to actions and states the theorems.   *)
(***************************************************************************)
EXTENDS Ownership, FiniteSetTheorems, TLAPS

Actors == Sockets \cup Objects
Boxes == Slots \cup {"reaper", "term"}
Types == {"plug", "own", "attach", "bind", "seqnum", "term", "term_req", "term_ack", "stop",
          "reap", "reaped", "done"}
Commands == [type : Types, dest : Actors \cup {"reaper", "term"}, arg : Actors \cup {Null}]
Object ==
    [kind : {"unborn", "socket", "listener", "session", "connecter", "deleted"},
     tid : Slots \cup {Null}, owner : Actors \cup {Null}, terminating : BOOLEAN,
     owned : SUBSET Objects, sent_seqnum : Nat, processed_seqnum : Nat, term_acks : Nat,
     pipes : SUBSET Objects, endpoints : SUBSET Objects, reaping : BOOLEAN, destroyed : BOOLEAN,
     ctx_terminated : BOOLEAN, socket : Sockets \cup {Null}, active : BOOLEAN, pending : BOOLEAN,
     engine : BOOLEAN, plugged : BOOLEAN, connected : BOOLEAN]
PipeState == [asked : SUBSET {1, 2}, ends : SUBSET {1, 2}]
States == [own : [Actors -> Object], mail : [Boxes -> Seq(Commands)],
           pipes : [Objects -> PipeState], failed : BOOLEAN]

-----------------------------------------------------------------------------
(* Commands under way.  While a command is processed it is in hand, and so *)
(* are the commands this sends, until they are posted; what is left of a   *)
(* counted command is the step of process_seqnum.                          *)

Count(q, S) == Cardinality({i \in DOMAIN q : q[i] \in S})
Bit(p) == IF p THEN 1 ELSE 0

Seqnum(o) == Cmd("seqnum", o, Null)
Ack(o) == Cmd("term_ack", o, Null)
Term(o) == Cmd("term", o, Null)
Plug(o) == Cmd("plug", o, Null)
Attach(o) == Cmd("attach", o, Null)
Owns(o, c) == Cmd("own", o, c)
Binds(s, c) == Cmd("bind", s, c)

Counted(o) == {m \in Commands : m.dest = o /\ m.type \in {"plug", "own", "attach", "bind", "seqnum"}}
Box(r, o) == IF Live(r, o) THEN r.mail[r.own[o].tid] ELSE << >>
Total(r, H, o, S) == Count(Box(r, o), S) + Cardinality(H \cap S)
Num(r, H, m) == Total(r, H, m.dest, {m})
Cnt(r, H, o) == Total(r, H, o, Counted(o))
-----------------------------------------------------------------------------
(* The invariant of the objects. *)

Kinds(r) ==
    /\ \A s \in Sockets :
         /\ r.own[s].kind \in {"unborn", "socket", "deleted"}
         /\ r.own[s].kind = "socket" => r.own[s].tid = s
         /\ r.own[s].terminating => r.own[s].reaping
    /\ \A c \in Objects :
         /\ r.own[c].kind \in {"unborn", "listener", "session", "connecter", "deleted"}
         /\ Live(r, c) => r.own[c].tid \in IoThreads
         /\ r.own[c].pipes = {} /\ ~r.own[c].destroyed /\ ~r.own[c].reaping
    /\ \A o \in Actors :
         /\ r.own[o].kind = "unborn" => r.own[o] = Unborn
         /\ r.own[o].kind = "deleted" => r.own[o] = Deleted
         /\ r.own[o].pending => r.own[o].kind = "session"
         /\ r.own[o].terminating => r.own[o].owned = {}

\* the owner of an object outlives it, and so does the socket of a session
Owners(r) ==
    \A c \in Objects :
      LET x == r.own[c]
      IN  /\ x.kind = "listener" => x.owner \in Sockets /\ r.own[x.owner].kind = "socket"
          /\ x.kind = "connecter" => x.owner \in Objects /\ r.own[x.owner].kind = "session"
          /\ x.kind = "session" =>
               /\ x.socket \in Sockets /\ r.own[x.socket].kind = "socket"
               /\ \/ x.owner = x.socket
                  \/ /\ x.owner \in Objects /\ r.own[x.owner].kind = "listener"
                     /\ r.own[x.owner].owner = x.socket

\* a command for an object that lives, and for what it is
Proper(r, m) ==
    /\ m.dest \in Actors /\ Live(r, m.dest)
    /\ m.type \in {"plug", "own", "attach", "bind", "term", "term_req", "term_ack", "stop"}
    /\ m.type = "plug" => m.dest \in Objects /\ m.arg = Null
    /\ m.type = "own" => m.arg \in Objects /\ Live(r, m.arg) /\ r.own[m.arg].owner = m.dest
    /\ m.type = "attach" => m.dest \in Objects /\ r.own[m.dest].kind = "session" /\ m.arg = Null
    /\ m.type = "bind" => m.dest \in Sockets /\ m.arg \in Objects
    /\ m.type = "term" => m.dest \in Objects /\ m.arg = Null
    /\ m.type = "term_req" => m.arg \in Objects
    /\ m.type = "term_ack" => m.arg = Null
    /\ m.type = "stop" => m.dest \in Sockets
Routed(r) ==
    \A t \in Slots : \A i \in DOMAIN r.mail[t] :
      Proper(r, r.mail[t][i]) /\ r.own[r.mail[t][i].dest].tid = t
Ready(r, H) ==
    \A m \in H : Proper(r, m) \/ (m.dest \in Actors /\ Live(r, m.dest) /\ m = Seqnum(m.dest))

\* what an object asks of its owner is processed before what it says when it goes
Child(r, c, o) == c \in Objects /\ Live(r, c) /\ r.own[c].owner = o
Requests(r) ==
    \A t \in Slots : \A i \in DOMAIN r.mail[t] :
      LET m == r.mail[t][i]
      IN  m.type = "term_req" =>
            Child(r, m.arg, m.dest) \/ \E j \in DOMAIN r.mail[t] : i < j /\ r.mail[t][j] = Ack(m.dest)

\* plugged once; announced to its owner, then owned, then told to go, then going
Stages(r, H) ==
    \A c \in Objects : Live(r, c) =>
      LET x == r.own[c]
      IN  /\ Num(r, H, Plug(c)) + Bit(x.plugged) = 1
          /\ Num(r, H, Owns(x.owner, c)) + Bit(c \in r.own[x.owner].owned)
             + Num(r, H, Term(c)) + Bit(x.pending) + Bit(x.terminating) = 1
Owned(r) == \A o \in Actors : \A c \in r.own[o].owned : Child(r, c, o)

\* at most one engine for a session: still to be dialled, dialled, attached or at work
Dials(r, c) == {k \in Objects : /\ r.own[k].kind = "connecter" /\ r.own[k].owner = c
                                /\ ~r.own[k].connected}
Engines(r, H) ==
    \A c \in Objects : r.own[c].kind = "session" =>
      /\ Bit(r.own[c].active /\ ~r.own[c].plugged) + Bit(Dials(r, c) # {})
         + Num(r, H, Attach(c)) + Bit(r.own[c].engine) <= 1
      /\ \A k, l \in Dials(r, c) : k = l

\* the ends of a pipe: the socket's is with one socket or on its way there
Holds(r, H, s, c) == c \in r.own[s].pipes \/ Num(r, H, Binds(s, c)) > 0
Held(r, H) ==
    \A c \in Objects :
      /\ \A s \in Sockets : /\ Num(r, H, Binds(s, c)) + Bit(c \in r.own[s].pipes) <= 1
                            /\ Holds(r, H, s, c) => 1 \in r.pipes[c].ends
      /\ 1 \in r.pipes[c].ends => \E s \in Sockets : Holds(r, H, s, c)
      /\ \A s, u \in Sockets : Holds(r, H, s, c) /\ Holds(r, H, u, c) => s = u
EndsOK(r) ==
    \A c \in Objects :
      /\ r.own[c].kind = "unborn" => r.pipes[c].ends = {}
      /\ 2 \in r.pipes[c].ends => r.own[c].kind = "session" /\ ~r.own[c].terminating
      /\ r.own[c].pending <=> 2 \in r.pipes[c].ends /\ 2 \in r.pipes[c].asked
      /\ r.own[c].kind = "session" /\ ~r.own[c].terminating /\ 1 \in r.pipes[c].ends =>
           2 \in r.pipes[c].ends
      /\ \A s \in Sockets : r.own[s].reaping /\ c \in r.own[s].pipes => 1 \in r.pipes[c].asked

\* the counters of own_t say what is under way
Told(r, H, o) == {c \in Objects : /\ Child(r, c, o) /\ c \notin r.own[o].owned
                                  /\ Num(r, H, Owns(o, c)) = 0}
Left(x) == IF x.reaping THEN Cardinality(x.pipes) ELSE 0
Balanced(r, H) ==
    \A o \in Actors : Live(r, o) =>
      LET x == r.own[o]
      IN  /\ x.sent_seqnum = x.processed_seqnum + Cnt(r, H, o)
          /\ x.term_acks = Num(r, H, Ack(o)) + Cardinality(Told(r, H, o)) + Left(x)
          /\ x.destroyed =>
               x.terminating /\ x.sent_seqnum = x.processed_seqnum /\ x.term_acks = 0

\* there is an object left for each session that will dial
Unused(r) == {c \in Objects : r.own[c].kind = "unborn"}
Dialling(r) == {c \in Objects : /\ r.own[c].kind = "session" /\ r.own[c].active
                                /\ ~r.own[c].plugged}
Rooms(r) == Cardinality(Unused(r)) >= Cardinality(Dialling(r))

Good(r, H) ==
    /\ r \in States /\ ~r.failed /\ H \in SUBSET Commands /\ IsFiniteSet(H)
    /\ Kinds(r) /\ Owners(r) /\ Routed(r) /\ Ready(r, H) /\ Requests(r)
    /\ Owned(r) /\ Stages(r, H) /\ Engines(r, H) /\ Held(r, H) /\ EndsOK(r)
    /\ Balanced(r, H) /\ Rooms(r)

\* who terminates waits for something, unless it is destroyed
Waits(r, o) ==
    r.own[o].terminating /\ ~r.own[o].destroyed =>
      r.own[o].sent_seqnum # r.own[o].processed_seqnum \/ r.own[o].term_acks # 0
Busy(r) == \A o \in Actors : Waits(r, o)
-----------------------------------------------------------------------------
(* The invariant of the context. *)

Reap(s) == Cmd("reap", "reaper", s)
ReapedCmd == Cmd("reaped", "reaper", Null)
StopCmd == Cmd("stop", "reaper", Null)
Reaping == {s \in sockets : own[s].reaping}

Context ==
    /\ sockets = {s \in Sockets : own[s].kind = "socket"}
    /\ closed \subseteq Sockets /\ \A s \in closed : own[s].kind # "unborn"
    /\ \A s \in Sockets : own[s].reaping => s \in closed /\ own[s].terminating
    /\ \A i \in DOMAIN mail["reaper"] :
         mail["reaper"][i] \in {Reap(s) : s \in sockets} \cup {ReapedCmd, StopCmd}
    /\ \A s \in sockets :
         Count(mail["reaper"], {Reap(s)}) = Bit(s \in closed /\ ~own[s].reaping)
    /\ reaper \in [sockets : Nat, terminating : BOOLEAN, stopped : BOOLEAN]
    /\ reaper.sockets = Cardinality(Reaping) + Count(mail["reaper"], {ReapedCmd})
    /\ Count(mail["reaper"], {StopCmd}) + Bit(reaper.terminating)
         = Bit(terminating /\ sockets = {})
    /\ Len(mail["term"]) + Bit(term = "deleted") = Bit(reaper.terminating /\ reaper.sockets = 0)
    /\ term \in {"idle", "waiting", "deleted"} /\ terminating \in BOOLEAN
    /\ term # "idle" => terminating

IInv == Good(State, {}) /\ Busy(State) /\ Context
-----------------------------------------------------------------------------
(* Counting. *)

\* The places of some commands in a mailbox are finitely many, and there are
\* none exactly when none of the commands is there.
LEMMA Places ==
  ASSUME NEW T, NEW q \in Seq(T), NEW S
  PROVE  /\ IsFiniteSet({i \in DOMAIN q : q[i] \in S}) /\ Count(q, S) \in Nat
         /\ Count(q, S) = 0 <=> \A i \in DOMAIN q : q[i] \notin S
<1> DEFINE at == {i \in DOMAIN q : q[i] \in S}
<1>1. DOMAIN q = 1..Len(q) /\ Len(q) \in Nat OBVIOUS
<1>2. IsFiniteSet(DOMAIN q) BY <1>1, FS_Interval
<1>3. at \subseteq DOMAIN q OBVIOUS
<1>4. IsFiniteSet(at) BY <1>2, <1>3, FS_Subset
<1>5. Cardinality(at) \in Nat /\ (Cardinality(at) = 0 <=> at = {})
  BY <1>4, FS_CardinalityType, FS_EmptySet
<1> QED BY <1>4, <1>5 DEF Count

\* Nothing is under way in an empty mailbox.
LEMMA CountEmpty == \A S : Count(<< >>, S) = 0
<1> SUFFICES ASSUME NEW S PROVE Count(<< >>, S) = 0 OBVIOUS
<1>1. {i \in DOMAIN << >> : << >>[i] \in S} = {} OBVIOUS
<1> QED BY <1>1, FS_EmptySet DEF Count

\* A mailbox after object_t::send_command.
LEMMA CountAppend ==
  ASSUME NEW T, NEW q \in Seq(T), NEW m \in T, NEW S
  PROVE  Count(Append(q, m), S) = Count(q, S) + Bit(m \in S)
<1> DEFINE p == Append(q, m)
           n == Len(q) + 1
           at == {i \in DOMAIN q : q[i] \in S}
           new == {i \in DOMAIN p : p[i] \in S}
<1>1. /\ DOMAIN p = DOMAIN q \cup {n} /\ n \notin DOMAIN q /\ p[n] = m
      /\ \A i \in DOMAIN q : p[i] = q[i]
  OBVIOUS
<1>2. IsFiniteSet(at) BY Places
<1> HIDE DEF p
<1>3. CASE m \in S
  <2>1. new = at \cup {n} BY <1>1, <1>3
  <2>2. Cardinality(new) = Cardinality(at) + 1 BY <1>1, <1>2, <2>1, FS_AddElement
  <2> QED BY <1>3, <2>2 DEF Count, Bit, p
<1>4. CASE m \notin S
  <2>1. new = at BY <1>1, <1>4
  <2>2. Count(q, S) \in Nat BY Places
  <2>3. Count(p, S) = Count(q, S) BY <2>1 DEF Count
  <2> QED BY <1>4, <2>2, <2>3 DEF Bit, p
<1> QED BY <1>3, <1>4

\* A mailbox after its first command has been taken.
LEMMA CountTail ==
  ASSUME NEW T, NEW q \in Seq(T), q # << >>, NEW S
  PROVE  Count(q, S) = Count(Tail(q), S) + Bit(Head(q) \in S)
<1> DEFINE p == Tail(q)
           at == {i \in DOMAIN q : q[i] \in S}
           old == at \ {1}
           new == {i \in DOMAIN p : p[i] \in S}
           f == [i \in new |-> i + 1]
<1>1. /\ p \in Seq(T) /\ DOMAIN q = 1..Len(q) /\ Len(q) \in Nat /\ q[1] = Head(q)
      /\ DOMAIN p = 1..(Len(q) - 1) /\ 1 \in DOMAIN q
      /\ \A i \in DOMAIN p : p[i] = q[i + 1]
  OBVIOUS
<1> HIDE DEF p
<1>2. IsFiniteSet(at) /\ IsFiniteSet(new) BY <1>1, Places
<1>3. \A j \in old : j - 1 \in new /\ (j - 1) + 1 = j BY <1>1
<1>4. \A i \in new : i + 1 \in old BY <1>1
<1>5. f \in [new -> old] BY <1>4
<1>6. \A a, b \in new : f[a] = f[b] => a = b BY <1>1
<1>7. \A j \in old : \E i \in new : f[i] = j BY <1>3
<1> HIDE DEF f
<1>8. DOMAIN f = new BY <1>5
<1>9. f \in Bijection(new, old)
  BY <1>5, <1>6, <1>7, <1>8 DEF Bijection, Injection, Surjection, IsInjective
<1>10. Cardinality(old) = Cardinality(new)
  BY <1>2, <1>9, FS_Bijection DEF ExistsBijection
<1>11. Cardinality(old) = IF 1 \in at THEN Cardinality(at) - 1 ELSE Cardinality(at)
  BY <1>2, FS_RemoveElement
<1>12. 1 \in at <=> Head(q) \in S BY <1>1
<1>13. Count(q, S) \in Nat /\ Count(p, S) \in Nat BY <1>1, Places
<1>14. Count(p, S) = Cardinality(old) BY <1>10 DEF Count
<1>15. Count(q, S) = Cardinality(at) BY DEF Count
<1> HIDE DEF at, old
<1> QED BY <1>11, <1>12, <1>13, <1>14, <1>15 DEF Bit, p

\* A mailbox after several commands have been put at its end.
LEMMA CountCat ==
  ASSUME NEW T, NEW q \in Seq(T), NEW u \in Seq(T), NEW S
  PROVE  Count(q \o u, S) = Count(q, S) + Count(u, S)
<1> DEFINE p == q \o u
           n == Len(q)
           A == {i \in DOMAIN q : q[i] \in S}
           B == {i \in DOMAIN u : u[i] \in S}
           C == {i \in DOMAIN p : p[i] \in S}
           E == C \ A
           f == [i \in B |-> i + n]
<1>1. /\ DOMAIN q = 1..n /\ DOMAIN u = 1..Len(u) /\ n \in Nat /\ Len(u) \in Nat
      /\ DOMAIN p = 1..(n + Len(u)) /\ p \in Seq(T)
      /\ \A i \in DOMAIN p : p[i] = IF i <= n THEN q[i] ELSE u[i - n]
  OBVIOUS
<1> HIDE DEF p, n
<1>2. IsFiniteSet(A) /\ IsFiniteSet(B) /\ IsFiniteSet(C) BY <1>1, Places
<1>3. A \subseteq C BY <1>1
<1>4. \A i \in B : i + n \in E BY <1>1
<1>5. \A j \in E : j - n \in B /\ (j - n) + n = j BY <1>1
<1>6. f \in [B -> E] BY <1>4
<1>7. \A a, b \in B : f[a] = f[b] => a = b BY <1>1
<1>8. \A j \in E : \E i \in B : f[i] = j BY <1>5
<1> HIDE DEF f
<1>9. DOMAIN f = B BY <1>6
<1>10. f \in Bijection(B, E)
  BY <1>6, <1>7, <1>8, <1>9 DEF Bijection, Injection, Surjection, IsInjective
<1>11. IsFiniteSet(E) BY <1>2, FS_Difference
<1>12. Cardinality(B) = Cardinality(E) BY <1>2, <1>10, <1>11, FS_Bijection DEF ExistsBijection
<1>13. C = A \cup E /\ A \cap E = {} BY <1>3
<1>14. Cardinality(A \cup E) = Cardinality(A) + Cardinality(E) - Cardinality(A \cap E)
  BY <1>2, <1>11, FS_Union
<1>15. Cardinality(A \cap E) = 0 BY <1>13, FS_EmptySet
<1>16. Cardinality(A) \in Nat /\ Cardinality(E) \in Nat BY <1>2, <1>11, FS_CardinalityType
<1>17. Cardinality(C) = Cardinality(A) + Cardinality(B)
  <2> HIDE DEF A, B, C, E
  <2> QED BY <1>12, <1>13, <1>14, <1>15, <1>16
<1> QED BY <1>17 DEF Count, p

\* A set as a sequence has exactly its elements, once each.
LEMMA SetSeq ==
  ASSUME NEW X, IsFiniteSet(X)
  PROVE  /\ SetToSeq(X) \in Seq(X) /\ \A i \in DOMAIN SetToSeq(X) : SetToSeq(X)[i] \in X
         /\ \A S : Count(SetToSeq(X), S) = Cardinality(X \cap S)
<1> DEFINE n == Cardinality(X)
           q == SetToSeq(X)
<1>1. n \in Nat /\ ExistsBijection(1..n, X) BY FS_CardinalityType
<1>2. PICK g : g \in Bijection(1..n, X) BY <1>1 DEF ExistsBijection
<1>3. g \in [1..n -> X] /\ IsInjective(g) BY <1>2 DEF Bijection, Injection
<1>4. q \in [1..n -> X] /\ IsInjective(q)
  <2> HIDE DEF n
  <2>1. \E f \in [1..n -> X] : IsInjective(f) BY <1>3
  <2> QED BY <2>1 DEF SetToSeq, n
<1>5. q \in Injection(1..n, X) BY <1>4 DEF Injection
<1>6. IsFiniteSet(1..n) /\ Cardinality(1..n) = n BY <1>1, FS_Interval
<1>7. q \in Surjection(1..n, X) BY <1>5, <1>6, FS_Injection
<1> HIDE DEF q, n
<1>8. q \in Seq(X) /\ DOMAIN q = 1..n BY <1>1, <1>4
<1>9. \A i \in DOMAIN q : q[i] \in X BY <1>4, <1>8
<1>10. ASSUME NEW S PROVE Count(q, S) = Cardinality(X \cap S)
  <2> DEFINE A == {i \in DOMAIN q : q[i] \in S}
             B == X \cap S
             f == [i \in A |-> q[i]]
  <2>1. f \in [A -> B] BY <1>9
  <2>2. \A a, b \in A : f[a] = f[b] => a = b BY <1>4, <1>8 DEF IsInjective
  <2>3. \A m \in B : \E i \in A : f[i] = m
    <3> SUFFICES ASSUME NEW m \in B PROVE \E i \in A : f[i] = m OBVIOUS
    <3>1. PICK i \in 1..n : q[i] = m BY <1>7 DEF Surjection
    <3> QED BY <1>8, <3>1
  <2> HIDE DEF f
  <2>4. DOMAIN f = A BY <2>1
  <2>5. f \in Bijection(A, B)
    BY <2>1, <2>2, <2>3, <2>4 DEF Bijection, Injection, Surjection, IsInjective
  <2>6. IsFiniteSet(A) BY <1>8, Places
  <2>7. IsFiniteSet(B) BY FS_Intersection
  <2>8. Cardinality(A) = Cardinality(B) BY <2>5, <2>6, <2>7, FS_Bijection DEF ExistsBijection
  <2> QED BY <2>8 DEF Count
<1> QED BY <1>8, <1>9, <1>10 DEF q
-----------------------------------------------------------------------------
(* Tallies of the commands under way. *)

\* The commands are distinct, and which of them are counted.
LEMMA Vocabulary ==
  /\ \A c, d \in Objects :
       /\ Plug(c) = Plug(d) <=> c = d
       /\ Term(c) = Term(d) <=> c = d
       /\ Attach(c) = Attach(d) <=> c = d
  /\ \A o, p \in Actors : /\ Ack(o) = Ack(p) <=> o = p
                          /\ Seqnum(o) = Seqnum(p) <=> o = p
                          /\ Ack(o) # Seqnum(p)
  /\ \A o, p \in Actors, c, d \in Objects :
       /\ Owns(o, c) = Owns(p, d) <=> o = p /\ c = d
       /\ Binds(o, c) = Binds(p, d) <=> o = p /\ c = d
  /\ \A o, p, q \in Actors, c \in Objects :
       /\ Plug(o) \notin {Term(p), Attach(p), Ack(p), Seqnum(p), Owns(p, c), Binds(p, c)}
       /\ Term(o) \notin {Plug(p), Attach(p), Ack(p), Seqnum(p), Owns(p, c), Binds(p, c)}
       /\ Attach(o) \notin {Plug(p), Term(p), Ack(p), Seqnum(p), Owns(p, c), Binds(p, c)}
       /\ Ack(o) \notin {Plug(p), Term(p), Attach(p), Seqnum(p), Owns(p, c), Binds(p, c)}
       /\ Owns(o, c) \notin {Plug(p), Term(p), Attach(p), Ack(p), Seqnum(p)}
       /\ Binds(o, c) \notin {Plug(p), Term(p), Attach(p), Ack(p), Seqnum(p)}
  /\ \A o, p \in Actors, c, d \in Objects : Owns(o, c) # Binds(p, d)
  BY DEF Plug, Term, Attach, Ack, Seqnum, Owns, Binds, Cmd

\* Each command of object_t reaches the object it is sent to.
LEMMA VocabularyTypes ==
  /\ \A o \in Actors : /\ {Plug(o), Term(o), Attach(o), Ack(o), Seqnum(o)} \subseteq Commands
                       /\ Plug(o).dest = o /\ Term(o).dest = o /\ Attach(o).dest = o
                       /\ Ack(o).dest = o /\ Seqnum(o).dest = o
  /\ \A o \in Actors, c \in Objects :
       /\ Owns(o, c) \in Commands /\ Binds(o, c) \in Commands
       /\ Owns(o, c).dest = o /\ Binds(o, c).dest = o
  BY DEF Plug, Term, Attach, Ack, Seqnum, Owns, Binds, Cmd, Commands, Types, Actors

\* object_t::send_plug, send_own, send_attach and send_bind count in sent_seqnum of the
\* object they are sent to; send_term and send_term_ack count nowhere.
LEMMA VocabularyCounted ==
  /\ \A o, p \in Actors :
       /\ Plug(o) \in Counted(p) <=> o = p
       /\ Attach(o) \in Counted(p) <=> o = p
       /\ Seqnum(o) \in Counted(p) <=> o = p
       /\ Term(o) \notin Counted(p) /\ Ack(o) \notin Counted(p)
  /\ \A o, p \in Actors, c \in Objects :
       /\ Owns(o, c) \in Counted(p) <=> o = p
       /\ Binds(o, c) \in Counted(p) <=> o = p
  <1> USE VocabularyTypes
  <1> QED BY DEF Plug, Term, Attach, Ack, Seqnum, Owns, Binds, Cmd, Counted

\* The mailbox of an object that lives is that of a thread.
LEMMA BoxType ==
  ASSUME NEW r, r \in States, Kinds(r), NEW o \in Actors
  PROVE  /\ Box(r, o) \in Seq(Commands) /\ IsFiniteSet(Objects)
         /\ Live(r, o) => r.own[o].tid \in Slots /\ Box(r, o) = r.mail[r.own[o].tid]
<1>1. Live(r, o) => r.own[o].tid \in Slots
  BY DEF Kinds, Live, Actors, Slots
<1>2. \A t \in Slots : r.mail[t] \in Seq(Commands)
  BY DEF States, Boxes
<1> QED BY <1>1, <1>2, OwnershipAssumption DEF Box

\* A command under way is in the mailbox of its object or in hand.
LEMMA NumHand ==
  ASSUME NEW r, NEW H, NEW m
  PROVE  Num(r, H, m) = Count(Box(r, m.dest), {m}) + Bit(m \in H)
<1>1. CASE m \in H
  <2>1. H \cap {m} = {m} BY <1>1
  <2> QED BY <1>1, <2>1, FS_Singleton DEF Num, Total, Bit
<1>2. CASE m \notin H
  <2>1. H \cap {m} = {} BY <1>2
  <2> QED BY <1>2, <2>1, FS_EmptySet DEF Num, Total, Bit
<1> QED BY <1>1, <1>2

\* The copies of a command that are under way can be counted, and one in hand is one.
LEMMA NumNat ==
  ASSUME NEW r, r \in States, Kinds(r), NEW H, NEW m \in Commands, m.dest \in Actors
  PROVE  Num(r, H, m) \in Nat /\ (m \in H => Num(r, H, m) > 0)
<1>1. Box(r, m.dest) \in Seq(Commands) BY BoxType
<1>2. Count(Box(r, m.dest), {m}) \in Nat BY <1>1, Places
<1>3. Num(r, H, m) = Count(Box(r, m.dest), {m}) + Bit(m \in H) BY NumHand
<1> QED BY <1>2, <1>3 DEF Bit

\* So can the counted commands of an object.
LEMMA CntNat ==
  ASSUME NEW r, r \in States, Kinds(r), NEW H, IsFiniteSet(H), NEW o \in Actors
  PROVE  Cnt(r, H, o) \in Nat /\ ((\E m \in H : m \in Counted(o)) => Cnt(r, H, o) > 0)
<1>1. Box(r, o) \in Seq(Commands) BY BoxType
<1>2. Count(Box(r, o), Counted(o)) \in Nat BY <1>1, Places
<1>3. IsFiniteSet(H \cap Counted(o)) BY FS_Intersection
<1>4. /\ Cardinality(H \cap Counted(o)) \in Nat
      /\ Cardinality(H \cap Counted(o)) = 0 <=> H \cap Counted(o) = {}
  BY <1>3, FS_CardinalityType, FS_EmptySet
<1> QED BY <1>2, <1>4 DEF Cnt, Total

\* A counted command under way is among the counted ones.
LEMMA CntCovers ==
  ASSUME NEW r, r \in States, Kinds(r), NEW H, IsFiniteSet(H), NEW m \in Commands, NEW o \in Actors,
         m \in Counted(o), Num(r, H, m) # 0
  PROVE  Cnt(r, H, o) # 0
<1>0. m.dest = o BY DEF Counted
<1>1. CASE m \in H BY <1>1, CntNat
<1>2. CASE m \notin H
  <2>1. Count(Box(r, o), {m}) # 0 /\ Count(Box(r, o), {m}) \in Nat
    <3>1. Box(r, o) \in Seq(Commands) BY BoxType
    <3>2. Count(Box(r, o), {m}) \in Nat BY <3>1, Places
    <3>3. Num(r, H, m) = Count(Box(r, o), {m}) + Bit(m \in H) BY <1>0, NumHand
    <3> QED BY <1>2, <3>2, <3>3 DEF Bit
  <2>2. Box(r, o) \in Seq(Commands) BY BoxType
  <2>3. PICK i \in DOMAIN Box(r, o) : Box(r, o)[i] = m BY <2>1, <2>2, Places
  <2>4. Count(Box(r, o), Counted(o)) # 0 /\ Count(Box(r, o), Counted(o)) \in Nat
    BY <2>2, <2>3, Places
  <2>5. IsFiniteSet(H \cap Counted(o)) BY FS_Intersection
  <2>6. Cardinality(H \cap Counted(o)) \in Nat BY <2>5, FS_CardinalityType
  <2> QED BY <2>4, <2>6 DEF Cnt, Total
<1> QED BY <1>1, <1>2

\* A command more in hand.
LEMMA HandAdd ==
  ASSUME NEW r, NEW H, IsFiniteSet(H), NEW m, m \notin H, NEW o \in Actors, r \in States, Kinds(r)
  PROVE  Cnt(r, H \cup {m}, o) = Cnt(r, H, o) + Bit(m \in Counted(o))
<1>1. IsFiniteSet(H \cap Counted(o)) BY FS_Intersection
<1>2. Cardinality(H \cap Counted(o)) \in Nat BY <1>1, FS_CardinalityType
<1>3. Box(r, o) \in Seq(Commands) BY BoxType
<1>4. Count(Box(r, o), Counted(o)) \in Nat BY <1>3, Places
<1>5. CASE m \in Counted(o)
  <2>1. (H \cup {m}) \cap Counted(o) = (H \cap Counted(o)) \cup {m} BY <1>5
  <2>2. Cardinality((H \cup {m}) \cap Counted(o)) = Cardinality(H \cap Counted(o)) + 1
    BY <1>1, <2>1, FS_AddElement
  <2> QED BY <1>2, <1>4, <1>5, <2>2 DEF Cnt, Total, Bit
<1>6. CASE m \notin Counted(o)
  <2>1. (H \cup {m}) \cap Counted(o) = H \cap Counted(o) BY <1>6
  <2>2. Cnt(r, H \cup {m}, o) = Cnt(r, H, o) BY <2>1 DEF Cnt, Total
  <2> QED BY <1>6, <2>2, CntNat DEF Bit
<1> QED BY <1>5, <1>6

\* What a step of an object does to the tallies, when the mailboxes stay as they are.
Moved(r, H, r2, H2) ==
    /\ \A c \in Objects :
         /\ Num(r2, H2, Plug(c)) = Num(r, H, Plug(c)) - Bit(Plug(c) \in H) + Bit(Plug(c) \in H2)
         /\ Num(r2, H2, Term(c)) = Num(r, H, Term(c)) - Bit(Term(c) \in H) + Bit(Term(c) \in H2)
         /\ Num(r2, H2, Attach(c)) =
              Num(r, H, Attach(c)) - Bit(Attach(c) \in H) + Bit(Attach(c) \in H2)
    /\ \A o \in Actors :
         Num(r2, H2, Ack(o)) = Num(r, H, Ack(o)) - Bit(Ack(o) \in H) + Bit(Ack(o) \in H2)
    /\ \A o \in Actors, c \in Objects :
         Num(r2, H2, Owns(o, c)) =
           Num(r, H, Owns(o, c)) - Bit(Owns(o, c) \in H) + Bit(Owns(o, c) \in H2)
    /\ \A o \in Actors, c \in Objects :
         Num(r2, H2, Binds(o, c)) =
           Num(r, H, Binds(o, c)) - Bit(Binds(o, c) \in H) + Bit(Binds(o, c) \in H2)
Naturals(r, H) ==
    /\ \A c \in Objects : /\ Num(r, H, Plug(c)) \in Nat /\ Num(r, H, Term(c)) \in Nat
                          /\ Num(r, H, Attach(c)) \in Nat
    /\ \A o \in Actors : Num(r, H, Ack(o)) \in Nat /\ Cnt(r, H, o) \in Nat
    /\ \A o \in Actors, c \in Objects : /\ Num(r, H, Owns(o, c)) \in Nat
                                        /\ Num(r, H, Binds(o, c)) \in Nat

\* The objects that live are in the same threads.
Stay(r, r2) == \A p \in Actors : Live(r, p) => Live(r2, p) /\ r2.own[p].tid = r.own[p].tid

\* All these counts are natural numbers, whatever is in hand.
LEMMA AllNaturals ==
  ASSUME NEW r, r \in States, Kinds(r), NEW H, IsFiniteSet(H)
  PROVE  Naturals(r, H)
<1>1. Objects \subseteq Actors BY DEF Actors
<1>2. \A m \in Commands : m.dest \in Actors => Num(r, H, m) \in Nat BY NumNat
<1>3. \A o \in Actors : Cnt(r, H, o) \in Nat BY CntNat
<1> QED BY <1>1, <1>2, <1>3, VocabularyTypes DEF Naturals

\* A step that posts nothing and keeps the objects in their threads leaves every mailbox
\* of an object as it was.
LEMMA SameBoxes ==
  ASSUME NEW r, NEW r2, r \in States, r2 \in States, Kinds(r), Kinds(r2), Routed(r),
         r2.mail = r.mail, Stay(r, r2), NEW o \in Actors, NEW S, \A m \in S : m.dest = o
  PROVE  Count(Box(r2, o), S) = Count(Box(r, o), S)
<1>1. CASE Live(r, o) BY <1>1 DEF Stay, Box
<1>2. CASE ~Live(r, o) /\ ~Live(r2, o) BY <1>2 DEF Box
<1>3. CASE ~Live(r, o) /\ Live(r2, o)
  <2> DEFINE t == r2.own[o].tid
  <2>1. t \in Slots /\ Box(r2, o) = r.mail[t] /\ Box(r2, o) \in Seq(Commands) BY <1>3, BoxType
  <2>2. \A i \in DOMAIN r.mail[t] : r.mail[t][i].dest # o BY <1>3, <2>1 DEF Routed, Proper
  <2>3. \A i \in DOMAIN Box(r2, o) : Box(r2, o)[i] \notin S BY <2>1, <2>2
  <2>4. Count(Box(r2, o), S) = 0 BY <2>1, <2>3, Places
  <2>5. Box(r, o) = << >> BY <1>3 DEF Box
  <2>7. Count(Box(r, o), S) = 0 BY <2>5, CountEmpty
  <2> QED BY <2>4, <2>7
<1> QED BY <1>1, <1>2, <1>3

\* After such a step the counts differ by what is in hand only.
LEMMA Moves ==
  ASSUME NEW r, NEW r2, r \in States, r2 \in States, Kinds(r), Kinds(r2), Routed(r),
         r2.mail = r.mail, Stay(r, r2), NEW H, NEW H2
  PROVE  /\ Moved(r, H, r2, H2)
         /\ \A K : \A o \in Actors : Cnt(r2, K, o) = Cnt(r, K, o)
<1>1. ASSUME NEW m \in Commands, m.dest \in Actors
      PROVE  Num(r2, H2, m) = Num(r, H, m) - Bit(m \in H) + Bit(m \in H2)
  <2> DEFINE n == Count(Box(r, m.dest), {m})
  <2>1. Count(Box(r2, m.dest), {m}) = n BY <1>1, SameBoxes
  <2>2. Num(r2, H2, m) = n + Bit(m \in H2) BY <2>1, NumHand
  <2>3. Num(r, H, m) = n + Bit(m \in H) BY NumHand
  <2>4. Box(r, m.dest) \in Seq(Commands) BY <1>1, BoxType
  <2>5. n \in Nat BY <2>4, Places
  <2> HIDE DEF n
  <2> QED BY <2>2, <2>3, <2>5 DEF Bit
<1>2. ASSUME NEW K, NEW o \in Actors PROVE Cnt(r2, K, o) = Cnt(r, K, o)
  <2>1. \A m \in Counted(o) : m.dest = o BY DEF Counted
  <2>2. Count(Box(r2, o), Counted(o)) = Count(Box(r, o), Counted(o)) BY <2>1, SameBoxes
  <2> QED BY <2>2 DEF Cnt, Total
<1>3. Objects \subseteq Actors BY DEF Actors
<1>4. Moved(r, H, r2, H2)
  <2>1. \A m \in Commands : m.dest \in Actors =>
          Num(r2, H2, m) = Num(r, H, m) - Bit(m \in H) + Bit(m \in H2)
    BY <1>1
  <2> QED BY <1>3, <2>1, VocabularyTypes DEF Moved
<1> QED BY <1>2, <1>4
-----------------------------------------------------------------------------
(* Commands are taken from the mailboxes and posted there. *)

\* Replacing the mailboxes of the state leaves the objects and the pipes.
LEMMA WithMail ==
  ASSUME NEW r \in States, NEW f \in [Boxes -> Seq(Commands)]
  PROVE  /\ [r EXCEPT !.mail = f] \in States /\ [r EXCEPT !.mail = f].mail = f
         /\ [r EXCEPT !.mail = f].own = r.own /\ [r EXCEPT !.mail = f].pipes = r.pipes
         /\ [r EXCEPT !.mail = f].failed = r.failed
  BY DEF States
\* Replacing the objects leaves the mailboxes and the pipes.
LEMMA WithOwn ==
  ASSUME NEW r \in States, NEW f \in [Actors -> Object]
  PROVE  /\ [r EXCEPT !.own = f] \in States /\ [r EXCEPT !.own = f].own = f
         /\ [r EXCEPT !.own = f].mail = r.mail /\ [r EXCEPT !.own = f].pipes = r.pipes
         /\ [r EXCEPT !.own = f].failed = r.failed
  BY DEF States
\* Replacing the pipes leaves the mailboxes and the objects.
LEMMA WithPipes ==
  ASSUME NEW r \in States, NEW f \in [Objects -> PipeState]
  PROVE  /\ [r EXCEPT !.pipes = f] \in States /\ [r EXCEPT !.pipes = f].pipes = f
         /\ [r EXCEPT !.pipes = f].mail = r.mail /\ [r EXCEPT !.pipes = f].own = r.own
         /\ [r EXCEPT !.pipes = f].failed = r.failed
  BY DEF States

SameTotals(r, H, r2, H2) ==
    \A o \in Actors : \A S \in SUBSET Commands :
      (\A m \in S : m.dest = o) => Total(r2, H2, o, S) = Total(r, H, o, S)

\* All of it but what is said of the requests: that is restored by the command to be posted.
Fair(r, H) ==
    /\ r \in States /\ ~r.failed /\ H \in SUBSET Commands /\ IsFiniteSet(H)
    /\ Kinds(r) /\ Owners(r) /\ Routed(r) /\ Ready(r, H)
    /\ Owned(r) /\ Stages(r, H) /\ Engines(r, H) /\ Held(r, H) /\ EndsOK(r)
    /\ Balanced(r, H) /\ Rooms(r)
RequestsTo(r, n) ==
    \A t \in Slots : \A i \in DOMAIN r.mail[t] :
      LET m == r.mail[t][i]
      IN  m.type = "term_req" =>
            \/ Child(r, m.arg, m.dest) \/ n = Ack(m.dest)
            \/ \E j \in DOMAIN r.mail[t] : i < j /\ r.mail[t][j] = Ack(m.dest)

\* The invariant does not tell whether a command is in hand or in a mailbox.
LEMMA AlikeFair ==
  ASSUME NEW r, NEW H, Fair(r, H), NEW r2 \in States, r2.own = r.own, r2.pipes = r.pipes,
         ~r2.failed, NEW H2 \in SUBSET Commands, IsFiniteSet(H2), SameTotals(r, H, r2, H2),
         Routed(r2), Ready(r2, H2), Requests(r2)
  PROVE  Good(r2, H2)
<1>1. \A m \in Commands : m.dest \in Actors => Num(r2, H2, m) = Num(r, H, m)
  BY DEF SameTotals, Num
<1>2. \A o \in Actors : Cnt(r2, H2, o) = Cnt(r, H, o)
  BY DEF SameTotals, Cnt, Counted
<1>3. /\ \A c \in Objects : /\ Num(r2, H2, Plug(c)) = Num(r, H, Plug(c))
                            /\ Num(r2, H2, Term(c)) = Num(r, H, Term(c))
                            /\ Num(r2, H2, Attach(c)) = Num(r, H, Attach(c))
      /\ \A o \in Actors : Num(r2, H2, Ack(o)) = Num(r, H, Ack(o))
      /\ \A o \in Actors, c \in Objects : /\ Num(r2, H2, Owns(o, c)) = Num(r, H, Owns(o, c))
                                          /\ Num(r2, H2, Binds(o, c)) = Num(r, H, Binds(o, c))
  BY <1>1, VocabularyTypes DEF Actors
<1>4. \A c \in Objects : Live(r, c) => r.own[c].owner \in Actors
  BY DEF Fair, Owners, Kinds, Actors, Live
<1>5. Kinds(r2) /\ Owners(r2) /\ Owned(r2) /\ EndsOK(r2) /\ Rooms(r2)
  BY DEF Fair, Kinds, Owners, Owned, EndsOK, Rooms, Unused, Dialling, Child, Live
<1>6. Stages(r2, H2) BY <1>3, <1>4 DEF Fair, Stages, Live
<1>7. Engines(r2, H2) BY <1>3 DEF Fair, Engines, Dials
<1>8. Held(r2, H2) BY <1>3 DEF Fair, Held, Holds, Actors
<1>9. Balanced(r2, H2)
  <2>1. \A o \in Actors : Told(r2, H2, o) = Told(r, H, o) BY <1>3 DEF Told, Child, Live
  <2> QED BY <1>2, <1>3, <2>1 DEF Fair, Balanced, Live
<1> QED BY <1>5, <1>6, <1>7, <1>8, <1>9 DEF Good

\* The same of the whole invariant.
LEMMA Alike ==
  ASSUME NEW r, NEW H, Good(r, H), NEW r2 \in States, r2.own = r.own, r2.pipes = r.pipes,
         ~r2.failed, NEW H2 \in SUBSET Commands, IsFiniteSet(H2), SameTotals(r, H, r2, H2),
         Routed(r2), Ready(r2, H2), Requests(r2)
  PROVE  Good(r2, H2)
<1>1. Fair(r, H) BY DEF Good, Fair
<1> QED BY <1>1, AlikeFair

\* The mailboxes of the context are not touched, and nothing else than the mailboxes is.
OnlyMail(r, r2) ==
    /\ r2.own = r.own /\ r2.pipes = r.pipes
    /\ \A b \in {"reaper", "term"} : r2.mail[b] = r.mail[b]

Post(r, m) == [r EXCEPT !.mail[r.own[m.dest].tid] = Append(@, m)]

\* object_t::send_command to an object that lives.
LEMMA PostFair ==
  ASSUME NEW r, NEW H, NEW m \in Commands, m \notin H, Fair(r, H \cup {m}), Proper(r, m), RequestsTo(r, m),
         m.type = "term_req" => Child(r, m.arg, m.dest)
  PROVE  Good(Post(r, m), H) /\ OnlyMail(r, Post(r, m))
<1> DEFINE r2 == Post(r, m)
           t == r.own[m.dest].tid
<1>1. /\ r \in States /\ Kinds(r) /\ m.dest \in Actors /\ Live(r, m.dest)
      /\ Routed(r) /\ Ready(r, H \cup {m})
  BY DEF Fair, Proper
<1>2. t \in Slots /\ t \in Boxes /\ t \notin {"reaper", "term"}
  BY <1>1, BoxType, OwnershipAssumption DEF Boxes, Slots
<1>3. r.mail[t] \in Seq(Commands) BY <1>1, <1>2 DEF States
<1> DEFINE f == [r.mail EXCEPT ![t] = Append(r.mail[t], m)]
<1>4. r2 = [r EXCEPT !.mail = f] BY DEF Post
<1>5. f \in [Boxes -> Seq(Commands)] BY <1>1, <1>2, <1>3 DEF States
<1>51. /\ r2 \in States /\ r2.own = r.own /\ r2.pipes = r.pipes /\ r2.failed = r.failed
      /\ r2.mail = f
  <2> HIDE DEF f, r2
  <2> QED BY <1>1, <1>4, <1>5, WithMail
<1>6. /\ r2.mail[t] = Append(r.mail[t], m)
      /\ \A b \in Boxes : b # t => r2.mail[b] = r.mail[b]
  BY <1>1, <1>2, <1>4 DEF States
<1> HIDE DEF r2
<1>7. OnlyMail(r, r2) BY <1>2, <1>51, <1>6, ZenonT(20) DEF OnlyMail, Boxes
<1>8. IsFiniteSet(H) /\ H \in SUBSET Commands BY FS_Subset DEF Fair
<1>9. SameTotals(r, H \cup {m}, r2, H)
  <2> SUFFICES ASSUME NEW o \in Actors, NEW S \in SUBSET Commands, \A x \in S : x.dest = o
               PROVE  Total(r2, H, o, S) = Total(r, H \cup {m}, o, S)
    BY DEF SameTotals
  <2>1. Box(r, o) \in Seq(Commands) BY <1>1, BoxType
  <2>2. Count(Box(r, o), S) \in Nat BY <2>1, Places
  <2>3. IsFiniteSet(H \cap S) BY <1>8, FS_Intersection
  <2>4. Cardinality(H \cap S) \in Nat BY <2>3, FS_CardinalityType
  <2>5. CASE m \in S
    <3>1. o = m.dest BY <2>5
    <3>2. Box(r2, o) = Append(Box(r, o), m) BY <1>1, <1>51, <1>6, <3>1, ZenonT(20) DEF Box, Live
    <3>3. Count(Box(r2, o), S) = Count(Box(r, o), S) + Bit(m \in S) BY <2>1, <3>2, CountAppend
    <3>4. (H \cup {m}) \cap S = (H \cap S) \cup {m} BY <2>5
    <3>5. Cardinality((H \cup {m}) \cap S) = Cardinality(H \cap S) + 1
      BY <2>3, <3>4, FS_AddElement
    <3> QED BY <2>2, <2>4, <2>5, <3>3, <3>5 DEF Total, Bit
  <2>6. CASE m \notin S
    <3>1. Box(r2, o) = Box(r, o) \/ Box(r2, o) = Append(Box(r, o), m)
      <4>1. CASE Live(r, o) /\ r.own[o].tid = t BY <1>51, <1>6, <4>1, ZenonT(40) DEF Box, Live
      <4>2. CASE Live(r, o) /\ r.own[o].tid # t
        <5>1. r.own[o].tid \in Boxes BY <1>1, <4>2, BoxType DEF Boxes
        <5> QED BY <1>51, <1>6, <4>2, <5>1, ZenonT(20) DEF Box, Live
      <4>3. CASE ~Live(r, o) BY <1>51, <4>3 DEF Box, Live
      <4> QED BY <4>1, <4>2, <4>3
    <3>2. Count(Append(Box(r, o), m), S) = Count(Box(r, o), S)
      <4>1. Count(Append(Box(r, o), m), S) = Count(Box(r, o), S) + Bit(m \in S)
        BY <2>1, CountAppend
      <4> QED BY <2>2, <2>6, <4>1 DEF Bit
    <3>3. (H \cup {m}) \cap S = H \cap S BY <2>6
    <3> QED BY <3>1, <3>2, <3>3 DEF Total
  <2> QED BY <2>5, <2>6
<1>10. \A x : Proper(r2, x) <=> Proper(r, x) BY <1>51 DEF Proper, Live
<1>11. \A x, o : Child(r2, x, o) <=> Child(r, x, o) BY <1>51 DEF Child, Live
<1>12. /\ DOMAIN r2.mail[t] = DOMAIN r.mail[t] \cup {Len(r.mail[t]) + 1}
       /\ r2.mail[t][Len(r.mail[t]) + 1] = m
       /\ \A i \in DOMAIN r.mail[t] : r2.mail[t][i] = r.mail[t][i]
       /\ \A i \in DOMAIN r.mail[t] : i < Len(r.mail[t]) + 1
  <2> DEFINE q == r.mail[t]
             n == Len(q) + 1
  <2>1. q \in Seq(Commands) /\ r2.mail[t] = Append(q, m) BY <1>3, <1>6, ZenonT(20)
  <2> HIDE DEF q
  <2>2. /\ DOMAIN Append(q, m) = DOMAIN q \cup {n} /\ Append(q, m)[n] = m
        /\ \A i \in DOMAIN q : Append(q, m)[i] = q[i] /\ i < n
    BY <2>1
  <2> QED BY <2>1, <2>2, ZenonT(40) DEF q
<1>13. Routed(r2)
  <2> SUFFICES ASSUME NEW b \in Slots, NEW i \in DOMAIN r2.mail[b]
               PROVE  Proper(r2, r2.mail[b][i]) /\ r2.own[r2.mail[b][i].dest].tid = b
    BY DEF Routed
  <2>1. CASE b # t
    <3>1. r2.mail[b] = r.mail[b] BY <1>6, <2>1, ZenonT(40) DEF Boxes
    <3> QED BY <1>1, <1>51, <1>10, <3>1, ZenonT(40) DEF Routed
  <2>2. CASE b = t /\ i \in DOMAIN r.mail[t]
    <3>1. r2.mail[b][i] = r.mail[b][i] BY <1>12, <2>2, ZenonT(40)
    <3>2. Proper(r, r.mail[b][i]) /\ r.own[r.mail[b][i].dest].tid = b BY <1>1, <2>2, ZenonT(40) DEF Routed
    <3> QED BY <1>51, <1>10, <3>1, <3>2, ZenonT(40)
  <2>3. CASE b = t /\ i = Len(r.mail[t]) + 1 BY <1>51, <1>10, <1>12, <2>3, ZenonT(20)
  <2> QED BY <1>12, <2>1, <2>2, <2>3, ZenonT(20)
<1>14. Ready(r2, H) BY <1>1, <1>51, <1>10 DEF Ready, Live
<1>15. Requests(r2)
  <2> SUFFICES ASSUME NEW b \in Slots, NEW i \in DOMAIN r2.mail[b],
                      r2.mail[b][i].type = "term_req"
               PROVE  \/ Child(r2, r2.mail[b][i].arg, r2.mail[b][i].dest)
                      \/ \E j \in DOMAIN r2.mail[b] :
                           i < j /\ r2.mail[b][j] = Ack(r2.mail[b][i].dest)
    BY DEF Requests
  <2>1. CASE b # t
    <3>1. r2.mail[b] = r.mail[b] BY <1>6, <2>1, ZenonT(20) DEF Boxes
    <3>2. b # r.own[m.dest].tid BY <2>1
    <3>3. r.own[r.mail[b][i].dest].tid = b BY <1>1, <3>1 DEF Routed
    <3>4. m # Ack(r.mail[b][i].dest) BY <3>2, <3>3 DEF Ack, Cmd
    <3> QED BY <1>11, <3>1, <3>4 DEF RequestsTo
  <2>2. CASE b = t /\ i \in DOMAIN r.mail[t]
    <3>1. r2.mail[b][i] = r.mail[t][i] BY <1>12, <2>2, ZenonT(40)
    <3>2. \/ Child(r, r.mail[t][i].arg, r.mail[t][i].dest)
          \/ m = Ack(r.mail[t][i].dest)
          \/ \E j \in DOMAIN r.mail[t] : i < j /\ r.mail[t][j] = Ack(r.mail[t][i].dest)
      BY <1>2, <2>2, <3>1, ZenonT(40) DEF RequestsTo
    <3>3. CASE Child(r, r.mail[t][i].arg, r.mail[t][i].dest) BY <1>11, <3>1, <3>3, ZenonT(40)
    <3>4. ASSUME NEW j \in DOMAIN r.mail[t], i < j, r.mail[t][j] = Ack(r.mail[t][i].dest)
          PROVE  j \in DOMAIN r2.mail[b] /\ r2.mail[b][j] = Ack(r2.mail[b][i].dest)
      BY <1>12, <2>2, <3>1, <3>4, ZenonT(40)
    <3>5. CASE m = Ack(r.mail[t][i].dest) BY <1>12, <2>2, <3>1, <3>5, ZenonT(40)
    <3> QED BY <3>2, <3>3, <3>4, <3>5, ZenonT(40)
  <2>3. CASE b = t /\ i = Len(r.mail[t]) + 1 BY <1>11, <1>12, <2>3, ZenonT(20)
  <2> QED BY <1>12, <2>1, <2>2, <2>3, ZenonT(20)
<1> QED BY <1>51, <1>7, <1>8, <1>9, <1>13, <1>14, <1>15, AlikeFair DEF Fair, r2

\* The same of the whole invariant.
LEMMA PostGood ==
  ASSUME NEW r, NEW H, NEW m \in Commands, m \notin H, Good(r, H \cup {m}), Proper(r, m),
         m.type = "term_req" => Child(r, m.arg, m.dest)
  PROVE  Good(Post(r, m), H) /\ OnlyMail(r, Post(r, m))
<1>1. Fair(r, H \cup {m}) BY DEF Good, Fair
<1>2. RequestsTo(r, m) BY DEF Good, Requests, RequestsTo
<1> QED BY <1>1, <1>2, PostFair

\* The first command of a mailbox is taken in hand.
LEMMA TakeGood ==
  ASSUME NEW r, Good(r, {}), NEW t \in Slots, r.mail[t] # << >>
  PROVE  /\ Good(Take(r, t), {Head(r.mail[t])}) /\ OnlyMail(r, Take(r, t))
         /\ Head(r.mail[t]) \in Commands /\ Proper(r, Head(r.mail[t]))
         /\ Proper(Take(r, t), Head(r.mail[t]))
         /\ r.own[Head(r.mail[t]).dest].tid = t
<1> DEFINE r2 == Take(r, t)
           q == r.mail[t]
           m == Head(q)
<1>1. /\ r \in States /\ Kinds(r) /\ Routed(r) /\ Requests(r) /\ ~r.failed BY DEF Good
<1>2. t \in Boxes /\ t \notin {"reaper", "term"} /\ q \in Seq(Commands)
  BY <1>1, OwnershipAssumption DEF States, Boxes, Slots
<1>3. /\ Tail(q) \in Seq(Commands) /\ m \in Commands /\ q[1] = m /\ 1 \in DOMAIN q
      /\ \A i \in DOMAIN Tail(q) : Tail(q)[i] = q[i + 1] /\ i + 1 \in DOMAIN q /\ i \in Nat
      /\ \A j \in DOMAIN q : j # 1 => j - 1 \in DOMAIN Tail(q) /\ (j - 1) + 1 = j /\ j \in Nat
  <2> HIDE DEF q
  <2> QED BY <1>2 DEF q
<1>4. r2 = [r EXCEPT !.mail = [r.mail EXCEPT ![t] = Tail(q)]] BY DEF Take
<1>5. [r.mail EXCEPT ![t] = Tail(q)] \in [Boxes -> Seq(Commands)] BY <1>1, <1>3 DEF States
<1>6. /\ r2 \in States /\ r2.own = r.own /\ r2.pipes = r.pipes /\ r2.failed = r.failed
      /\ r2.mail = [r.mail EXCEPT ![t] = Tail(q)]
  BY <1>1, <1>4, <1>5, WithMail
<1>7. r2.mail[t] = Tail(q) /\ \A b \in Boxes : b # t => r2.mail[b] = r.mail[b]
  BY <1>1, <1>2, <1>6 DEF States
<1> HIDE DEF r2
<1>8. OnlyMail(r, r2) BY <1>2, <1>6, <1>7 DEF OnlyMail, Boxes
<1>9. Proper(r, m) /\ r.own[m.dest].tid = t BY <1>1, <1>3 DEF Routed
<1>10. \A x : Proper(r2, x) <=> Proper(r, x) BY <1>6 DEF Proper, Live
<1>11. \A x, o : Child(r2, x, o) <=> Child(r, x, o) BY <1>6 DEF Child, Live
<1>12. SameTotals(r, {}, r2, {m})
  <2> SUFFICES ASSUME NEW o \in Actors, NEW S \in SUBSET Commands, \A x \in S : x.dest = o
               PROVE  Total(r2, {m}, o, S) = Total(r, {}, o, S)
    BY DEF SameTotals
  <2>1. Box(r, o) \in Seq(Commands) BY <1>1, BoxType
  <2>2. Count(Box(r, o), S) \in Nat BY <2>1, Places
  <2>3. Cardinality({} \cap S) = 0 BY FS_EmptySet
  <2>4. Cardinality({m} \cap S) = Bit(m \in S)
    <3>1. CASE m \in S
      <4>1. {m} \cap S = {m} BY <3>1
      <4> QED BY <3>1, <4>1, FS_Singleton DEF Bit
    <3>2. CASE m \notin S
      <4>1. {m} \cap S = {} BY <3>2
      <4> QED BY <3>2, <4>1, FS_EmptySet DEF Bit
    <3> QED BY <3>1, <3>2
  <2>5. CASE Live(r, o) /\ r.own[o].tid = t
    <3>1. Box(r, o) = q /\ Box(r2, o) = Tail(q) BY <1>6, <1>7, <2>5 DEF Box, Live
    <3>2. Count(q, S) = Count(Tail(q), S) + Bit(m \in S) BY <1>2, CountTail
    <3> QED BY <2>3, <2>4, <3>1, <3>2, <2>2 DEF Total
  <2>6. CASE ~(Live(r, o) /\ r.own[o].tid = t)
    <3>1. m.dest # o BY <1>9, <2>6 DEF Proper
    <3>2. m \notin S BY <3>1
    <3>3. Box(r2, o) = Box(r, o)
      <4>1. CASE Live(r, o)
        <5>1. r.own[o].tid \in Boxes BY <1>1, <4>1, BoxType DEF Boxes
        <5> QED BY <1>6, <1>7, <2>6, <4>1, <5>1 DEF Box, Live
      <4>2. CASE ~Live(r, o) BY <1>6, <4>2 DEF Box, Live
      <4> QED BY <4>1, <4>2
    <3> QED BY <2>2, <2>3, <2>4, <3>2, <3>3 DEF Total, Bit
  <2> QED BY <2>5, <2>6
<1>13. Routed(r2)
  <2> SUFFICES ASSUME NEW b \in Slots, NEW i \in DOMAIN r2.mail[b]
               PROVE  Proper(r2, r2.mail[b][i]) /\ r2.own[r2.mail[b][i].dest].tid = b
    BY DEF Routed
  <2>1. CASE b # t
    <3>1. r2.mail[b] = r.mail[b] BY <1>7, <2>1 DEF Boxes
    <3> QED BY <1>1, <1>6, <1>10, <3>1 DEF Routed
  <2>2. CASE b = t
    <3>1. r2.mail[b][i] = q[i + 1] /\ i + 1 \in DOMAIN q BY <1>3, <1>7, <2>2
    <3>2. Proper(r, q[i + 1]) /\ r.own[q[i + 1].dest].tid = t BY <1>1, <3>1 DEF Routed
    <3> QED BY <1>6, <1>10, <2>2, <3>1, <3>2
  <2> QED BY <2>1, <2>2
<1>14. Requests(r2)
  <2> SUFFICES ASSUME NEW b \in Slots, NEW i \in DOMAIN r2.mail[b],
                      r2.mail[b][i].type = "term_req"
               PROVE  \/ Child(r2, r2.mail[b][i].arg, r2.mail[b][i].dest)
                      \/ \E j \in DOMAIN r2.mail[b] :
                           i < j /\ r2.mail[b][j] = Ack(r2.mail[b][i].dest)
    BY DEF Requests
  <2>1. CASE b # t
    <3>1. r2.mail[b] = r.mail[b] BY <1>7, <2>1 DEF Boxes
    <3> QED BY <1>1, <1>11, <3>1 DEF Requests
  <2>2. CASE b = t
    <3>1. r2.mail[b][i] = q[i + 1] /\ i + 1 \in DOMAIN q /\ i \in Nat BY <1>3, <1>7, <2>2
    <3>2. \/ Child(r, q[i + 1].arg, q[i + 1].dest)
          \/ \E j \in DOMAIN q : i + 1 < j /\ q[j] = Ack(q[i + 1].dest)
      BY <1>1, <3>1 DEF Requests
    <3>3. ASSUME NEW j \in DOMAIN q, i + 1 < j, q[j] = Ack(q[i + 1].dest)
          PROVE  /\ j - 1 \in DOMAIN r2.mail[b] /\ i < j - 1
                 /\ r2.mail[b][j - 1] = Ack(r2.mail[b][i].dest)
      <4>1. j # 1 /\ j \in Nat
        <5>1. j \in Nat BY <1>2
        <5> QED BY <3>1, <3>3, <5>1
      <4>2. j - 1 \in DOMAIN Tail(q) /\ (j - 1) + 1 = j BY <1>3, <4>1
      <4>3. Tail(q)[j - 1] = q[j] BY <1>3, <4>2
      <4>4. i < j - 1 BY <3>1, <3>3, <4>1
      <4> QED BY <1>7, <2>2, <3>1, <3>3, <4>2, <4>3, <4>4
    <3> QED BY <1>11, <3>1, <3>2, <3>3
  <2> QED BY <2>1, <2>2
<1>15. Ready(r2, {m}) BY <1>9, <1>10 DEF Ready
<1>16. {m} \in SUBSET Commands /\ IsFiniteSet({m}) BY <1>3, FS_Singleton
<1>17. Good(r2, {m}) BY <1>1, <1>6, <1>12, <1>13, <1>14, <1>15, <1>16, Alike
<1> QED BY <1>3, <1>8, <1>9, <1>10, <1>17 DEF r2

\* An assertion that holds changes nothing.
LEMMA ExpectOK ==
  ASSUME NEW r \in States, NEW ok, ok
  PROVE  Expect(r, ok) = r
<1>1. (r.failed \/ ~ok) = r.failed BY DEF States
<1> QED BY <1>1 DEF Expect, States

Terms(D) == {Term(c) : c \in D}

\* own_t::process_term tells the objects that are owned.
LEMMA PostTerms ==
  ASSUME NEW r, NEW D \in SUBSET Objects, \A c \in D : Live(r, c), Good(r, Terms(D))
  PROVE  Good(SendTerms(r, D), {}) /\ OnlyMail(r, SendTerms(r, D))
<1> DEFINE X(t) == {Cmd("term", c, Null) : c \in {d \in D : Live(r, d) /\ r.own[d].tid = t}}
           f == [t \in DOMAIN r.mail |-> r.mail[t] \o SetToSeq(X(t))]
           r2 == SendTerms(r, D)
           H == Terms(D)
<1>1. /\ r \in States /\ Kinds(r) /\ Routed(r) /\ Requests(r) /\ Ready(r, H) /\ ~r.failed
      /\ IsFiniteSet(H) /\ H \in SUBSET Commands
  BY DEF Good
<1>2. ASSUME NEW t PROVE X(t) \subseteq H /\ IsFiniteSet(X(t)) /\ X(t) \subseteq Commands
  <2>1. X(t) \subseteq H BY DEF Terms, Term
  <2> QED BY <1>1, <2>1, FS_Subset
<1>3. \A t : SetToSeq(X(t)) \in Seq(Commands)
  <2> SUFFICES ASSUME NEW t PROVE SetToSeq(X(t)) \in Seq(Commands) OBVIOUS
  <2>1. SetToSeq(X(t)) \in Seq(X(t)) BY <1>2, SetSeq
  <2> HIDE DEF X
  <2> QED BY <1>2, <2>1
<1>4. DOMAIN r.mail = Boxes /\ \A t \in Boxes : r.mail[t] \in Seq(Commands) BY <1>1 DEF States
<1>5. f \in [Boxes -> Seq(Commands)]
  <2> HIDE DEF X
  <2> QED BY <1>3, <1>4
<1>6. r2 = Expect([r EXCEPT !.mail = f], \A c \in D : Live(r, c)) BY DEF SendTerms
<1>7. /\ [r EXCEPT !.mail = f] \in States /\ [r EXCEPT !.mail = f].mail = f
      /\ [r EXCEPT !.mail = f].own = r.own /\ [r EXCEPT !.mail = f].pipes = r.pipes
      /\ [r EXCEPT !.mail = f].failed = r.failed
  <2> HIDE DEF f
  <2> QED BY <1>1, <1>5, WithMail
<1>8. r2 = [r EXCEPT !.mail = f]
  <2> HIDE DEF f, r2
  <2> QED BY <1>6, <1>7, ExpectOK
<1>9. /\ r2 \in States /\ r2.mail = f /\ r2.own = r.own /\ r2.pipes = r.pipes /\ ~r2.failed
  <2> HIDE DEF f, r2
  <2> QED BY <1>1, <1>7, <1>8
<1> HIDE DEF r2
<1>10. \A t \in Boxes : r2.mail[t] = r.mail[t] \o SetToSeq(X(t))
  <2> HIDE DEF X
  <2> QED BY <1>4, <1>9
<1>11. \A m : m \in H <=> \E c \in D : m = Term(c) BY DEF Terms
<1>12. \A t : \A m : m \in X(t) <=> \E c \in D : m = Term(c) /\ r.own[c].tid = t
  BY DEF Term
<1> HIDE DEF X, f
<1>13. OnlyMail(r, r2)
  <2> SUFFICES ASSUME NEW b \in {"reaper", "term"} PROVE r2.mail[b] = r.mail[b]
    BY <1>9 DEF OnlyMail
  <2>1. \A c \in D : r.own[c].tid \in Slots BY <1>1, BoxType DEF Actors
  <2>2. b \notin Slots /\ b \in Boxes BY OwnershipAssumption DEF Slots, Boxes
  <2>3. X(b) = {} BY <1>12, <2>1, <2>2
  <2>4. IsFiniteSet(X(b)) BY <1>2
  <2>5. \A i \in DOMAIN SetToSeq(X(b)) : SetToSeq(X(b))[i] \in {} BY <2>3, <2>4, SetSeq
  <2>6. SetToSeq(X(b)) = << >> BY <1>3, <2>5
  <2> QED BY <1>4, <1>10, <2>2, <2>6
<1>14. SameTotals(r, H, r2, {})
  <2> SUFFICES ASSUME NEW o \in Actors, NEW S \in SUBSET Commands, \A x \in S : x.dest = o
               PROVE  Total(r2, {}, o, S) = Total(r, H, o, S)
    BY DEF SameTotals
  <2>1. Box(r, o) \in Seq(Commands) BY <1>1, BoxType
  <2>2. Count(Box(r, o), S) \in Nat BY <2>1, Places
  <2>3. Cardinality({} \cap S) = 0 BY FS_EmptySet
  <2>4. \A c \in D : Term(c) \in S => c = o BY VocabularyTypes DEF Actors
  <2>5. CASE Live(r, o)
    <3> DEFINE t == r.own[o].tid
    <3>1. t \in Boxes BY <1>1, <2>5, BoxType DEF Boxes
    <3>2. Box(r, o) = r.mail[t] /\ Box(r2, o) = r.mail[t] \o SetToSeq(X(t))
      BY <1>9, <1>10, <2>5, <3>1 DEF Box, Live
    <3> DEFINE p == r.mail[t]
               q == SetToSeq(X(t))
    <3>3. p \in Seq(Commands) /\ q \in Seq(Commands) BY <1>3, <2>1, <3>2
    <3>4. Box(r, o) = p /\ Box(r2, o) = p \o q BY <3>2
    <3>5. Count(q, S) = Cardinality(X(t) \cap S) BY <1>2, SetSeq
    <3> HIDE DEF p, q
    <3>6. Count(Box(r2, o), S) = Count(Box(r, o), S) + Count(q, S)
      BY <3>3, <3>4, CountCat
    <3>7. X(t) \cap S = H \cap S BY <1>11, <1>12, <2>4
    <3>8. IsFiniteSet(H \cap S) BY <1>1, FS_Intersection
    <3>9. Cardinality(H \cap S) \in Nat BY <3>8, FS_CardinalityType
    <3>10. Count(Box(r2, o), S) = Count(Box(r, o), S) + Cardinality(H \cap S)
      BY <3>6, <3>5, <3>7
    <3> HIDE DEF H
    <3> QED BY <2>2, <2>3, <3>9, <3>10 DEF Total
  <2>6. CASE ~Live(r, o)
    <3>1. Box(r2, o) = Box(r, o) BY <1>9, <2>6 DEF Box, Live
    <3>2. H \cap S = {}
      BY <1>11, <2>4, <2>6
    <3> QED BY <3>1, <3>2 DEF Total
  <2> QED BY <2>5, <2>6
<1>15. \A x : Proper(r2, x) <=> Proper(r, x) BY <1>9 DEF Proper, Live
<1>16. \A x, o : Child(r2, x, o) <=> Child(r, x, o) BY <1>9 DEF Child, Live
<1>17. \A c \in D : /\ Proper(r, Term(c)) /\ Term(c).type = "term" /\ Term(c).dest = c
  BY DEF Proper, Term, Cmd, Actors
<1>18. ASSUME NEW t \in Slots
       PROVE  /\ \A i \in DOMAIN r.mail[t] : i \in DOMAIN r2.mail[t] /\ r2.mail[t][i] = r.mail[t][i]
              /\ \A i \in DOMAIN r2.mail[t] : i \in DOMAIN r.mail[t] \/ r2.mail[t][i] \in X(t)
  <2> DEFINE q == r.mail[t]
             u == SetToSeq(X(t))
  <2>1. q \in Seq(Commands) /\ u \in Seq(Commands) /\ r2.mail[t] = q \o u
    BY <1>3, <1>4, <1>10 DEF Boxes
  <2>2. \A i \in DOMAIN u : u[i] \in X(t) BY <1>2, SetSeq
  <2> HIDE DEF q, u
  <2>3. /\ \A i \in DOMAIN q : i \in DOMAIN (q \o u) /\ (q \o u)[i] = q[i]
        /\ \A i \in DOMAIN (q \o u) : i \notin DOMAIN q =>
             i - Len(q) \in DOMAIN u /\ (q \o u)[i] = u[i - Len(q)]
    BY <2>1
  <2> QED BY <2>1, <2>2, <2>3 DEF q
<1>19. Routed(r2)
  <2> SUFFICES ASSUME NEW b \in Slots, NEW i \in DOMAIN r2.mail[b]
               PROVE  Proper(r2, r2.mail[b][i]) /\ r2.own[r2.mail[b][i].dest].tid = b
    BY DEF Routed
  <2>1. CASE i \in DOMAIN r.mail[b]
    <3>1. Proper(r, r.mail[b][i]) /\ r.own[r.mail[b][i].dest].tid = b BY <1>1, <2>1 DEF Routed
    <3> QED BY <1>9, <1>15, <1>18, <2>1, <3>1
  <2>2. CASE r2.mail[b][i] \in X(b) BY <1>9, <1>12, <1>15, <1>17, <2>2
  <2> QED BY <1>18, <2>1, <2>2
<1>20. Requests(r2)
  <2> SUFFICES ASSUME NEW b \in Slots, NEW i \in DOMAIN r2.mail[b],
                      r2.mail[b][i].type = "term_req"
               PROVE  \/ Child(r2, r2.mail[b][i].arg, r2.mail[b][i].dest)
                      \/ \E j \in DOMAIN r2.mail[b] :
                           i < j /\ r2.mail[b][j] = Ack(r2.mail[b][i].dest)
    BY DEF Requests
  <2>1. i \in DOMAIN r.mail[b] BY <1>12, <1>17, <1>18
  <2>2. r2.mail[b][i] = r.mail[b][i] BY <1>18, <2>1
  <2>3. \/ Child(r, r.mail[b][i].arg, r.mail[b][i].dest)
        \/ \E j \in DOMAIN r.mail[b] : i < j /\ r.mail[b][j] = Ack(r.mail[b][i].dest)
    BY <1>1, <2>1, <2>2 DEF Requests
  <2> QED BY <1>16, <1>18, <2>2, <2>3
<1>21. Ready(r2, {}) /\ {} \in SUBSET Commands /\ IsFiniteSet({}) BY FS_EmptySet DEF Ready
<1>22. Good(r2, {}) BY <1>9, <1>14, <1>19, <1>20, <1>21, Alike
<1> QED BY <1>13, <1>22 DEF r2
-----------------------------------------------------------------------------
(* The steps of an object.  What a step leaves alone keeps its part of the *)
(* invariant.                                                              *)

SameId(x, y) ==
    /\ y.kind = x.kind /\ y.tid = x.tid /\ y.owner = x.owner /\ y.socket = x.socket
    /\ y.active = x.active
SameStage(x, y) ==
    /\ y.plugged = x.plugged /\ y.pending = x.pending /\ y.terminating = x.terminating
    /\ y.owned = x.owned
SameLink(x, y) == y.plugged = x.plugged /\ y.connected = x.connected /\ y.engine = x.engine
SamePipes(x, y) ==
    /\ y.pipes = x.pipes /\ y.reaping = x.reaping /\ y.pending = x.pending
    /\ y.terminating = x.terminating

\* A step without birth or death, before anything is posted.
Frame(r, H, r2) ==
    /\ Kinds(r2) /\ Owners(r2) /\ Routed(r2) /\ Requests(r2)
    /\ Unused(r2) = Unused(r)
    /\ \A m : Proper(r2, m) <=> Proper(r, m)
    /\ \A c, p : Child(r2, c, p) <=> Child(r, c, p)
    /\ \A p \in Actors : (Live(r2, p) <=> Live(r, p)) /\ SameId(r.own[p], r2.own[p])
    /\ \A c \in Objects : Live(r, c) => r.own[c].owner \in Actors
    /\ \A H2 : Moved(r, H, r2, H2)
    /\ \A K : \A o \in Actors : Cnt(r2, K, o) = Cnt(r, K, o)
    /\ Naturals(r, H)

\* A handler that neither creates nor deletes an object and has not posted yet keeps who
\* lives, who owns whom and what is under way.
LEMMA Framed ==
  ASSUME NEW r, NEW H, Good(r, H), NEW r2 \in States, r2.mail = r.mail, Kinds(r2),
         \A p \in Actors : SameId(r.own[p], r2.own[p])
  PROVE  Frame(r, H, r2)
<1>1. r \in States /\ Kinds(r) /\ Owners(r) /\ Routed(r) /\ Requests(r) /\ IsFiniteSet(H)
  BY DEF Good
<1>2. \A p \in Actors : Live(r2, p) <=> Live(r, p) BY DEF SameId, Live
<1>3. \A c \in Objects : Live(r, c) => r.own[c].owner \in Actors
  BY <1>1 DEF Owners, Kinds, Actors, Live
<1>4. \A m : Proper(r2, m) <=> Proper(r, m) BY <1>2 DEF Proper, SameId, Actors
<1>5. \A c, p : Child(r2, c, p) <=> Child(r, c, p) BY <1>2 DEF Child, SameId, Actors
<1>6. Owners(r2)
  <2> SUFFICES ASSUME NEW c \in Objects PROVE
         LET x == r2.own[c]
         IN  /\ x.kind = "listener" => x.owner \in Sockets /\ r2.own[x.owner].kind = "socket"
             /\ x.kind = "connecter" => x.owner \in Objects /\ r2.own[x.owner].kind = "session"
             /\ x.kind = "session" =>
                  /\ x.socket \in Sockets /\ r2.own[x.socket].kind = "socket"
                  /\ \/ x.owner = x.socket
                     \/ /\ x.owner \in Objects /\ r2.own[x.owner].kind = "listener"
                        /\ r2.own[x.owner].owner = x.socket
    BY DEF Owners
  <2> QED BY <1>1 DEF Owners, SameId, Actors
<1>7. Routed(r2)
  <2> SUFFICES ASSUME NEW t \in Slots, NEW i \in DOMAIN r.mail[t]
               PROVE  Proper(r2, r.mail[t][i]) /\ r2.own[r.mail[t][i].dest].tid = t
    BY DEF Routed
  <2>1. Proper(r, r.mail[t][i]) /\ r.own[r.mail[t][i].dest].tid = t BY <1>1 DEF Routed
  <2>2. r.mail[t][i].dest \in Actors BY <2>1 DEF Proper
  <2> QED BY <1>4, <2>1, <2>2 DEF SameId
<1>8. Requests(r2) BY <1>1, <1>5 DEF Requests
<1>9. Stay(r, r2) BY <1>2 DEF Stay, SameId
<1>10. Unused(r2) = Unused(r) BY DEF Unused, SameId, Actors
<1> QED BY <1>1, <1>2, <1>3, <1>4, <1>5, <1>6, <1>7, <1>8, <1>9, <1>10, Moves, AllNaturals DEF Frame

\* A step without plug, term and own commands keeps the stage of every object between
\* its launch (own_t::launch_child) and its end.
LEMMA KeepStages ==
  ASSUME NEW r, NEW H, Good(r, H), NEW r2, NEW H2, Frame(r, H, r2),
         \A p \in Actors : SameStage(r.own[p], r2.own[p]),
         \A c \in Objects : (Plug(c) \in H2 <=> Plug(c) \in H) /\ (Term(c) \in H2 <=> Term(c) \in H),
         \A o \in Actors, c \in Objects : Owns(o, c) \in H2 <=> Owns(o, c) \in H
  PROVE  Stages(r2, H2) /\ Owned(r2)
<1>0. Moved(r, H, r2, H2) /\ Naturals(r, H) BY DEF Frame
<1>1. \A c \in Objects : /\ Num(r2, H2, Plug(c)) = Num(r, H, Plug(c))
                         /\ Num(r2, H2, Term(c)) = Num(r, H, Term(c))
                         /\ Live(r, c) => Num(r2, H2, Owns(r.own[c].owner, c))
                                            = Num(r, H, Owns(r.own[c].owner, c))
  <2>1. \A c \in Objects : Live(r, c) => r.own[c].owner \in Actors BY DEF Frame
  <2> QED BY <1>0, <2>1 DEF Moved, Naturals, Bit
<1>2. Stages(r2, H2) BY <1>1 DEF Frame, Good, Stages, SameStage, SameId, Actors
<1>3. Owned(r2) BY DEF Frame, Good, Owned, SameStage
<1> QED BY <1>2, <1>3

\* A step without attach commands keeps every session with one engine or connecter.
LEMMA KeepEngines ==
  ASSUME NEW r, NEW H, Good(r, H), NEW r2, NEW H2, Frame(r, H, r2),
         \A p \in Actors : SameLink(r.own[p], r2.own[p]),
         \A c \in Objects : Attach(c) \in H2 <=> Attach(c) \in H
  PROVE  Engines(r2, H2)
<1>0. Moved(r, H, r2, H2) /\ Naturals(r, H) BY DEF Frame
<1>1. \A c \in Objects : Num(r2, H2, Attach(c)) = Num(r, H, Attach(c))
  BY <1>0 DEF Moved, Naturals, Bit
<1>2. \A c \in Objects : Dials(r2, c) = Dials(r, c) BY DEF Frame, Dials, SameLink, SameId, Actors
<1> QED BY <1>1, <1>2 DEF Frame, Good, Engines, SameLink, SameId, Actors

\* A step that unplugs nothing keeps an unused object for every session that may dial.
LEMMA KeepRooms ==
  ASSUME NEW r, NEW H, Good(r, H), NEW r2, Frame(r, H, r2),
         \A p \in Actors : r.own[p].plugged => r2.own[p].plugged
  PROVE  Rooms(r2)
<1>1. Dialling(r2) \subseteq Dialling(r) BY DEF Frame, Dialling, SameId, Actors
<1>2. IsFiniteSet(Objects) BY OwnershipAssumption
<1>3. IsFiniteSet(Dialling(r)) /\ IsFiniteSet(Unused(r)) BY <1>2, FS_Subset DEF Dialling, Unused
<1>4. Cardinality(Dialling(r2)) <= Cardinality(Dialling(r)) BY <1>1, <1>3, FS_Subset
<1>5. IsFiniteSet(Dialling(r2)) BY <1>1, <1>3, FS_Subset
<1>6. /\ Cardinality(Dialling(r2)) \in Nat /\ Cardinality(Dialling(r)) \in Nat
      /\ Cardinality(Unused(r)) \in Nat
  BY <1>3, <1>5, FS_CardinalityType
<1> QED BY <1>4, <1>6 DEF Frame, Good, Rooms

\* A step without bind commands that touches no pipe keeps the ends each socket holds.
LEMMA KeepPipes ==
  ASSUME NEW r, NEW H, Good(r, H), NEW r2, NEW H2, Frame(r, H, r2), r2.pipes = r.pipes,
         \A p \in Actors : SamePipes(r.own[p], r2.own[p]),
         \A o \in Actors, c \in Objects : Binds(o, c) \in H2 <=> Binds(o, c) \in H
  PROVE  Held(r2, H2) /\ EndsOK(r2)
<1>0. Moved(r, H, r2, H2) /\ Naturals(r, H) BY DEF Frame
<1>1. \A o \in Actors, c \in Objects : Num(r2, H2, Binds(o, c)) = Num(r, H, Binds(o, c))
  BY <1>0 DEF Moved, Naturals, Bit
<1>2. \A s \in Sockets, c \in Objects : Holds(r2, H2, s, c) <=> Holds(r, H, s, c)
  BY <1>1 DEF Holds, SamePipes, Actors
<1>3. Held(r2, H2) BY <1>1, <1>2 DEF Good, Held, SamePipes, Actors
<1>4. EndsOK(r2) BY DEF Frame, Good, EndsOK, SamePipes, SameId, Actors
<1> QED BY <1>3, <1>4

\* An object that a step changes keeps what is said of its kind.
KindOK(p, y) ==
    /\ p \in Sockets => (y.terminating => y.reaping)
    /\ p \in Objects => y.pipes = {} /\ ~y.destroyed /\ ~y.reaping
    /\ y.pending => y.kind = "session"
    /\ y.terminating => y.owned = {}

\* Objects keep their kind and thread when the changed one is still as its kind requires.
LEMMA KeepKinds ==
  ASSUME NEW r, NEW H, Good(r, H), NEW r2,
         \A p \in Actors : SameId(r.own[p], r2.own[p]),
         \A p \in Actors : r2.own[p] = r.own[p] \/ (Live(r, p) /\ KindOK(p, r2.own[p]))
  PROVE  Kinds(r2)
<1>1. Kinds(r) BY DEF Good
<1> DEFINE Fine(p) ==
             /\ p \in Sockets =>
                  /\ r2.own[p].kind \in {"unborn", "socket", "deleted"}
                  /\ r2.own[p].kind = "socket" => r2.own[p].tid = p
                  /\ r2.own[p].terminating => r2.own[p].reaping
             /\ p \in Objects =>
                  /\ r2.own[p].kind \in {"unborn", "listener", "session", "connecter", "deleted"}
                  /\ Live(r2, p) => r2.own[p].tid \in IoThreads
                  /\ r2.own[p].pipes = {} /\ ~r2.own[p].destroyed /\ ~r2.own[p].reaping
             /\ r2.own[p].kind = "unborn" => r2.own[p] = Unborn
             /\ r2.own[p].kind = "deleted" => r2.own[p] = Deleted
             /\ r2.own[p].pending => r2.own[p].kind = "session"
             /\ r2.own[p].terminating => r2.own[p].owned = {}
<1>2. ASSUME NEW p \in Actors, r2.own[p] = r.own[p] PROVE Fine(p)
  BY <1>1, <1>2 DEF Kinds, Live
<1>3. ASSUME NEW p \in Actors, Live(r, p), KindOK(p, r2.own[p]) PROVE Fine(p)
  BY <1>1, <1>3 DEF Kinds, Live, SameId, KindOK
<1> QED BY <1>2, <1>3 DEF Kinds, Actors, Live

With(r, o, y) == [r EXCEPT !.own = [r.own EXCEPT ![o] = y]]
\* Only object o changes; only the objects of O do.
Edit(r, r2, o, y) ==
    /\ r2 \in States /\ r2.own[o] = y /\ \A p \in Actors : p # o => r2.own[p] = r.own[p]
    /\ r2.mail = r.mail /\ r2.pipes = r.pipes /\ r2.failed = r.failed

\* An assignment to the fields of one object changes that object only.
LEMMA OwnStep ==
  ASSUME NEW r \in States, NEW o \in Actors, NEW y \in Object
  PROVE  Edit(r, With(r, o, y), o, y)
<1> DEFINE f == [r.own EXCEPT ![o] = y]
           r2 == With(r, o, y)
<1>1. f \in [Actors -> Object] /\ r2 = [r EXCEPT !.own = f] BY DEF States, With
<1>2. /\ r2 \in States /\ r2.own = f
      /\ r2.mail = r.mail /\ r2.pipes = r.pipes /\ r2.failed = r.failed
  <2> HIDE DEF f, r2
  <2> QED BY <1>1, WithOwn
<1>3. r.own \in [Actors -> Object] BY DEF States
<1> HIDE DEF r2
<1>4. r2.own[o] = y /\ \A p \in Actors : p # o => r2.own[p] = r.own[p] BY <1>2, <1>3
<1> QED BY <1>2, <1>4 DEF r2, Edit

\* A command in hand counts once, for the object it is sent to.
LEMMA HandOne ==
  ASSUME NEW r \in States, Kinds(r), NEW m, NEW o \in Actors
  PROVE  /\ Cnt(r, {m}, o) = Cnt(r, {}, o) + Bit(m \in Counted(o))
         /\ Cnt(r, {}, o) \in Nat
<1>1. IsFiniteSet({}) BY FS_EmptySet
<1>2. Cnt(r, {} \cup {m}, o) = Cnt(r, {}, o) + Bit(m \in Counted(o)) BY <1>1, HandAdd
<1>3. {} \cup {m} = {m} OBVIOUS
<1> QED BY <1>1, <1>2, <1>3, CntNat

\* What the context knows of its sockets is not touched.
Beside(r, r2) ==
    /\ r2.mail["reaper"] = r.mail["reaper"] /\ r2.mail["term"] = r.mail["term"]
    /\ \A s \in Sockets : /\ r2.own[s].kind = r.own[s].kind
                          /\ r2.own[s].reaping = r.own[s].reaping
                          /\ r2.own[s].terminating = r.own[s].terminating

\* The acknowledgements that are waited for, when only counted commands move.
SameAcks(x, y) ==
    /\ y.owned = x.owned /\ y.term_acks = x.term_acks /\ y.reaping = x.reaping
    /\ y.pipes = x.pipes /\ y.destroyed = x.destroyed /\ y.terminating = x.terminating

\* A step that keeps sent_seqnum equal to processed_seqnum and the counted commands under
\* way, and no acknowledgement, keeps the account of every object.
LEMMA KeepBalanced ==
  ASSUME NEW r, NEW H, Good(r, H), NEW r2, NEW H2, Frame(r, H, r2),
         \A p \in Actors : SameAcks(r.own[p], r2.own[p]),
         \A o \in Actors : Ack(o) \in H2 <=> Ack(o) \in H,
         \A o \in Actors, c \in Objects : Owns(o, c) \in H2 <=> Owns(o, c) \in H,
         \A p \in Actors : Live(r, p) =>
           /\ r2.own[p].sent_seqnum = r2.own[p].processed_seqnum + Cnt(r2, H2, p)
           /\ r.own[p].destroyed => r2.own[p].sent_seqnum = r2.own[p].processed_seqnum
  PROVE  Balanced(r2, H2)
<1>0. Moved(r, H, r2, H2) /\ Naturals(r, H) BY DEF Frame
<1>1. /\ \A o \in Actors : Num(r2, H2, Ack(o)) = Num(r, H, Ack(o))
      /\ \A o \in Actors, c \in Objects : Num(r2, H2, Owns(o, c)) = Num(r, H, Owns(o, c))
  BY <1>0 DEF Moved, Naturals, Bit
<1>2. \A p \in Actors : Live(r2, p) <=> Live(r, p) BY DEF Frame
<1>3. \A c, p : Child(r2, c, p) <=> Child(r, c, p) BY DEF Frame
<1>4. \A p \in Actors : Told(r2, H2, p) = Told(r, H, p) BY <1>1, <1>3 DEF Told, SameAcks
<1>5. \A p \in Actors : Left(r2.own[p]) = Left(r.own[p]) BY DEF Left, SameAcks
<1>6. Balanced(r, H) BY DEF Good
<1> QED BY <1>1, <1>2, <1>4, <1>5, <1>6 DEF Balanced, SameAcks

\* own_t::process_plug.
SetPlugged(x, y) ==
    /\ SameId(x, y) /\ SamePipes(x, y) /\ SameAcks(x, y)
    /\ y.plugged = TRUE /\ y.engine = x.engine /\ y.connected = x.connected
    /\ y.sent_seqnum = x.sent_seqnum /\ y.processed_seqnum = x.processed_seqnum
\* The handler keeps the invariant; what is left to do is process_seqnum.
LEMMA PlugStep ==
  ASSUME NEW r, NEW o \in Objects, Good(r, {Plug(o)}), Busy(r),
         NEW r2, NEW y, Edit(r, r2, o, y), SetPlugged(r.own[o], y)
  PROVE  /\ Good(r2, {Seqnum(o)}) /\ Busy(r2) /\ Beside(r, r2) /\ ~r.own[o].plugged
<1> DEFINE H == {Plug(o)}
           H2 == {Seqnum(o)}
           x == r.own[o]
<1>1. /\ Good(r, H) /\ r \in States /\ ~r.failed /\ Kinds(r) /\ Ready(r, H) /\ o \in Actors
  BY DEF Good, Actors
<1>2. Live(r, o) BY <1>1, VocabularyTypes DEF Ready, Proper
<1>6. /\ r2 \in States /\ r2.own[o] = y /\ \A p \in Actors : p # o => r2.own[p] = r.own[p]
      /\ r2.mail = r.mail /\ r2.pipes = r.pipes /\ r2.failed = r.failed
  BY DEF Edit
<1>7. \A p \in Actors : SameId(r.own[p], r2.own[p]) /\ SamePipes(r.own[p], r2.own[p])
                        /\ SameAcks(r.own[p], r2.own[p])
  BY <1>6 DEF SetPlugged, SameId, SamePipes, SameAcks
<1>8. \A p \in Actors : r2.own[p] = r.own[p] \/ (Live(r, p) /\ KindOK(p, r2.own[p]))
  BY <1>1, <1>2, <1>6 DEF SetPlugged, KindOK, Kinds, SameId, SamePipes, SameAcks
<1>9. Kinds(r2) BY <1>7, <1>8, KeepKinds
<1>10. Frame(r, H, r2) BY <1>6, <1>7, <1>9, Framed
<1>11. Moved(r, H, r2, H2) /\ Naturals(r, H) BY <1>10 DEF Frame
<1>12. /\ \A c \in Objects : /\ Plug(c) \in H <=> c = o
                             /\ Plug(c) \notin H2
                             /\ Term(c) \notin H /\ Term(c) \notin H2
                             /\ Attach(c) \notin H /\ Attach(c) \notin H2
       /\ \A p \in Actors : Ack(p) \notin H /\ Ack(p) \notin H2
       /\ \A p \in Actors, c \in Objects : /\ Owns(p, c) \notin H /\ Owns(p, c) \notin H2
                                           /\ Binds(p, c) \notin H /\ Binds(p, c) \notin H2
  BY <1>1, Vocabulary DEF Actors
<1> HIDE DEF H, H2
<1>13. /\ \A c \in Objects : Num(r2, H2, Plug(c)) = Num(r, H, Plug(c)) - Bit(c = o)
       /\ \A c \in Objects : /\ Num(r2, H2, Term(c)) = Num(r, H, Term(c))
                             /\ Num(r2, H2, Attach(c)) = Num(r, H, Attach(c))
       /\ \A p \in Actors, c \in Objects : Num(r2, H2, Owns(p, c)) = Num(r, H, Owns(p, c))
  BY <1>11, <1>12 DEF Moved, Naturals, Bit
<1>14. Num(r, H, Plug(o)) > 0 BY <1>1, <1>12, NumNat, VocabularyTypes
<1>15. Stages(r, H) /\ Engines(r, H) /\ Balanced(r, H) /\ Owned(r) BY <1>1 DEF Good
<1>16. ~r.own[o].plugged
  BY <1>2, <1>11, <1>14, <1>15 DEF Stages, Naturals, Bit
<1>17. Stages(r2, H2)
  <2> SUFFICES ASSUME NEW c \in Objects, Live(r2, c) PROVE
        /\ Num(r2, H2, Plug(c)) + Bit(r2.own[c].plugged) = 1
        /\ Num(r2, H2, Owns(r2.own[c].owner, c)) + Bit(c \in r2.own[r2.own[c].owner].owned)
           + Num(r2, H2, Term(c)) + Bit(r2.own[c].pending) + Bit(r2.own[c].terminating) = 1
    BY DEF Stages
  <2>1. Live(r, c) /\ r.own[c].owner \in Actors /\ r2.own[c].owner = r.own[c].owner /\ c \in Actors
    BY <1>10 DEF Frame, SameId, Actors
  <2>2. Num(r2, H2, Plug(c)) + Bit(r2.own[c].plugged) = 1
    <3>1. Num(r, H, Plug(c)) + Bit(r.own[c].plugged) = 1 /\ Num(r, H, Plug(c)) \in Nat
      BY <1>11, <1>15, <2>1 DEF Stages, Naturals
    <3>2. CASE c = o BY <1>6, <1>13, <1>16, <3>1, <3>2 DEF Bit, SetPlugged
    <3>3. CASE c # o
      <4>1. r2.own[c] = r.own[c] /\ Num(r2, H2, Plug(c)) = Num(r, H, Plug(c)) - 0
        BY <1>6, <1>13, <2>1, <3>3 DEF Bit
      <4> QED BY <3>1, <4>1
    <3> QED BY <3>2, <3>3
  <2> QED BY <1>7, <1>13, <1>15, <2>1, <2>2 DEF Stages, SamePipes, SameAcks
<1>18. Owned(r2) BY <1>7, <1>10, <1>15 DEF Owned, SameAcks, Frame
<1>19. Engines(r2, H2)
  <2>1. \A c \in Objects : Dials(r2, c) = Dials(r, c)
    BY <1>6, <1>7 DEF Dials, SameId, SetPlugged, Actors
  <2>2. \A c \in Objects : /\ r2.own[c].engine = r.own[c].engine /\ r2.own[c].active = r.own[c].active
                           /\ r.own[c].plugged => r2.own[c].plugged
                           /\ r2.own[c].kind = r.own[c].kind
    BY <1>6, <1>7 DEF SameId, SetPlugged, Actors
  <2> QED BY <1>11, <1>13, <1>15, <2>1, <2>2 DEF Engines, Bit, Naturals
<1>20. Held(r2, H2) /\ EndsOK(r2) BY <1>1, <1>6, <1>7, <1>10, <1>12, KeepPipes
<1>21. \A p \in Actors : Cnt(r2, H2, p) = Cnt(r, H, p)
  <2> SUFFICES ASSUME NEW p \in Actors PROVE Cnt(r2, H2, p) = Cnt(r, H, p) OBVIOUS
  <2>1. Cnt(r2, H2, p) = Cnt(r, H2, p) BY <1>10 DEF Frame
  <2>2. Cnt(r, H2, p) = Cnt(r, {}, p) + Bit(Seqnum(o) \in Counted(p)) BY <1>1, HandOne DEF H2
  <2>3. Cnt(r, H, p) = Cnt(r, {}, p) + Bit(Plug(o) \in Counted(p)) BY <1>1, HandOne DEF H
  <2>4. Seqnum(o) \in Counted(p) <=> Plug(o) \in Counted(p) BY <1>1, VocabularyCounted
  <2> QED BY <2>1, <2>2, <2>3, <2>4
<1>22. \A p \in Actors : /\ r2.own[p].sent_seqnum = r.own[p].sent_seqnum
                         /\ r2.own[p].processed_seqnum = r.own[p].processed_seqnum
  BY <1>6 DEF SetPlugged
<1>23. Balanced(r2, H2)
  <2>1. \A p \in Actors : Live(r, p) =>
           /\ r2.own[p].sent_seqnum = r2.own[p].processed_seqnum + Cnt(r2, H2, p)
           /\ r.own[p].destroyed => r2.own[p].sent_seqnum = r2.own[p].processed_seqnum
    BY <1>15, <1>21, <1>22 DEF Balanced
  <2> QED BY <1>1, <1>7, <1>10, <1>12, <2>1, KeepBalanced
<1>24. Rooms(r2)
  <2>1. \A p \in Actors : r.own[p].plugged => r2.own[p].plugged BY <1>6 DEF SetPlugged
  <2> QED BY <1>1, <1>10, <2>1, KeepRooms
<1>25. Ready(r2, H2) /\ H2 \in SUBSET Commands /\ IsFiniteSet(H2)
  <2>1. Live(r2, o) BY <1>1, <1>2, <1>10 DEF Frame
  <2> QED BY <1>1, <2>1, VocabularyTypes, FS_Singleton DEF Ready, H2
<1>26. Good(r2, H2)
  BY <1>1, <1>6, <1>10, <1>17, <1>18, <1>19, <1>20, <1>23, <1>24, <1>25 DEF Good, Frame
<1>27. Busy(r2) BY <1>7, <1>22 DEF Busy, Waits, SameAcks
<1>28. Beside(r, r2) BY <1>6, <1>7 DEF Beside, SameId, SameAcks, Actors
<1> QED BY <1>16, <1>26, <1>27, <1>28 DEF H2
-----------------------------------------------------------------------------
(* An object is born: own_t::launch_child. *)

\* A command that nobody may have sent is nowhere.
LEMMA Absent ==
  ASSUME NEW r, NEW H, Good(r, H), NEW m \in Commands, m.dest \in Actors, ~Proper(r, m),
         m # Seqnum(m.dest)
  PROVE  m \notin H /\ Num(r, H, m) = 0
<1>1. /\ r \in States /\ Kinds(r) /\ Routed(r) /\ Ready(r, H) BY DEF Good
<1>2. m \notin H BY <1>1 DEF Ready
<1>3. Box(r, m.dest) \in Seq(Commands) BY <1>1, BoxType
<1>4. \A i \in DOMAIN Box(r, m.dest) : Box(r, m.dest)[i] # m
  <2>1. CASE Live(r, m.dest)
    <3>1. r.own[m.dest].tid \in Slots /\ Box(r, m.dest) = r.mail[r.own[m.dest].tid]
      BY <1>1, <2>1, BoxType
    <3> QED BY <1>1, <3>1 DEF Routed
  <2>2. CASE ~Live(r, m.dest)
    <3>1. Box(r, m.dest) = << >> BY <2>2 DEF Box
    <3> QED BY <3>1
  <2> QED BY <2>1, <2>2
<1>5. Count(Box(r, m.dest), {m}) = 0 BY <1>3, <1>4, Places
<1>6. Num(r, H, m) = Count(Box(r, m.dest), {m}) + Bit(m \in H) BY NumHand
<1> QED BY <1>2, <1>5, <1>6 DEF Bit

\* Nothing is under way to an object that does not exist yet.
LEMMA Strangers ==
  ASSUME NEW r, NEW H, Good(r, H), NEW k \in Objects, r.own[k].kind = "unborn"
  PROVE  /\ ~Live(r, k) /\ r.own[k] = Unborn
         /\ Plug(k) \notin H /\ Num(r, H, Plug(k)) = 0 /\ Num(r, H, Term(k)) = 0
         /\ Num(r, H, Attach(k)) = 0 /\ Num(r, H, Ack(k)) = 0 /\ Cnt(r, H, k) = 0
         /\ \A p \in Actors : Owns(p, k) \notin H /\ Num(r, H, Owns(p, k)) = 0
         /\ \A c : ~Child(r, c, k)
         /\ \A p \in Actors : k \notin r.own[p].owned
<1>1. /\ r \in States /\ Kinds(r) /\ Routed(r) /\ Ready(r, H) /\ Owners(r) /\ Owned(r)
      /\ IsFiniteSet(H) /\ k \in Actors
  BY DEF Good, Actors
<1>2. ~Live(r, k) /\ r.own[k] = Unborn BY <1>1 DEF Live, Kinds
<1>3. \A m : Proper(r, m) => m.dest # k BY <1>2 DEF Proper
<1>4. /\ Plug(k) \notin H /\ Num(r, H, Plug(k)) = 0 /\ Num(r, H, Term(k)) = 0
      /\ Num(r, H, Attach(k)) = 0 /\ Num(r, H, Ack(k)) = 0
  BY <1>1, <1>3, VocabularyTypes, Vocabulary, Absent
<1>5. ASSUME NEW p \in Actors PROVE Owns(p, k) \notin H /\ Num(r, H, Owns(p, k)) = 0
  <2>1. Owns(p, k).arg = k /\ Owns(p, k).type = "own" BY DEF Owns, Cmd
  <2>2. ~Proper(r, Owns(p, k)) BY <1>2, <2>1 DEF Proper
  <2>3. Owns(p, k) \in Commands /\ Owns(p, k).dest = p BY VocabularyTypes
  <2>4. Owns(p, k) # Seqnum(p) BY Vocabulary
  <2> QED BY <2>2, <2>3, <2>4, Absent
<1>6. Cnt(r, H, k) = 0
  <2>1. Box(r, k) = << >> BY <1>2 DEF Box
  <2>2. Count(Box(r, k), Counted(k)) = 0 BY <2>1, CountEmpty
  <2>3. H \cap Counted(k) = {}
    BY <1>1, <1>2, <1>3 DEF Ready, Counted
  <2>4. Cardinality(H \cap Counted(k)) = 0 BY <2>3, FS_EmptySet
  <2> QED BY <2>2, <2>4 DEF Cnt, Total
<1>7. \A c : ~Child(r, c, k)
  BY <1>1, <1>2, OwnershipAssumption DEF Child, Owners, Live, Kinds
<1>8. \A p \in Actors : k \notin r.own[p].owned BY <1>1, <1>2 DEF Owned, Child
<1> QED BY <1>2, <1>4, <1>5, <1>6, <1>7, <1>8

\* Two objects change.
Edit2(r, r2, o, y, p, z) ==
    /\ r2 \in States /\ r2.own[o] = y /\ r2.own[p] = z
    /\ \A q \in Actors : q # o /\ q # p => r2.own[q] = r.own[q]
    /\ r2.mail = r.mail /\ r2.pipes = r.pipes /\ r2.failed = r.failed

\* A child of w, which exists and is neither announced nor plugged.
Newborn(w, y) ==
    /\ y.kind \in {"listener", "session", "connecter"} /\ y.tid \in IoThreads /\ y.owner = w
    /\ y.owned = {} /\ y.pipes = {} /\ y.sent_seqnum = 1 /\ y.processed_seqnum = 0
    /\ y.term_acks = 0 /\ ~y.terminating /\ ~y.reaping /\ ~y.destroyed /\ ~y.pending
    /\ ~y.engine /\ ~y.plugged /\ ~y.connected
Related(r, w, y) ==
    /\ y.kind = "listener" => w \in Sockets /\ r.own[w].kind = "socket"
    /\ y.kind = "connecter" => w \in Objects /\ r.own[w].kind = "session"
    /\ y.kind = "session" =>
         /\ y.socket \in Sockets /\ r.own[y.socket].kind = "socket"
         /\ w = y.socket \/ (w \in Objects /\ r.own[w].kind = "listener" /\ r.own[w].owner = y.socket)
\* A counted command is sent to it.
SentOne(x, z) ==
    /\ SameId(x, z) /\ SamePipes(x, z) /\ SameAcks(x, z) /\ SameLink(x, z)
    /\ z.sent_seqnum = x.sent_seqnum + 1 /\ z.processed_seqnum = x.processed_seqnum
\* A session that may dial.
Idle(r, H, w) ==
    /\ Dials(r, w) = {} /\ Num(r, H, Attach(w)) = 0 /\ ~r.own[w].engine
    /\ ~(r.own[w].active /\ ~r.own[w].plugged)

\* own_t::launch_child keeps the invariant: the child is bound to two commands, a plug to
\* itself and an own to its owner, and both are counted before either is posted.
LEMMA LaunchStep ==
  ASSUME NEW r, NEW H, Good(r, H), Busy(r), NEW k \in Objects, r.own[k].kind = "unborn",
         NEW w \in Actors, Live(r, w), ~r.own[w].destroyed, NEW r2, NEW y, NEW z,
         Edit2(r, r2, k, y, w, z), Newborn(w, y), Related(r, w, y), SentOne(r.own[w], z),
         y.kind = "connecter" => Idle(r, H, w),
         Cardinality(Unused(r))
           >= Cardinality(Dialling(r)) + 1 + Bit(y.kind = "session" /\ y.active)
  PROVE  /\ Good(r2, H \cup {Plug(k), Owns(w, k)}) /\ Busy(r2) /\ Beside(r, r2)
         /\ Plug(k) \notin H /\ Owns(w, k) \notin H \cup {Plug(k)}
<1> DEFINE H2 == H \cup {Plug(k), Owns(w, k)}
<1>1. /\ r \in States /\ Kinds(r) /\ Owners(r) /\ Routed(r) /\ Requests(r) /\ Ready(r, H) /\ Owned(r)
      /\ Stages(r, H) /\ Engines(r, H) /\ Held(r, H) /\ EndsOK(r) /\ Balanced(r, H) /\ Rooms(r)
      /\ IsFiniteSet(H) /\ H \in SUBSET Commands /\ ~r.failed
  BY DEF Good
<1>2. k \in Actors /\ Objects \subseteq Actors /\ Sockets \subseteq Actors BY DEF Actors
<1>3. /\ ~Live(r, k) /\ r.own[k] = Unborn
      /\ Plug(k) \notin H /\ Num(r, H, Plug(k)) = 0 /\ Num(r, H, Term(k)) = 0
      /\ Num(r, H, Attach(k)) = 0 /\ Num(r, H, Ack(k)) = 0 /\ Cnt(r, H, k) = 0
      /\ \A p \in Actors : Owns(p, k) \notin H /\ Num(r, H, Owns(p, k)) = 0
      /\ \A c : ~Child(r, c, k)
      /\ \A p \in Actors : k \notin r.own[p].owned
  BY Strangers
<1>4. w # k BY <1>3
<1>5. /\ r2 \in States /\ r2.own[k] = y /\ r2.own[w] = z
      /\ \A q \in Actors : q # k /\ q # w => r2.own[q] = r.own[q]
      /\ r2.mail = r.mail /\ r2.pipes = r.pipes /\ r2.failed = r.failed
  BY DEF Edit2
<1>6. \A q \in Actors : q # k => /\ SameId(r.own[q], r2.own[q]) /\ SamePipes(r.own[q], r2.own[q])
                                 /\ SameAcks(r.own[q], r2.own[q]) /\ SameLink(r.own[q], r2.own[q])
  BY <1>5 DEF SentOne, SameId, SamePipes, SameAcks, SameLink
<1>7. /\ \A q \in Actors : q # k => (Live(r2, q) <=> Live(r, q))
      /\ Live(r2, k)
  BY <1>5, <1>6 DEF Live, SameId, Newborn
<1>8. Kinds(r2)
  <2> DEFINE Fine(p) ==
             /\ p \in Sockets =>
                  /\ r2.own[p].kind \in {"unborn", "socket", "deleted"}
                  /\ r2.own[p].kind = "socket" => r2.own[p].tid = p
                  /\ r2.own[p].terminating => r2.own[p].reaping
             /\ p \in Objects =>
                  /\ r2.own[p].kind \in {"unborn", "listener", "session", "connecter", "deleted"}
                  /\ Live(r2, p) => r2.own[p].tid \in IoThreads
                  /\ r2.own[p].pipes = {} /\ ~r2.own[p].destroyed /\ ~r2.own[p].reaping
             /\ r2.own[p].kind = "unborn" => r2.own[p] = Unborn
             /\ r2.own[p].kind = "deleted" => r2.own[p] = Deleted
             /\ r2.own[p].pending => r2.own[p].kind = "session"
             /\ r2.own[p].terminating => r2.own[p].owned = {}
  <2>1. ASSUME NEW p \in Actors, p # k, p # w PROVE Fine(p)
    BY <1>1, <1>5, <2>1 DEF Kinds, Live
  <2>2. Fine(w)
    BY <1>1, <1>4, <1>5, <1>6 DEF Kinds, Live, SameId, SamePipes, SameAcks
  <2>3. Fine(k) BY <1>5, OwnershipAssumption DEF Newborn
  <2> QED BY <2>1, <2>2, <2>3 DEF Kinds, Actors, Live
<1>9. Owners(r2)
  <2> DEFINE Fine(c) ==
         LET x == r2.own[c]
         IN  /\ x.kind = "listener" => x.owner \in Sockets /\ r2.own[x.owner].kind = "socket"
             /\ x.kind = "connecter" => x.owner \in Objects /\ r2.own[x.owner].kind = "session"
             /\ x.kind = "session" =>
                  /\ x.socket \in Sockets /\ r2.own[x.socket].kind = "socket"
                  /\ \/ x.owner = x.socket
                     \/ /\ x.owner \in Objects /\ r2.own[x.owner].kind = "listener"
                        /\ r2.own[x.owner].owner = x.socket
  <2>1. \A q \in Actors : r.own[q].kind # "unborn" =>
          r2.own[q].kind = r.own[q].kind /\ r2.own[q].owner = r.own[q].owner
    BY <1>3, <1>6 DEF SameId, Unborn
  <2>2. ASSUME NEW c \in Objects, c # k PROVE Fine(c)
    <3>1. /\ r2.own[c].kind = r.own[c].kind /\ r2.own[c].owner = r.own[c].owner
          /\ r2.own[c].socket = r.own[c].socket
      BY <1>2, <1>6, <2>2 DEF SameId
    <3> QED BY <1>1, <1>2, <2>1, <3>1 DEF Owners
  <2>3. Fine(k) BY <1>2, <1>5, <2>1 DEF Newborn, Related
  <2> QED BY <2>2, <2>3 DEF Owners
<1>10. /\ \A m : Proper(r, m) => Proper(r2, m)
       /\ \A c, p : Child(r2, c, p) <=> Child(r, c, p) \/ (c = k /\ p = w)
  <2>1. \A q \in Actors : Live(r, q) => Live(r2, q) /\ r2.own[q].kind = r.own[q].kind
                                        /\ r2.own[q].owner = r.own[q].owner
    BY <1>3, <1>6, <1>7 DEF SameId
  <2>2. ASSUME NEW m, Proper(r, m) PROVE Proper(r2, m) BY <1>2, <2>1, <2>2 DEF Proper
  <2>3. \A c, p : Child(r2, c, p) <=> Child(r, c, p) \/ (c = k /\ p = w)
    BY <1>2, <1>3, <1>5, <1>6, <1>7 DEF Child, SameId, Newborn
  <2> QED BY <2>2, <2>3
<1>11. Routed(r2) /\ Requests(r2)
  <2>1. ASSUME NEW t \in Slots, NEW i \in DOMAIN r.mail[t]
        PROVE  Proper(r2, r.mail[t][i]) /\ r2.own[r.mail[t][i].dest].tid = t
    <3>1. Proper(r, r.mail[t][i]) /\ r.own[r.mail[t][i].dest].tid = t BY <1>1 DEF Routed
    <3>2. r.mail[t][i].dest \in Actors /\ r.mail[t][i].dest # k BY <1>3, <3>1 DEF Proper
    <3> QED BY <1>6, <1>10, <3>1, <3>2 DEF SameId
  <2>2. Routed(r2) BY <1>5, <2>1 DEF Routed
  <2>3. Requests(r2) BY <1>1, <1>5, <1>10 DEF Requests
  <2> QED BY <2>2, <2>3
<1>12. Stay(r, r2) BY <1>3, <1>6, <1>7 DEF Stay, SameId
<1>13. /\ Moved(r, H, r2, H2) /\ Naturals(r, H)
       /\ \A K : \A o \in Actors : Cnt(r2, K, o) = Cnt(r, K, o)
  BY <1>1, <1>5, <1>8, <1>12, Moves, AllNaturals
<1>14. /\ \A c \in Objects : /\ Plug(c) \in H2 <=> Plug(c) \in H \/ c = k
                             /\ Term(c) \in H2 <=> Term(c) \in H
                             /\ Attach(c) \in H2 <=> Attach(c) \in H
       /\ \A p \in Actors : Ack(p) \in H2 <=> Ack(p) \in H
       /\ \A p \in Actors, c \in Objects : /\ Owns(p, c) \in H2 <=> Owns(p, c) \in H \/ (p = w /\ c = k)
                                           /\ Binds(p, c) \in H2 <=> Binds(p, c) \in H
       /\ Owns(w, k) # Plug(k)
  BY <1>2, Vocabulary
<1>15. IsFiniteSet(H2) /\ H2 \in SUBSET Commands /\ Ready(r2, H2)
  <2>1. IsFiniteSet(H \cup {Plug(k)}) BY <1>1, FS_AddElement
  <2>2. IsFiniteSet((H \cup {Plug(k)}) \cup {Owns(w, k)}) BY <2>1, FS_AddElement
  <2>3. H2 = (H \cup {Plug(k)}) \cup {Owns(w, k)} OBVIOUS
  <2>4. Plug(k) \in Commands /\ Owns(w, k) \in Commands BY <1>2, VocabularyTypes
  <2>5. Proper(r2, Plug(k)) BY <1>2, <1>7 DEF Proper, Plug, Cmd
  <2>6. Proper(r2, Owns(w, k)) BY <1>4, <1>5, <1>7 DEF Proper, Owns, Cmd, Newborn
  <2>7. \A q \in Actors : Live(r, q) => Live(r2, q) BY <1>3, <1>7
  <2>8. Ready(r2, H2) BY <1>1, <1>10, <2>5, <2>6, <2>7 DEF Ready
  <2> QED BY <1>1, <2>2, <2>3, <2>4, <2>8
<1> HIDE DEF H2
<1>16. /\ \A c \in Objects : /\ Num(r2, H2, Plug(c)) = Num(r, H, Plug(c)) + Bit(c = k)
                             /\ Num(r2, H2, Term(c)) = Num(r, H, Term(c))
                             /\ Num(r2, H2, Attach(c)) = Num(r, H, Attach(c))
       /\ \A p \in Actors : Num(r2, H2, Ack(p)) = Num(r, H, Ack(p))
       /\ \A p \in Actors, c \in Objects :
            /\ Num(r2, H2, Owns(p, c)) = Num(r, H, Owns(p, c)) + Bit(p = w /\ c = k)
            /\ Num(r2, H2, Binds(p, c)) = Num(r, H, Binds(p, c))
  <2>1. \A c \in Objects : /\ Num(r2, H2, Plug(c)) = Num(r, H, Plug(c)) + Bit(c = k)
                           /\ Num(r2, H2, Term(c)) = Num(r, H, Term(c))
                           /\ Num(r2, H2, Attach(c)) = Num(r, H, Attach(c))
    BY <1>3, <1>13, <1>14 DEF Moved, Naturals, Bit
  <2>2. \A p \in Actors : Num(r2, H2, Ack(p)) = Num(r, H, Ack(p))
    BY <1>13, <1>14 DEF Moved, Naturals, Bit
  <2>3. \A p \in Actors, c \in Objects :
            Num(r2, H2, Owns(p, c)) = Num(r, H, Owns(p, c)) + Bit(p = w /\ c = k)
    BY <1>3, <1>13, <1>14 DEF Moved, Naturals, Bit
  <2>4. \A p \in Actors, c \in Objects : Num(r2, H2, Binds(p, c)) = Num(r, H, Binds(p, c))
    BY <1>13, <1>14 DEF Moved, Naturals, Bit
  <2> QED BY <2>1, <2>2, <2>3, <2>4
<1>17. \A p \in Actors : Cnt(r2, H2, p) = Cnt(r, H, p) + Bit(p = k) + Bit(p = w)
  <2> SUFFICES ASSUME NEW p \in Actors PROVE Cnt(r2, H2, p) = Cnt(r, H, p) + Bit(p = k) + Bit(p = w)
    OBVIOUS
  <2>1. Cnt(r, H \cup {Plug(k)}, p) = Cnt(r, H, p) + Bit(Plug(k) \in Counted(p))
    BY <1>1, <1>3, HandAdd
  <2>2. IsFiniteSet(H \cup {Plug(k)}) BY <1>1, FS_AddElement
  <2>3. Owns(w, k) \notin H \cup {Plug(k)} BY <1>3, <1>14
  <2>4. Cnt(r, (H \cup {Plug(k)}) \cup {Owns(w, k)}, p)
          = Cnt(r, H \cup {Plug(k)}, p) + Bit(Owns(w, k) \in Counted(p))
    BY <1>1, <2>2, <2>3, HandAdd
  <2>5. (H \cup {Plug(k)}) \cup {Owns(w, k)} = H2 BY DEF H2
  <2>6. (Plug(k) \in Counted(p) <=> p = k) /\ (Owns(w, k) \in Counted(p) <=> p = w)
    BY <1>2, VocabularyCounted
  <2>7. Cnt(r2, H2, p) = Cnt(r, H2, p) BY <1>13
  <2> QED BY <2>1, <2>4, <2>5, <2>6, <2>7
<1>18. Stages(r2, H2)
  <2> DEFINE Fine(c) ==
        /\ Num(r2, H2, Plug(c)) + Bit(r2.own[c].plugged) = 1
        /\ Num(r2, H2, Owns(r2.own[c].owner, c)) + Bit(c \in r2.own[r2.own[c].owner].owned)
           + Num(r2, H2, Term(c)) + Bit(r2.own[c].pending) + Bit(r2.own[c].terminating) = 1
  <2>1. ASSUME NEW c \in Objects, c # k, Live(r2, c) PROVE Fine(c)
    <3>1. Live(r, c) /\ r2.own[c].owner = r.own[c].owner /\ c \in Actors
      BY <1>2, <1>6, <1>7, <2>1 DEF SameId
    <3>2. r.own[c].owner \in Actors /\ r.own[c].owner # k
      BY <1>1, <1>3, <3>1 DEF Owners, Kinds, Actors, Live, Child
    <3>3. /\ r2.own[c].plugged = r.own[c].plugged /\ r2.own[c].pending = r.own[c].pending
          /\ r2.own[c].terminating = r.own[c].terminating
          /\ r2.own[r.own[c].owner].owned = r.own[r.own[c].owner].owned
      BY <1>6, <2>1, <3>1, <3>2 DEF SamePipes, SameLink, SameAcks
    <3>4. /\ Num(r2, H2, Plug(c)) = Num(r, H, Plug(c))
          /\ Num(r2, H2, Owns(r.own[c].owner, c)) = Num(r, H, Owns(r.own[c].owner, c))
          /\ Num(r2, H2, Term(c)) = Num(r, H, Term(c))
      BY <1>13, <1>16, <2>1, <3>2 DEF Bit, Naturals
    <3> QED BY <1>1, <3>1, <3>3, <3>4 DEF Stages
  <2>2. Fine(k)
    <3>1. /\ Num(r2, H2, Plug(k)) = 1 /\ Num(r2, H2, Owns(w, k)) = 1 /\ Num(r2, H2, Term(k)) = 0
      BY <1>3, <1>16 DEF Bit
    <3>2. k \notin r2.own[w].owned BY <1>3, <1>4, <1>6 DEF SameAcks
    <3> QED BY <1>5, <3>1, <3>2 DEF Newborn, Bit
  <2> QED BY <2>1, <2>2 DEF Stages
<1>19. Owned(r2) BY <1>1, <1>5, <1>6, <1>10 DEF Owned, SameAcks, Newborn
<1>20. Engines(r2, H2)
  <2> DEFINE Sum(q, G, c) ==
        Bit(q.own[c].active /\ ~q.own[c].plugged) + Bit(Dials(q, c) # {})
        + Num(q, G, Attach(c)) + Bit(q.own[c].engine)
  <2>1. \A c \in Objects : c # w \/ y.kind # "connecter" => Dials(r2, c) = Dials(r, c)
    BY <1>2, <1>3, <1>5, <1>6 DEF Dials, SameId, SameLink, Newborn, Unborn
  <2>2. ASSUME NEW c \in Objects, c # k, r2.own[c].kind = "session"
        PROVE  /\ r.own[c].kind = "session" /\ r2.own[c].active = r.own[c].active
               /\ r2.own[c].plugged = r.own[c].plugged /\ r2.own[c].engine = r.own[c].engine
    BY <1>2, <1>6, <2>2 DEF SameId, SameLink
  <2>3. ASSUME NEW c \in Objects, c # k, c # w \/ y.kind # "connecter", r2.own[c].kind = "session"
        PROVE  Sum(r2, H2, c) <= 1 /\ \A a, b \in Dials(r2, c) : a = b
    <3>1. Dials(r2, c) = Dials(r, c) BY <2>1, <2>3
    <3>2. Num(r2, H2, Attach(c)) = Num(r, H, Attach(c)) BY <1>16
    <3> QED BY <1>1, <2>2, <2>3, <3>1, <3>2 DEF Engines
  <2>4. ASSUME y.kind = "connecter", w \in Objects, r2.own[w].kind = "session"
        PROVE  Sum(r2, H2, w) <= 1 /\ \A a, b \in Dials(r2, w) : a = b
    <3>1. Dials(r, w) = {} /\ Num(r, H, Attach(w)) = 0 /\ ~r.own[w].engine
          /\ ~(r.own[w].active /\ ~r.own[w].plugged)
      BY <2>4 DEF Idle
    <3>2. Num(r2, H2, Attach(w)) = 0 BY <1>16, <2>4, <3>1
    <3>3. ~r2.own[w].engine /\ ~(r2.own[w].active /\ ~r2.own[w].plugged)
      BY <1>4, <2>2, <2>4, <3>1
    <3>4. \A a \in Dials(r2, w) : a = k
      BY <1>2, <1>6, <3>1 DEF Dials, SameId, SameLink
    <3> QED BY <3>2, <3>3, <3>4 DEF Bit
  <2>5. ASSUME r2.own[k].kind = "session"
        PROVE  Sum(r2, H2, k) <= 1 /\ \A a, b \in Dials(r2, k) : a = b
    <3>1. Dials(r, k) = {} BY <1>3, <1>1 DEF Dials, Child, Live
    <3>2. Dials(r2, k) = {} BY <1>4, <2>1, <3>1
    <3>3. Num(r2, H2, Attach(k)) = 0 BY <1>3, <1>16
    <3> QED BY <1>5, <3>2, <3>3 DEF Bit, Newborn
  <2> QED BY <2>3, <2>4, <2>5 DEF Engines
<1>21. \A s \in Sockets : /\ r2.own[s].pipes = r.own[s].pipes /\ r2.own[s].reaping = r.own[s].reaping
  BY <1>2, <1>6, OwnershipAssumption DEF SamePipes
<1>210. Held(r2, H2)
  <2>1. \A s \in Sockets, c \in Objects :
          /\ Num(r2, H2, Binds(s, c)) = Num(r, H, Binds(s, c))
          /\ Holds(r2, H2, s, c) <=> Holds(r, H, s, c)
    BY <1>2, <1>16, <1>21 DEF Holds
  <2> QED BY <1>1, <1>5, <1>21, <2>1 DEF Held
<1>22. EndsOK(r2)
  <2>1. r.pipes[k].ends = {} BY <1>1 DEF EndsOK
  <2>2. \A c \in Objects : c # k => /\ r2.own[c].kind = r.own[c].kind
                                    /\ r2.own[c].terminating = r.own[c].terminating
                                    /\ r2.own[c].pending = r.own[c].pending
    BY <1>2, <1>6 DEF SameId, SamePipes
  <2>3. ~r2.own[k].pending /\ r2.own[k].kind # "unborn" BY <1>5 DEF Newborn
  <2>4. \A c \in Objects : \A s \in Sockets :
          r2.own[s].reaping /\ c \in r2.own[s].pipes => 1 \in r2.pipes[c].asked
    BY <1>1, <1>5, <1>21 DEF EndsOK
  <2> QED BY <1>1, <1>5, <2>1, <2>2, <2>3, <2>4 DEF EndsOK
<1>23. Balanced(r2, H2)
  <2> DEFINE Fine(o) ==
      LET x == r2.own[o]
      IN  /\ x.sent_seqnum = x.processed_seqnum + Cnt(r2, H2, o)
          /\ x.term_acks = Num(r2, H2, Ack(o)) + Cardinality(Told(r2, H2, o)) + Left(x)
          /\ x.destroyed =>
               x.terminating /\ x.sent_seqnum = x.processed_seqnum /\ x.term_acks = 0
  <2>1. ASSUME NEW o \in Actors, o # k PROVE Told(r2, H2, o) = Told(r, H, o)
    <3>1. r2.own[o].owned = r.own[o].owned BY <1>6, <2>1 DEF SameAcks
    <3>2. \A c \in Objects : c # k => Num(r2, H2, Owns(o, c)) = Num(r, H, Owns(o, c))
      BY <1>13, <1>16 DEF Bit, Naturals
    <3>3. k \notin Told(r2, H2, o)
      <4>1. Child(r2, k, o) => o = w BY <1>3, <1>10 DEF Child
      <4>2. Num(r2, H2, Owns(w, k)) = 1 BY <1>3, <1>16 DEF Bit
      <4> QED BY <4>1, <4>2 DEF Told
    <3>4. k \notin Told(r, H, o) BY <1>3 DEF Told, Child
    <3> QED BY <1>10, <3>1, <3>2, <3>3, <3>4 DEF Told
  <2>2. ASSUME NEW o \in Actors, o # k, Live(r2, o) PROVE Fine(o)
    <3>1. Live(r, o) BY <1>7, <2>2
    <3>2. /\ Told(r2, H2, o) = Told(r, H, o) /\ Num(r2, H2, Ack(o)) = Num(r, H, Ack(o))
      BY <1>16, <2>1, <2>2
    <3>3. /\ r2.own[o].term_acks = r.own[o].term_acks /\ Left(r2.own[o]) = Left(r.own[o])
          /\ r2.own[o].destroyed = r.own[o].destroyed
          /\ r2.own[o].terminating = r.own[o].terminating
      BY <1>6, <2>2 DEF SameAcks, Left
    <3>4. CASE o = w
      <4>1. Cnt(r2, H2, o) = Cnt(r, H, o) + 0 + 1 /\ Cnt(r, H, o) \in Nat
        BY <1>4, <1>13, <1>17, <3>4 DEF Bit, Naturals
      <4>2. /\ r2.own[o].sent_seqnum = r.own[o].sent_seqnum + 1
            /\ r2.own[o].processed_seqnum = r.own[o].processed_seqnum
            /\ r.own[o].processed_seqnum \in Nat
        BY <1>1, <1>5, <3>4 DEF SentOne, States, Object
      <4> QED BY <1>1, <3>1, <3>2, <3>3, <3>4, <4>1, <4>2 DEF Balanced
    <3>5. CASE o # w
      <4>1. Cnt(r2, H2, o) = Cnt(r, H, o)
        BY <1>13, <1>17, <2>2, <3>5 DEF Bit, Naturals
      <4>2. r2.own[o] = r.own[o] BY <1>5, <2>2, <3>5
      <4> QED BY <1>1, <3>1, <3>2, <4>1, <4>2 DEF Balanced
    <3> QED BY <3>4, <3>5
  <2>3. Fine(k)
    <3>1. Told(r2, H2, k) = {} BY <1>3, <1>4, <1>10 DEF Told
    <3>2. Cardinality(Told(r2, H2, k)) = 0 BY <3>1, FS_EmptySet
    <3>3. Cnt(r2, H2, k) = 1 /\ Num(r2, H2, Ack(k)) = 0 BY <1>2, <1>3, <1>4, <1>16, <1>17 DEF Bit
    <3> QED BY <1>5, <3>2, <3>3 DEF Newborn, Left
  <2> QED BY <2>2, <2>3 DEF Balanced
<1>24. Rooms(r2)
  <2> DEFINE b == Bit(y.kind = "session" /\ y.active)
  <2>1. IsFiniteSet(Unused(r)) /\ IsFiniteSet(Dialling(r))
    BY OwnershipAssumption, FS_Subset DEF Unused, Dialling
  <2>2. Unused(r2) = Unused(r) \ {k} /\ k \in Unused(r)
    BY <1>2, <1>5, <1>6 DEF Unused, SameId, Newborn
  <2>3. Cardinality(Unused(r2)) = Cardinality(Unused(r)) - 1 BY <2>1, <2>2, FS_RemoveElement
  <2>4. /\ Cardinality(Unused(r)) \in Nat /\ Cardinality(Dialling(r)) \in Nat
    BY <2>1, FS_CardinalityType
  <2>5. k \notin Dialling(r) BY <1>3 DEF Dialling, Unborn
  <2>6. Dialling(r2) = IF y.kind = "session" /\ y.active THEN Dialling(r) \cup {k} ELSE Dialling(r)
    BY <1>2, <1>5, <1>6, <2>5 DEF Dialling, SameId, SameLink, Newborn
  <2>7. Cardinality(Dialling(r2)) = Cardinality(Dialling(r)) + b
    <3>1. CASE y.kind = "session" /\ y.active
      <4>1. Dialling(r2) = Dialling(r) \cup {k} BY <2>6, <3>1
      <4>2. Cardinality(Dialling(r2)) = Cardinality(Dialling(r)) + 1
        BY <2>1, <2>5, <4>1, FS_AddElement
      <4> QED BY <3>1, <4>2 DEF Bit
    <3>2. CASE ~(y.kind = "session" /\ y.active)
      <4>1. Dialling(r2) = Dialling(r) BY <2>6, <3>2
      <4> QED BY <2>4, <3>2, <4>1 DEF Bit
    <3> QED BY <3>1, <3>2
  <2>8. b \in Nat BY DEF Bit
  <2>9. Cardinality(Unused(r)) >= Cardinality(Dialling(r)) + 1 + b OBVIOUS
  <2> HIDE DEF b
  <2> QED BY <2>3, <2>4, <2>7, <2>8, <2>9 DEF Rooms
<1>25. Busy(r2)
  <2> SUFFICES ASSUME NEW o \in Actors PROVE Waits(r2, o) BY DEF Busy
  <2>1. CASE o = k BY <1>5, <2>1 DEF Waits, Newborn
  <2>2. CASE o = w
    <3>1. Live(r2, w) /\ Cnt(r2, H2, w) > 0
      BY <1>4, <1>7, <1>13, <1>17 DEF Bit, Naturals
    <3>2. r2.own[w].sent_seqnum = r2.own[w].processed_seqnum + Cnt(r2, H2, w)
      BY <1>23, <3>1 DEF Balanced
    <3>3. r2.own[w].processed_seqnum \in Nat /\ Cnt(r2, H2, w) \in Nat
      BY <1>5, <1>8, <1>15, CntNat DEF States, Object
    <3> QED BY <2>2, <3>1, <3>2, <3>3 DEF Waits
  <2>3. CASE o # k /\ o # w BY <1>5, <2>3 DEF Busy, Waits
  <2> QED BY <2>1, <2>2, <2>3
<1>26. Beside(r, r2) BY <1>5, <1>6, OwnershipAssumption DEF Beside, SameId, SameAcks, Actors
<1>27. Good(r2, H2)
  BY <1>1, <1>5, <1>8, <1>9, <1>11, <1>15, <1>18, <1>19, <1>20, <1>210, <1>22, <1>23, <1>24 DEF Good
<1> QED BY <1>3, <1>14, <1>25, <1>26, <1>27 DEF H2
-----------------------------------------------------------------------------
(* Owners and what they own. *)

\* One object changes.
LEMMA EditFrame ==
  ASSUME NEW r, NEW H, Good(r, H), NEW o \in Actors, Live(r, o), NEW r2, NEW y,
         Edit(r, r2, o, y), SameId(r.own[o], y), KindOK(o, y)
  PROVE  Frame(r, H, r2)
<1>1. /\ r2 \in States /\ r2.own[o] = y /\ \A p \in Actors : p # o => r2.own[p] = r.own[p]
      /\ r2.mail = r.mail
  BY DEF Edit
<1>2. \A p \in Actors : SameId(r.own[p], r2.own[p]) BY <1>1 DEF SameId
<1>3. \A p \in Actors : r2.own[p] = r.own[p] \/ (Live(r, p) /\ KindOK(p, r2.own[p])) BY <1>1
<1>4. Kinds(r2) BY <1>2, <1>3, KeepKinds
<1> QED BY <1>1, <1>2, <1>4, Framed

SameCounts(x, y) ==
    y.sent_seqnum = x.sent_seqnum /\ y.processed_seqnum = x.processed_seqnum
SameEnd(x, y) == y.destroyed = x.destroyed /\ y.terminating = x.terminating

\* own_t::process_own of an object that goes on: the child is one of its own.
Adopted(x, y, c) ==
    /\ SameId(x, y) /\ SamePipes(x, y) /\ SameLink(x, y) /\ SameCounts(x, y) /\ SameEnd(x, y)
    /\ y.term_acks = x.term_acks /\ y.owned = x.owned \cup {c}
\* Adopting keeps the invariant; what is left to do is process_seqnum.
LEMMA AdoptStep ==
  ASSUME NEW r, NEW o \in Actors, NEW c \in Objects, Good(r, {Owns(o, c)}), Busy(r),
         ~r.own[o].terminating, NEW r2, NEW y, Edit(r, r2, o, y), Adopted(r.own[o], y, c)
  PROVE  Good(r2, {Seqnum(o)}) /\ Busy(r2) /\ Beside(r, r2)
<1> DEFINE H == {Owns(o, c)}
           H2 == {Seqnum(o)}
           x == r.own[o]
<1>1. /\ Good(r, H) /\ r \in States /\ ~r.failed /\ Kinds(r) /\ Ready(r, H) /\ Stages(r, H)
      /\ Owned(r) /\ Balanced(r, H) /\ Objects \subseteq Actors /\ Sockets \subseteq Actors
  BY DEF Good, Actors
<1>2. Live(r, o) /\ Child(r, c, o)
  <2>1. Owns(o, c).dest = o /\ Owns(o, c).arg = c /\ Owns(o, c).type = "own" BY DEF Owns, Cmd
  <2>2. Proper(r, Owns(o, c)) BY <1>1, <2>1, Vocabulary DEF Ready
  <2> QED BY <2>1, <2>2 DEF Proper, Child
<1>3. /\ r2 \in States /\ r2.own[o] = y /\ \A p \in Actors : p # o => r2.own[p] = r.own[p]
      /\ r2.mail = r.mail /\ r2.pipes = r.pipes /\ r2.failed = r.failed
  BY DEF Edit
<1>4. KindOK(o, y) BY <1>1, <1>2 DEF KindOK, Kinds, Adopted, SameId, SamePipes, SameEnd
<1>5. Frame(r, H, r2) BY <1>1, <1>2, <1>4, EditFrame DEF Adopted
<1>6. Moved(r, H, r2, H2) /\ Naturals(r, H) BY <1>5 DEF Frame
<1>7. /\ \A d \in Objects : /\ Plug(d) \notin H /\ Plug(d) \notin H2
                            /\ Term(d) \notin H /\ Term(d) \notin H2
                            /\ Attach(d) \notin H /\ Attach(d) \notin H2
      /\ \A p \in Actors : Ack(p) \notin H /\ Ack(p) \notin H2
      /\ \A p \in Actors, d \in Objects : /\ Owns(p, d) \in H <=> p = o /\ d = c
                                          /\ Owns(p, d) \notin H2
                                          /\ Binds(p, d) \notin H /\ Binds(p, d) \notin H2
  BY <1>1, Vocabulary
<1>8. Owns(o, c) \in H OBVIOUS
<1>9. \A p \in Actors : Cnt(r2, H2, p) = Cnt(r, H, p)
  <2> SUFFICES ASSUME NEW p \in Actors PROVE Cnt(r2, H2, p) = Cnt(r, H, p) OBVIOUS
  <2>1. Cnt(r2, H2, p) = Cnt(r, H2, p) BY <1>5 DEF Frame
  <2>2. Cnt(r, H2, p) = Cnt(r, {}, p) + Bit(Seqnum(o) \in Counted(p)) BY <1>1, HandOne
  <2>3. Cnt(r, H, p) = Cnt(r, {}, p) + Bit(Owns(o, c) \in Counted(p)) BY <1>1, HandOne
  <2>4. Seqnum(o) \in Counted(p) <=> Owns(o, c) \in Counted(p) BY <1>1, VocabularyCounted
  <2> QED BY <2>1, <2>2, <2>3, <2>4
<1>10. Ready(r2, H2) /\ H2 \in SUBSET Commands /\ IsFiniteSet(H2)
  <2>1. Live(r2, o) BY <1>1, <1>2, <1>5 DEF Frame
  <2> QED BY <1>1, <2>1, VocabularyTypes, FS_Singleton DEF Ready
<1> HIDE DEF H, H2
<1>11. /\ \A d \in Objects : /\ Num(r2, H2, Plug(d)) = Num(r, H, Plug(d))
                             /\ Num(r2, H2, Term(d)) = Num(r, H, Term(d))
       /\ \A p \in Actors : Num(r2, H2, Ack(p)) = Num(r, H, Ack(p))
       /\ \A p \in Actors, d \in Objects :
            Num(r2, H2, Owns(p, d)) = Num(r, H, Owns(p, d)) - Bit(p = o /\ d = c)
  BY <1>6, <1>7 DEF Moved, Naturals, Bit
<1>12. /\ Num(r, H, Owns(o, c)) = 1 /\ c \notin x.owned
  <2>1. Num(r, H, Owns(o, c)) \in Nat /\ Num(r, H, Owns(o, c)) > 0
    BY <1>1, <1>8, NumNat, VocabularyTypes
  <2>2. r.own[c].owner = o /\ Live(r, c) /\ c \in Actors BY <1>1, <1>2 DEF Child
  <2>3. Num(r, H, Owns(o, c)) + Bit(c \in x.owned)
           + Num(r, H, Term(c)) + Bit(r.own[c].pending) + Bit(r.own[c].terminating) = 1
    BY <1>1, <2>2 DEF Stages
  <2> QED BY <1>6, <2>1, <2>3 DEF Bit, Naturals
<1>13. \A p \in Actors : /\ SameLink(r.own[p], r2.own[p]) /\ SamePipes(r.own[p], r2.own[p])
                         /\ SameCounts(r.own[p], r2.own[p]) /\ SameEnd(r.own[p], r2.own[p])
                         /\ r2.own[p].term_acks = r.own[p].term_acks
                         /\ r2.own[p].owned = IF p = o THEN r.own[p].owned \cup {c} ELSE r.own[p].owned
  BY <1>3 DEF Adopted, SameLink, SamePipes, SameCounts, SameEnd
<1>14. Stages(r2, H2)
  <2> SUFFICES ASSUME NEW d \in Objects, Live(r2, d) PROVE
        /\ Num(r2, H2, Plug(d)) + Bit(r2.own[d].plugged) = 1
        /\ Num(r2, H2, Owns(r2.own[d].owner, d)) + Bit(d \in r2.own[r2.own[d].owner].owned)
           + Num(r2, H2, Term(d)) + Bit(r2.own[d].pending) + Bit(r2.own[d].terminating) = 1
    BY DEF Stages
  <2> DEFINE w == r.own[d].owner
  <2>1. Live(r, d) /\ w \in Actors /\ r2.own[d].owner = w /\ d \in Actors
    BY <1>1, <1>5 DEF Frame, SameId
  <2>2. Num(r, H, Owns(w, d)) + Bit(d \in r.own[w].owned)
           = Num(r2, H2, Owns(w, d)) + Bit(d \in r2.own[w].owned)
    <3>1. CASE d = c
      <4>1. w = o BY <1>2, <3>1 DEF Child
      <4>2. Num(r2, H2, Owns(o, c)) = 0 BY <1>1, <1>11, <1>12 DEF Bit
      <4>3. c \in r2.own[o].owned BY <1>13
      <4> QED BY <1>12, <3>1, <4>1, <4>2, <4>3 DEF Bit
    <3>2. CASE d # c
      <4>1. Num(r2, H2, Owns(w, d)) = Num(r, H, Owns(w, d)) BY <1>6, <1>11, <2>1, <3>2 DEF Bit, Naturals
      <4>2. d \in r2.own[w].owned <=> d \in r.own[w].owned BY <1>13, <2>1, <3>2
      <4> QED BY <4>1, <4>2 DEF Bit
    <3> QED BY <3>1, <3>2
  <2>3. /\ r2.own[d].plugged = r.own[d].plugged /\ r2.own[d].pending = r.own[d].pending
        /\ r2.own[d].terminating = r.own[d].terminating
    BY <1>13, <2>1 DEF SameLink, SamePipes
  <2>4. /\ Num(r, H, Plug(d)) + Bit(r.own[d].plugged) = 1
        /\ Num(r, H, Owns(w, d)) + Bit(d \in r.own[w].owned)
           + Num(r, H, Term(d)) + Bit(r.own[d].pending) + Bit(r.own[d].terminating) = 1
    BY <1>1, <2>1 DEF Stages
  <2> HIDE DEF w
  <2> QED BY <1>11, <2>1, <2>2, <2>3, <2>4
<1>15. Owned(r2)
  <2>1. \A q, p : Child(r2, q, p) <=> Child(r, q, p) BY <1>5 DEF Frame
  <2> QED BY <1>1, <1>2, <1>13, <2>1 DEF Owned
<1>16. Engines(r2, H2) BY <1>1, <1>5, <1>7, <1>13, KeepEngines
<1>17. Held(r2, H2) /\ EndsOK(r2) BY <1>1, <1>3, <1>5, <1>7, <1>13, KeepPipes
<1>18. Rooms(r2)
  <2>1. \A p \in Actors : r.own[p].plugged => r2.own[p].plugged BY <1>13 DEF SameLink
  <2> QED BY <1>1, <1>5, <2>1, KeepRooms
<1>19. Balanced(r2, H2)
  <2> SUFFICES ASSUME NEW p \in Actors, Live(r2, p) PROVE
          /\ r2.own[p].sent_seqnum = r2.own[p].processed_seqnum + Cnt(r2, H2, p)
          /\ r2.own[p].term_acks
               = Num(r2, H2, Ack(p)) + Cardinality(Told(r2, H2, p)) + Left(r2.own[p])
          /\ r2.own[p].destroyed =>
               /\ r2.own[p].terminating /\ r2.own[p].sent_seqnum = r2.own[p].processed_seqnum
               /\ r2.own[p].term_acks = 0
    BY DEF Balanced
  <2>1. Live(r, p) BY <1>5 DEF Frame
  <2>2. Told(r2, H2, p) = Told(r, H, p)
    <3>1. \A q : Child(r2, q, p) <=> Child(r, q, p) BY <1>5 DEF Frame
    <3>2. CASE p = o
      <4>1. \A d \in Objects : d # c => Num(r2, H2, Owns(p, d)) = Num(r, H, Owns(p, d))
        BY <1>6, <1>11 DEF Bit, Naturals
      <4>2. c \notin Told(r, H, p) BY <1>12, <3>2 DEF Told
      <4>3. c \notin Told(r2, H2, p) BY <1>13, <3>2 DEF Told
      <4> QED BY <1>13, <3>1, <4>1, <4>2, <4>3 DEF Told
    <3>3. CASE p # o
      <4>1. \A d \in Objects : Num(r2, H2, Owns(p, d)) = Num(r, H, Owns(p, d))
        BY <1>6, <1>11, <3>3 DEF Bit, Naturals
      <4> QED BY <1>13, <3>1, <3>3, <4>1 DEF Told
    <3> QED BY <3>2, <3>3
  <2>3. Left(r2.own[p]) = Left(r.own[p]) BY <1>13 DEF Left, SamePipes
  <2> QED BY <1>1, <1>9, <1>11, <1>13, <2>1, <2>2, <2>3, ZenonT(40) DEF Balanced, SameCounts, SameEnd
<1>20. Good(r2, H2)
  BY <1>1, <1>3, <1>5, <1>10, <1>14, <1>15, <1>16, <1>17, <1>18, <1>19 DEF Good, Frame
<1>21. Busy(r2) BY <1>13, ZenonT(40) DEF Busy, Waits, SameCounts, SameEnd
<1>22. Beside(r, r2) BY <1>1, <1>3, <1>5, <1>13 DEF Beside, Frame, SameId, SamePipes
<1> QED BY <1>20, <1>21, <1>22 DEF H2

\* own_t::process_own of an object that terminates and own_t::process_term_req: the child
\* is told to terminate, and its acknowledgement is waited for.
Telling(x, y, c) ==
    /\ SameId(x, y) /\ SamePipes(x, y) /\ SameLink(x, y) /\ SameCounts(x, y) /\ SameEnd(x, y)
    /\ y.term_acks = x.term_acks + 1 /\ y.owned = x.owned \ {c}
\* Telling one child keeps the invariant: its term is sent once, and counted in term_acks.
LEMMA TellStep ==
  ASSUME NEW r, NEW H, NEW H2, NEW o \in Actors, NEW c \in Objects, Good(r, H), Busy(r),
         \/ H = {Owns(o, c)} /\ H2 = {Seqnum(o), Term(c)}
         \/ H = {} /\ H2 = {Term(c)} /\ c \in r.own[o].owned,
         NEW r2, NEW y, Edit(r, r2, o, y), Telling(r.own[o], y, c)
  PROVE  Good(r2, H2) /\ Busy(r2) /\ Beside(r, r2)
<1> DEFINE x == r.own[o]
<1>1. /\ Good(r, H) /\ r \in States /\ ~r.failed /\ Kinds(r) /\ Ready(r, H) /\ Stages(r, H)
      /\ Owned(r) /\ Balanced(r, H) /\ Objects \subseteq Actors /\ Sockets \subseteq Actors
      /\ IsFiniteSet(H)
  BY DEF Good, Actors
<1>2. Live(r, o) /\ Child(r, c, o)
  <2>1. CASE H = {Owns(o, c)}
    <3>1. Owns(o, c).dest = o /\ Owns(o, c).arg = c /\ Owns(o, c).type = "own" BY DEF Owns, Cmd
    <3>2. Proper(r, Owns(o, c)) BY <1>1, <2>1, <3>1, Vocabulary DEF Ready
    <3> QED BY <3>1, <3>2 DEF Proper, Child
  <2>2. CASE c \in r.own[o].owned
    <3>1. Child(r, c, o) BY <1>1, <2>2 DEF Owned
    <3>2. r.own[o].kind # "unborn" /\ r.own[o].kind # "deleted"
      BY <1>1, <2>2 DEF Kinds, Unborn, Deleted
    <3> QED BY <3>1, <3>2 DEF Live
  <2> QED BY <2>1, <2>2
<1>3. /\ r2 \in States /\ r2.own[o] = y /\ \A p \in Actors : p # o => r2.own[p] = r.own[p]
      /\ r2.mail = r.mail /\ r2.pipes = r.pipes /\ r2.failed = r.failed
  BY DEF Edit
<1>4. KindOK(o, y) BY <1>1, <1>2 DEF KindOK, Kinds, Telling, SameId, SamePipes, SameEnd
<1>5. Frame(r, H, r2) BY <1>1, <1>2, <1>4, EditFrame DEF Telling
<1>6. Moved(r, H, r2, H2) /\ Naturals(r, H) BY <1>5 DEF Frame
<1>7. /\ \A d \in Objects : /\ Plug(d) \notin H /\ Plug(d) \notin H2
                            /\ Term(d) \notin H /\ (Term(d) \in H2 <=> d = c)
                            /\ Attach(d) \notin H /\ Attach(d) \notin H2
      /\ \A p \in Actors : Ack(p) \notin H /\ Ack(p) \notin H2
      /\ \A p \in Actors, d \in Objects : /\ Owns(p, d) \in H => p = o /\ d = c
                                          /\ Owns(p, d) \notin H2
                                          /\ Binds(p, d) \notin H /\ Binds(p, d) \notin H2
  <2>1. CASE H = {Owns(o, c)} /\ H2 = {Seqnum(o), Term(c)} BY <1>1, <2>1, Vocabulary
  <2>2. CASE H = {} /\ H2 = {Term(c)} BY <1>1, <2>2, Vocabulary
  <2> QED BY <2>1, <2>2
<1>8. Owns(o, c) \in H \/ c \in x.owned OBVIOUS
<1>9. \A p \in Actors : Cnt(r2, H2, p) = Cnt(r, H, p)
  <2> SUFFICES ASSUME NEW p \in Actors PROVE Cnt(r2, H2, p) = Cnt(r, H, p) OBVIOUS
  <2>1. Cnt(r2, H2, p) = Cnt(r, H2, p) BY <1>5 DEF Frame
  <2>2. Term(c) \notin Counted(p) BY <1>1, VocabularyCounted
  <2>3. CASE H = {Owns(o, c)} /\ H2 = {Seqnum(o), Term(c)}
    <3>1. Cnt(r, {Seqnum(o)}, p) = Cnt(r, {}, p) + Bit(Seqnum(o) \in Counted(p)) BY <1>1, HandOne
    <3>2. Cnt(r, H, p) = Cnt(r, {}, p) + Bit(Owns(o, c) \in Counted(p)) BY <1>1, <2>3, HandOne
    <3>3. Seqnum(o) \in Counted(p) <=> Owns(o, c) \in Counted(p) BY <1>1, VocabularyCounted
    <3>4. IsFiniteSet({Seqnum(o)}) /\ Term(c) \notin {Seqnum(o)}
      <4>1. Term(c) # Seqnum(o) BY <1>1, Vocabulary
      <4> QED BY <4>1, FS_Singleton
    <3>5. Cnt(r, {Seqnum(o)} \cup {Term(c)}, p) = Cnt(r, {Seqnum(o)}, p) + Bit(Term(c) \in Counted(p))
      BY <1>1, <3>4, HandAdd
    <3>6. {Seqnum(o)} \cup {Term(c)} = H2 BY <2>3
    <3>7. Cnt(r, {Seqnum(o)}, p) \in Nat BY <1>1, <3>4, CntNat
    <3>8. Cnt(r, H2, p) = Cnt(r, {Seqnum(o)}, p)
      <4> DEFINE n == Cnt(r, {Seqnum(o)}, p)
      <4>1. Bit(Term(c) \in Counted(p)) = 0 BY <2>2 DEF Bit
      <4>2. Cnt(r, H2, p) = n + 0 BY <3>5, <3>6, <4>1
      <4>3. n \in Nat BY <3>7
      <4> HIDE DEF n
      <4>4. n + 0 = n BY <4>3
      <4> QED BY <4>2, <4>4 DEF n
    <3>9. Cnt(r, {Seqnum(o)}, p) = Cnt(r, H, p) BY <3>1, <3>2, <3>3
    <3> QED BY <2>1, <3>8, <3>9
  <2>4. CASE H = {} /\ H2 = {Term(c)}
    <3>1. Cnt(r, {Term(c)}, p) = Cnt(r, {}, p) + Bit(Term(c) \in Counted(p)) /\ Cnt(r, {}, p) \in Nat
      BY <1>1, HandOne
    <3> QED BY <2>1, <2>2, <2>4, <3>1 DEF Bit
  <2> QED BY <2>3, <2>4
<1>10. Ready(r2, H2) /\ H2 \in SUBSET Commands /\ IsFiniteSet(H2)
  <2>1. Live(r2, o) /\ Live(r2, c) BY <1>1, <1>2, <1>5 DEF Frame, Child
  <2>2. Proper(r2, Term(c)) BY <1>1, <2>1 DEF Proper, Term, Cmd
  <2>3. Seqnum(o).dest = o /\ Seqnum(o) \in Commands /\ Term(c) \in Commands BY <1>1, VocabularyTypes
  <2>4. IsFiniteSet({Seqnum(o)}) /\ IsFiniteSet({Term(c)}) /\ IsFiniteSet({Seqnum(o)} \cup {Term(c)})
    BY FS_Singleton, FS_AddElement
  <2>5. {Seqnum(o), Term(c)} = {Seqnum(o)} \cup {Term(c)} OBVIOUS
  <2> QED BY <1>1, <2>1, <2>2, <2>3, <2>4, <2>5 DEF Ready
<1>11. /\ \A d \in Objects : /\ Num(r2, H2, Plug(d)) = Num(r, H, Plug(d))
                             /\ Num(r2, H2, Term(d)) = Num(r, H, Term(d)) + Bit(d = c)
       /\ \A p \in Actors : Num(r2, H2, Ack(p)) = Num(r, H, Ack(p))
       /\ \A p \in Actors, d \in Objects :
            Num(r2, H2, Owns(p, d)) = Num(r, H, Owns(p, d)) - Bit(Owns(p, d) \in H)
  BY <1>6, <1>7 DEF Moved, Naturals, Bit
<1>12. /\ Num(r, H, Owns(o, c)) = Bit(Owns(o, c) \in H) /\ Num(r, H, Term(c)) = 0
       /\ ~r.own[c].pending /\ ~r.own[c].terminating
       /\ Num(r, H, Owns(o, c)) + Bit(c \in x.owned) = 1
  <2>1. /\ Num(r, H, Owns(o, c)) \in Nat /\ Num(r, H, Term(c)) \in Nat
        /\ Owns(o, c) \in H => Num(r, H, Owns(o, c)) > 0
    BY <1>1, NumNat, VocabularyTypes
  <2>2. r.own[c].owner = o /\ Live(r, c) /\ c \in Actors BY <1>1, <1>2 DEF Child
  <2>3. Num(r, H, Owns(o, c)) + Bit(c \in x.owned)
           + Num(r, H, Term(c)) + Bit(r.own[c].pending) + Bit(r.own[c].terminating) = 1
    BY <1>1, <2>2 DEF Stages
  <2>4. Owns(o, c) \notin H => H = {} /\ c \in x.owned OBVIOUS
  <2> QED BY <1>8, <2>1, <2>3, <2>4 DEF Bit
<1>13. \A p \in Actors : /\ SameLink(r.own[p], r2.own[p]) /\ SamePipes(r.own[p], r2.own[p])
                         /\ SameCounts(r.own[p], r2.own[p]) /\ SameEnd(r.own[p], r2.own[p])
                         /\ p # o => r2.own[p] = r.own[p]
                         /\ r2.own[p].owned = IF p = o THEN r.own[p].owned \ {c} ELSE r.own[p].owned
  BY <1>3 DEF Telling, SameLink, SamePipes, SameCounts, SameEnd
<1>14. Num(r2, H2, Owns(o, c)) = 0 /\ c \notin r2.own[o].owned /\ Num(r2, H2, Term(c)) = 1
  <2>1. c \notin r2.own[o].owned BY <1>13
  <2>2. Num(r2, H2, Term(c)) = 1 BY <1>11, <1>12 DEF Bit
  <2>3. Num(r2, H2, Owns(o, c)) = 0 BY <1>11, <1>12 DEF Bit
  <2> QED BY <2>1, <2>2, <2>3
<1>15. \A p \in Actors, d \in Objects : d # c \/ p # o =>
         Num(r2, H2, Owns(p, d)) = Num(r, H, Owns(p, d))
  BY <1>6, <1>7, <1>11 DEF Bit, Naturals
<1>16. Stages(r2, H2)
  <2> SUFFICES ASSUME NEW d \in Objects, Live(r2, d) PROVE
        /\ Num(r2, H2, Plug(d)) + Bit(r2.own[d].plugged) = 1
        /\ Num(r2, H2, Owns(r2.own[d].owner, d)) + Bit(d \in r2.own[r2.own[d].owner].owned)
           + Num(r2, H2, Term(d)) + Bit(r2.own[d].pending) + Bit(r2.own[d].terminating) = 1
    BY DEF Stages
  <2> DEFINE w == r.own[d].owner
  <2>1. Live(r, d) /\ w \in Actors /\ r2.own[d].owner = w /\ d \in Actors
    BY <1>1, <1>5 DEF Frame, SameId
  <2>2. /\ r2.own[d].plugged = r.own[d].plugged /\ r2.own[d].pending = r.own[d].pending
        /\ r2.own[d].terminating = r.own[d].terminating
    BY <1>13, <2>1 DEF SameLink, SamePipes
  <2>3. /\ Num(r, H, Plug(d)) + Bit(r.own[d].plugged) = 1
        /\ Num(r, H, Owns(w, d)) + Bit(d \in r.own[w].owned)
           + Num(r, H, Term(d)) + Bit(r.own[d].pending) + Bit(r.own[d].terminating) = 1
    BY <1>1, <2>1 DEF Stages
  <2>4. CASE d = c
    <3>1. w = o BY <1>2, <2>4 DEF Child
    <3> QED BY <1>11, <1>12, <1>14, <2>1, <2>2, <2>3, <2>4, <3>1 DEF Bit
  <2>5. CASE d # c
    <3>1. Num(r2, H2, Owns(w, d)) = Num(r, H, Owns(w, d)) BY <1>15, <2>1, <2>5
    <3>2. d \in r2.own[w].owned <=> d \in r.own[w].owned BY <1>13, <2>1, <2>5
    <3>3. Num(r2, H2, Term(d)) = Num(r, H, Term(d)) BY <1>6, <1>11, <2>5 DEF Bit, Naturals
    <3> HIDE DEF w
    <3> QED BY <1>11, <2>1, <2>2, <2>3, <3>1, <3>2, <3>3 DEF Bit
  <2> QED BY <2>4, <2>5
<1>17. Owned(r2)
  <2>1. \A q, p : Child(r2, q, p) <=> Child(r, q, p) BY <1>5 DEF Frame
  <2> QED BY <1>1, <1>13, <2>1 DEF Owned
<1>18. Engines(r2, H2) BY <1>1, <1>5, <1>7, <1>13, KeepEngines
<1>19. Held(r2, H2) /\ EndsOK(r2) BY <1>1, <1>3, <1>5, <1>7, <1>13, KeepPipes
<1>20. Rooms(r2)
  <2>1. \A p \in Actors : r.own[p].plugged => r2.own[p].plugged BY <1>13 DEF SameLink
  <2> QED BY <1>1, <1>5, <2>1, KeepRooms
<1>21. Balanced(r2, H2)
  <2> SUFFICES ASSUME NEW p \in Actors, Live(r2, p) PROVE
          /\ r2.own[p].sent_seqnum = r2.own[p].processed_seqnum + Cnt(r2, H2, p)
          /\ r2.own[p].term_acks
               = Num(r2, H2, Ack(p)) + Cardinality(Told(r2, H2, p)) + Left(r2.own[p])
          /\ r2.own[p].destroyed =>
               /\ r2.own[p].terminating /\ r2.own[p].sent_seqnum = r2.own[p].processed_seqnum
               /\ r2.own[p].term_acks = 0
    BY DEF Balanced
  <2>1. Live(r, p) BY <1>5 DEF Frame
  <2>2. \A q : Child(r2, q, p) <=> Child(r, q, p) BY <1>5 DEF Frame
  <2>3. Left(r2.own[p]) = Left(r.own[p]) BY <1>13 DEF Left, SamePipes
  <2>4. CASE p = o
    <3>1. Told(r2, H2, o) = Told(r, H, o) \cup {c}
      <4>1. \A d \in Objects : d # c => Num(r2, H2, Owns(o, d)) = Num(r, H, Owns(o, d)) BY <1>15
      <4>2. c \in Told(r2, H2, o) BY <1>2, <1>14, <2>2, <2>4 DEF Told
      <4> QED BY <1>13, <2>2, <2>4, <4>1, <4>2 DEF Told
    <3>2. c \notin Told(r, H, o) BY <1>12 DEF Told, Bit
    <3>3. IsFiniteSet(Told(r, H, o)) BY OwnershipAssumption, FS_Subset DEF Told
    <3>4. /\ Cardinality(Told(r2, H2, o)) = Cardinality(Told(r, H, o)) + 1
          /\ Cardinality(Told(r, H, o)) \in Nat
      BY <3>1, <3>2, <3>3, FS_AddElement, FS_CardinalityType
    <3>5. ~x.destroyed
      <4>1. CASE H = {Owns(o, c)}
        <5>1. Cnt(r, H, o) > 0 BY <1>1, <4>1, CntNat, VocabularyCounted
        <5>2. x.processed_seqnum \in Nat /\ Cnt(r, H, o) \in Nat
          BY <1>1, <1>6 DEF States, Object, Naturals
        <5> QED BY <1>1, <1>2, <5>1, <5>2 DEF Balanced
      <4>2. CASE c \in x.owned BY <1>1, <1>2, <4>2 DEF Balanced, Kinds
      <4> QED BY <4>1, <4>2
    <3>6. /\ r2.own[o].term_acks = x.term_acks + 1
          /\ x.term_acks = Num(r, H, Ack(o)) + Cardinality(Told(r, H, o)) + Left(x)
      BY <1>1, <1>2, <1>3 DEF Balanced, Telling
    <3>7. Left(x) \in Nat
      <4>1. x.pipes \in SUBSET Objects BY <1>1 DEF States, Object
      <4>2. IsFiniteSet(x.pipes) BY <4>1, OwnershipAssumption, FS_Subset
      <4> QED BY <4>2, FS_CardinalityType DEF Left
    <3>8. Num(r2, H2, Ack(o)) = Num(r, H, Ack(o)) /\ Num(r, H, Ack(o)) \in Nat
      BY <1>6, <1>11 DEF Naturals
    <3>9. r2.own[o].term_acks = Num(r2, H2, Ack(o)) + Cardinality(Told(r2, H2, o)) + Left(r2.own[o])
      BY <2>3, <2>4, <3>4, <3>6, <3>7, <3>8
    <3> QED BY <1>1, <1>9, <1>13, <2>1, <2>4, <3>5, <3>9, ZenonT(20) DEF Balanced, SameCounts, SameEnd
  <2>5. CASE p # o
    <3>1. \A d \in Objects : Num(r2, H2, Owns(p, d)) = Num(r, H, Owns(p, d)) BY <1>15, <2>5
    <3>2. Told(r2, H2, p) = Told(r, H, p) BY <1>13, <2>2, <2>5, <3>1 DEF Told
    <3> QED BY <1>1, <1>9, <1>11, <1>13, <2>1, <2>5, <3>2, ZenonT(20) DEF Balanced
  <2> QED BY <2>4, <2>5
<1>22. Good(r2, H2)
  BY <1>1, <1>3, <1>5, <1>10, <1>16, <1>17, <1>18, <1>19, <1>20, <1>21 DEF Good, Frame
<1>23. Busy(r2)
  <2>1. r2.own[o].term_acks # 0
    <3>1. x.term_acks \in Nat BY <1>1 DEF States, Object
    <3> QED BY <1>3, <3>1 DEF Telling
  <2> QED BY <1>13, <2>1 DEF Busy, Waits
<1>24. Beside(r, r2) BY <1>1, <1>3, <1>5, <1>13 DEF Beside, Frame, SameId, SamePipes
<1> QED BY <1>22, <1>23, <1>24

\* Commands in hand that are not counted do not change the account of an object.
LEMMA HandNone ==
  ASSUME NEW r, NEW K, NEW p, K \cap Counted(p) = {}
  PROVE  Cnt(r, K, p) = Cnt(r, {}, p)
<1>1. {} \cap Counted(p) = {} OBVIOUS
<1> QED BY <1>1 DEF Cnt, Total

\* The pipes a socket waits for are finitely many.
LEMMA LeftNat ==
  ASSUME NEW r \in States, NEW p \in Actors
  PROVE  Left(r.own[p]) \in Nat /\ IsFiniteSet(r.own[p].pipes) /\ Cardinality(r.own[p].pipes) \in Nat
<1>1. r.own[p].pipes \in SUBSET Objects BY DEF States, Object
<1>2. IsFiniteSet(r.own[p].pipes) BY <1>1, OwnershipAssumption, FS_Subset
<1> QED BY <1>2, FS_CardinalityType DEF Left

\* Only object o changes, and perhaps pipes.
EditToo(r, r2, o, y) ==
    /\ r2 \in States /\ r2.own[o] = y /\ \A p \in Actors : p # o => r2.own[p] = r.own[p]
    /\ r2.mail = r.mail /\ r2.failed = r.failed

\* own_t::process_term: what is owned is told, and everything is waited for; a socket
\* waits for its pipes as well.
Terminating(x, y, o) ==
    /\ SameId(x, y) /\ SameLink(x, y) /\ SameCounts(x, y)
    /\ y.destroyed = x.destroyed /\ y.pipes = x.pipes
    /\ y.terminating = TRUE /\ y.owned = {} /\ y.pending = FALSE
    /\ y.reaping = (o \in Sockets)
    /\ y.term_acks = x.term_acks + Cardinality(x.owned)
                     + (IF o \in Sockets THEN Cardinality(x.pipes) ELSE 0)
\* Terminating keeps the invariant of all other objects; the object itself is looked at by
\* check_term_acks next.
LEMMA TermStep ==
  ASSUME NEW r, NEW H, NEW o \in Actors, Good(r, H), Busy(r), Live(r, o),
         ~r.own[o].terminating, ~r.own[o].reaping,
         \/ o \in Objects /\ H = {Term(o)}
         \/ o \in Objects /\ H = {} /\ r.own[o].pending
         \/ o \in Sockets /\ H = {},
         NEW r2, NEW y, EditToo(r, r2, o, y), Terminating(r.own[o], y, o),
         EndsOK(r2), Held(r2, Terms(r.own[o].owned))
  PROVE  /\ Good(r2, Terms(r.own[o].owned)) /\ \A p \in Actors \ {o} : Waits(r2, p)
         /\ o \in Objects => Beside(r, r2)
<1> DEFINE x == r.own[o]
           D == r.own[o].owned
           H2 == Terms(r.own[o].owned)
<1>1. /\ Good(r, H) /\ r \in States /\ ~r.failed /\ Kinds(r) /\ Ready(r, H) /\ Stages(r, H)
      /\ Owned(r) /\ Balanced(r, H) /\ Objects \subseteq Actors /\ Sockets \subseteq Actors
      /\ IsFiniteSet(H) /\ Owners(r)
  BY DEF Good, Actors
<1>2. /\ r2 \in States /\ r2.own[o] = y /\ \A p \in Actors : p # o => r2.own[p] = r.own[p]
      /\ r2.mail = r.mail /\ r2.failed = r.failed
  BY DEF EditToo
<1>3. D \in SUBSET Objects /\ IsFiniteSet(D) /\ \A c \in D : Child(r, c, o)
  <2>1. D \in SUBSET Objects BY <1>1 DEF States, Object
  <2> QED BY <1>1, <2>1, OwnershipAssumption, FS_Subset DEF Owned
<1>4. o \notin D
  <2>1. ~Child(r, o, o) BY <1>1, OwnershipAssumption DEF Owners, Child, Live, Kinds
  <2> QED BY <1>3, <2>1
<1>5. KindOK(o, y) /\ SameId(x, y)
  BY <1>1, OwnershipAssumption DEF KindOK, Kinds, Terminating, SameId
<1>6. Frame(r, H, r2)
  <2>1. \A p \in Actors : SameId(r.own[p], r2.own[p]) BY <1>2, <1>5 DEF SameId
  <2>2. \A p \in Actors : r2.own[p] = r.own[p] \/ (Live(r, p) /\ KindOK(p, r2.own[p]))
    BY <1>2, <1>5
  <2>3. Kinds(r2) BY <2>1, <2>2, KeepKinds
  <2> QED BY <1>2, <2>1, <2>3, Framed
<1>7. Moved(r, H, r2, H2) /\ Naturals(r, H) BY <1>6 DEF Frame
<1>8. \A m : m \in H2 <=> \E c \in D : m = Term(c) BY DEF Terms
<1>9. /\ \A d \in Objects : /\ Plug(d) \notin H /\ Plug(d) \notin H2
                            /\ (Term(d) \in H => d = o) /\ (Term(d) \in H2 <=> d \in D)
                            /\ Attach(d) \notin H /\ Attach(d) \notin H2
      /\ \A p \in Actors : Ack(p) \notin H /\ Ack(p) \notin H2
      /\ \A p \in Actors, d \in Objects : /\ Owns(p, d) \notin H /\ Owns(p, d) \notin H2
                                          /\ Binds(p, d) \notin H /\ Binds(p, d) \notin H2
  <2>1. D \subseteq Objects BY <1>3
  <2>2. \A m \in H2 : \E c \in Objects : m = Term(c) BY <1>8, <2>1
  <2>3. H = {} \/ (o \in Objects /\ H = {Term(o)}) OBVIOUS
  <2>4. \A m \in H : \E c \in Objects : m = Term(c) BY <2>3
  <2>5. \A d \in Objects : (Term(d) \in H => d = o) /\ (Term(d) \in H2 <=> d \in D)
    BY <1>8, <2>1, <2>3, Vocabulary
  <2>6. \A p \in Actors, d \in Objects : \A c \in Objects :
          /\ Term(c) # Plug(d) /\ Term(c) # Attach(d) /\ Term(c) # Ack(p)
          /\ Term(c) # Owns(p, d) /\ Term(c) # Binds(p, d)
    BY <1>1, Vocabulary
  <2> QED BY <1>1, <2>2, <2>4, <2>5, <2>6
<1>10. \A p \in Actors : Cnt(r2, H2, p) = Cnt(r, H, p)
  <2> SUFFICES ASSUME NEW p \in Actors PROVE Cnt(r2, H2, p) = Cnt(r, H, p) OBVIOUS
  <2>1. Cnt(r2, H2, p) = Cnt(r, H2, p) BY <1>6 DEF Frame
  <2>2. \A c \in Objects : Term(c) \notin Counted(p) BY <1>1, VocabularyCounted
  <2>3. H2 \cap Counted(p) = {} BY <1>3, <1>8, <2>2
  <2>4. H \cap Counted(p) = {} BY <2>2
  <2>5. Cnt(r, H2, p) = Cnt(r, {}, p) /\ Cnt(r, H, p) = Cnt(r, {}, p) BY <2>3, <2>4, HandNone
  <2> QED BY <2>1, <2>5
<1>11. Ready(r2, H2) /\ H2 \in SUBSET Commands /\ IsFiniteSet(H2)
  <2>1. \A c \in D : c \in Objects /\ Live(r2, c) BY <1>1, <1>3, <1>6 DEF Frame, Child
  <2>2. \A c \in D : Proper(r2, Term(c)) BY <1>1, <2>1 DEF Proper, Term, Cmd
  <2>3. \A c \in D : Term(c) \in Commands BY <1>1, <2>1, VocabularyTypes
  <2>4. IsFiniteSet(H2)
    <3> DEFINE f == [c \in D |-> Term(c)]
    <3>1. f \in [D -> H2] /\ \A m \in H2 : \E c \in D : f[c] = m BY <1>8
    <3>2. f \in Surjection(D, H2) BY <3>1 DEF Surjection
    <3> QED BY <1>3, <3>2, FS_Surjection
  <2> QED BY <1>8, <2>2, <2>3, <2>4 DEF Ready
<1> HIDE DEF H2, D
<1>12. /\ \A d \in Objects : /\ Num(r2, H2, Plug(d)) = Num(r, H, Plug(d))
                             /\ d # o => Num(r2, H2, Term(d)) = Num(r, H, Term(d)) + Bit(d \in D)
       /\ \A p \in Actors : Num(r2, H2, Ack(p)) = Num(r, H, Ack(p))
       /\ \A p \in Actors, d \in Objects : Num(r2, H2, Owns(p, d)) = Num(r, H, Owns(p, d))
  BY <1>7, <1>9 DEF Moved, Naturals, Bit
<1>13. \A p \in Actors : p # o => r2.own[p].owned = r.own[p].owned BY <1>2
<1>14. /\ \A p \in Actors : SameLink(r.own[p], r2.own[p]) /\ SameCounts(r.own[p], r2.own[p])
       /\ r2.own[o].owned = {} /\ r2.own[o].terminating /\ ~r2.own[o].pending
  BY <1>2 DEF Terminating, SameLink, SameCounts
<1>15. \A d \in D : /\ d \in Objects /\ r.own[d].owner = o /\ Live(r, d)
                    /\ Num(r, H, Owns(o, d)) = 0 /\ Num(r, H, Term(d)) = 0
                    /\ ~r.own[d].pending /\ ~r.own[d].terminating
  <2> SUFFICES ASSUME NEW d \in D
               PROVE  /\ d \in Objects /\ r.own[d].owner = o /\ Live(r, d)
                      /\ Num(r, H, Owns(o, d)) = 0 /\ Num(r, H, Term(d)) = 0
                      /\ ~r.own[d].pending /\ ~r.own[d].terminating
    OBVIOUS
  <2>1. d \in Objects /\ r.own[d].owner = o /\ Live(r, d) /\ d \in r.own[o].owned
    BY <1>3 DEF Child, D
  <2>2. Num(r, H, Owns(o, d)) + Bit(d \in r.own[o].owned)
           + Num(r, H, Term(d)) + Bit(r.own[d].pending) + Bit(r.own[d].terminating) = 1
    BY <1>1, <2>1 DEF Stages
  <2>3. Num(r, H, Owns(o, d)) \in Nat /\ Num(r, H, Term(d)) \in Nat BY <1>7, <2>1 DEF Naturals
  <2> QED BY <2>1, <2>2, <2>3 DEF Bit
<1>16. Stages(r2, H2)
  <2> SUFFICES ASSUME NEW d \in Objects, Live(r2, d) PROVE
        /\ Num(r2, H2, Plug(d)) + Bit(r2.own[d].plugged) = 1
        /\ Num(r2, H2, Owns(r2.own[d].owner, d)) + Bit(d \in r2.own[r2.own[d].owner].owned)
           + Num(r2, H2, Term(d)) + Bit(r2.own[d].pending) + Bit(r2.own[d].terminating) = 1
    BY DEF Stages
  <2> DEFINE w == r.own[d].owner
  <2>1. Live(r, d) /\ w \in Actors /\ r2.own[d].owner = w /\ d \in Actors
    BY <1>1, <1>6 DEF Frame, SameId
  <2>2. r2.own[d].plugged = r.own[d].plugged BY <1>14, <2>1 DEF SameLink
  <2>3. /\ Num(r, H, Plug(d)) + Bit(r.own[d].plugged) = 1
        /\ Num(r, H, Owns(w, d)) + Bit(d \in r.own[w].owned)
           + Num(r, H, Term(d)) + Bit(r.own[d].pending) + Bit(r.own[d].terminating) = 1
    BY <1>1, <2>1 DEF Stages
  <2>4. Num(r2, H2, Owns(w, d)) = Num(r, H, Owns(w, d)) BY <1>12, <2>1
  <2>5. /\ Num(r, H, Owns(w, d)) \in Nat /\ Num(r, H, Term(d)) \in Nat
        /\ Num(r, H, Plug(d)) \in Nat
    BY <1>7, <2>1 DEF Naturals
  <2>6. CASE d = o
    <3>1. w # o BY <1>1, <2>1, <2>6, OwnershipAssumption DEF Owners, Live, Kinds
    <3>2. r2.own[w].owned = r.own[w].owned BY <1>13, <2>1, <3>1
    <3>3. /\ d \in Objects /\ ~r.own[d].terminating /\ r2.own[d].terminating /\ ~r2.own[d].pending
      BY <1>14, <2>6
    <3>4. Num(r2, H2, Term(d)) = Num(r, H, Term(d)) - Bit(Term(d) \in H) + Bit(Term(d) \in H2)
      BY <1>7 DEF Moved
    <3>5. Term(d) \notin H2 BY <1>4, <1>9, <2>6
    <3>6. CASE H = {Term(o)}
      <4>1. Num(r, H, Term(d)) > 0 BY <1>1, <2>1, <2>6, <3>6, NumNat, VocabularyTypes
      <4>2. Num(r, H, Owns(w, d)) = 0 /\ d \notin r.own[w].owned /\ Num(r, H, Term(d)) = 1
        BY <2>3, <2>5, <4>1 DEF Bit
      <4>3. Num(r2, H2, Term(d)) = 0 BY <2>6, <3>4, <3>5, <3>6, <4>2 DEF Bit
      <4> HIDE DEF w
      <4> QED BY <1>12, <2>1, <2>2, <2>3, <2>4, <3>2, <3>3, <4>2, <4>3 DEF Bit
    <3>7. CASE H = {} /\ r.own[o].pending
      <4>2. Num(r, H, Owns(w, d)) = 0 /\ d \notin r.own[w].owned /\ Num(r, H, Term(d)) = 0
        BY <2>3, <2>5, <2>6, <3>7 DEF Bit
      <4>3. Num(r2, H2, Term(d)) = 0 BY <3>4, <3>5, <3>7, <4>2 DEF Bit
      <4> HIDE DEF w
      <4> QED BY <1>12, <2>1, <2>2, <2>3, <2>4, <3>2, <3>3, <4>2, <4>3 DEF Bit
    <3> QED BY <2>6, <3>6, <3>7, OwnershipAssumption
  <2>7. CASE d # o
    <3>1. r2.own[d] = r.own[d] BY <1>2, <2>1, <2>7
    <3>2. Num(r2, H2, Term(d)) = Num(r, H, Term(d)) + Bit(d \in D) BY <1>12, <2>7
    <3>3. CASE d \in D
      <4>1. w = o BY <1>15, <3>3
      <4>2. Num(r, H, Owns(o, d)) = 0 /\ Num(r, H, Term(d)) = 0
            /\ ~r.own[d].pending /\ ~r.own[d].terminating
        BY <1>15, <3>3
      <4>3. Num(r2, H2, Term(d)) = 1 BY <3>2, <3>3, <4>2 DEF Bit
      <4>4. d \notin r2.own[o].owned BY <1>14
      <4> QED BY <1>12, <2>2, <2>3, <2>4, <3>1, <4>1, <4>2, <4>3, <4>4 DEF Bit
    <3>4. CASE d \notin D
      <4>1. d \in r2.own[w].owned <=> d \in r.own[w].owned BY <1>13, <1>14, <2>1, <3>4 DEF D
      <4>2. Num(r2, H2, Term(d)) = Num(r, H, Term(d)) BY <2>5, <3>2, <3>4 DEF Bit
      <4> HIDE DEF w
      <4> QED BY <1>12, <2>1, <2>2, <2>3, <2>4, <3>1, <4>1, <4>2 DEF Bit
    <3> QED BY <3>3, <3>4
  <2> QED BY <2>6, <2>7
<1>17. Owned(r2)
  <2>1. \A q, p : Child(r2, q, p) <=> Child(r, q, p) BY <1>6 DEF Frame
  <2> QED BY <1>1, <1>13, <1>14, <2>1 DEF Owned
<1>18. Engines(r2, H2) BY <1>1, <1>6, <1>9, <1>14, KeepEngines
<1>19. Rooms(r2)
  <2>1. \A p \in Actors : r.own[p].plugged => r2.own[p].plugged BY <1>14 DEF SameLink
  <2> QED BY <1>1, <1>6, <2>1, KeepRooms
<1>20. Balanced(r2, H2)
  <2> SUFFICES ASSUME NEW p \in Actors, Live(r2, p) PROVE
          /\ r2.own[p].sent_seqnum = r2.own[p].processed_seqnum + Cnt(r2, H2, p)
          /\ r2.own[p].term_acks
               = Num(r2, H2, Ack(p)) + Cardinality(Told(r2, H2, p)) + Left(r2.own[p])
          /\ r2.own[p].destroyed =>
               /\ r2.own[p].terminating /\ r2.own[p].sent_seqnum = r2.own[p].processed_seqnum
               /\ r2.own[p].term_acks = 0
    BY DEF Balanced
  <2>1. Live(r, p) BY <1>6 DEF Frame
  <2>2. \A q : Child(r2, q, p) <=> Child(r, q, p) BY <1>6 DEF Frame
  <2>4. CASE p = o
    <3> DEFINE T == Told(r, H, o)
    <3>1. Told(r2, H2, o) = T \cup D
      <4>1. \A c \in D : Child(r, c, o) /\ Num(r, H, Owns(o, c)) = 0 BY <1>15 DEF Child
      <4>2. r2.own[o].owned = {} BY <1>14
      <4>3. \A c \in Objects : Num(r2, H2, Owns(o, c)) = Num(r, H, Owns(o, c)) BY <1>12
      <4> QED BY <1>3, <2>2, <2>4, <4>1, <4>2, <4>3 DEF Told, D
    <3>2. T \cap D = {} BY DEF Told, D
    <3>3. IsFiniteSet(T) BY OwnershipAssumption, FS_Subset DEF Told
    <3>4. Cardinality(T \cup D) = Cardinality(T) + Cardinality(D) - Cardinality(T \cap D)
      BY <1>3, <3>3, FS_Union
    <3>5. Cardinality(T \cap D) = 0 BY <3>2, FS_EmptySet
    <3>6. Cardinality(T) \in Nat /\ Cardinality(D) \in Nat BY <1>3, <3>3, FS_CardinalityType
    <3>7. Cardinality(Told(r2, H2, o)) = Cardinality(T) + Cardinality(D)
      <4> HIDE DEF T
      <4> QED BY <3>1, <3>4, <3>5, <3>6
    <3>8. ~x.destroyed BY <1>1 DEF Balanced
    <3>9. Left(x) = 0 BY DEF Left
    <3>10. x.term_acks = Num(r, H, Ack(o)) + Cardinality(T) + 0
      BY <1>1, <3>9 DEF Balanced
    <3>11. Left(r2.own[o]) = IF o \in Sockets THEN Cardinality(x.pipes) ELSE 0
      BY <1>2 DEF Left, Terminating
    <3>12. r2.own[o].term_acks = x.term_acks + Cardinality(D) + Left(r2.own[o])
      BY <1>2, <3>11 DEF Terminating, D
    <3>13. Left(r2.own[o]) \in Nat BY <1>2, LeftNat
    <3>14. Num(r2, H2, Ack(o)) = Num(r, H, Ack(o)) /\ Num(r, H, Ack(o)) \in Nat
      BY <1>7, <1>12 DEF Naturals
    <3>15. r2.own[o].term_acks = Num(r2, H2, Ack(o)) + Cardinality(Told(r2, H2, o)) + Left(r2.own[o])
      <4> HIDE DEF T, x
      <4> QED BY <3>6, <3>7, <3>10, <3>12, <3>13, <3>14
    <3>16. ~r2.own[o].destroyed BY <1>2, <3>8 DEF Terminating
    <3> QED BY <1>1, <1>10, <1>14, <2>1, <2>4, <3>15, <3>16 DEF Balanced, SameCounts
  <2>5. CASE p # o
    <3>1. r2.own[p] = r.own[p] BY <1>2, <2>5
    <3>2. Told(r2, H2, p) = Told(r, H, p) BY <1>12, <2>2, <3>1 DEF Told
    <3> QED BY <1>1, <1>10, <1>12, <2>1, <3>1, <3>2 DEF Balanced
  <2> QED BY <2>4, <2>5
<1>21. Held(r2, H2) BY DEF H2
<1>22. Good(r2, H2)
  BY <1>1, <1>2, <1>6, <1>11, <1>16, <1>17, <1>18, <1>19, <1>20, <1>21 DEF Good, Frame
<1>23. \A p \in Actors \ {o} : Waits(r2, p) BY <1>2 DEF Busy, Waits
<1>24. o \in Objects => Beside(r, r2) BY <1>1, <1>2, OwnershipAssumption DEF Beside
<1> QED BY <1>22, <1>23, <1>24 DEF H2
-----------------------------------------------------------------------------
(* What was waited for arrives. *)

\* One object changes, and perhaps pipes.
LEMMA EditTooFrame ==
  ASSUME NEW r, NEW H, Good(r, H), NEW o \in Actors, Live(r, o), NEW r2, NEW y,
         EditToo(r, r2, o, y), SameId(r.own[o], y), KindOK(o, y)
  PROVE  Frame(r, H, r2)
<1>1. /\ r2 \in States /\ r2.own[o] = y /\ \A p \in Actors : p # o => r2.own[p] = r.own[p]
      /\ r2.mail = r.mail
  BY DEF EditToo
<1>2. \A p \in Actors : SameId(r.own[p], r2.own[p]) BY <1>1 DEF SameId
<1>3. \A p \in Actors : r2.own[p] = r.own[p] \/ (Live(r, p) /\ KindOK(p, r2.own[p])) BY <1>1
<1>4. Kinds(r2) BY <1>2, <1>3, KeepKinds
<1> QED BY <1>1, <1>2, <1>4, Framed

\* The step of own_t::process_seqnum: the counted command is processed.
Passed(x, y) ==
    /\ SameId(x, y) /\ SameStage(x, y) /\ SameLink(x, y) /\ SamePipes(x, y) /\ SameAcks(x, y)
    /\ y.sent_seqnum = x.sent_seqnum /\ y.processed_seqnum = x.processed_seqnum + 1

\* own_t::process_seqnum: one command less is waited for, of an object that is still there.
LEMMA SeqnumStep ==
  ASSUME NEW r, NEW o \in Actors, Good(r, {Seqnum(o)}), \A p \in Actors \ {o} : Waits(r, p),
         NEW r2, NEW y, Edit(r, r2, o, y), Passed(r.own[o], y)
  PROVE  /\ Good(r2, {}) /\ (\A p \in Actors \ {o} : Waits(r2, p)) /\ Beside(r, r2)
         /\ Live(r2, o) /\ ~r2.own[o].destroyed
<1> DEFINE H == {Seqnum(o)}
           H2 == {}
           x == r.own[o]
<1>1. /\ Good(r, H) /\ r \in States /\ ~r.failed /\ Kinds(r) /\ Ready(r, H) /\ Balanced(r, H)
      /\ Objects \subseteq Actors /\ Sockets \subseteq Actors /\ IsFiniteSet(H)
  BY DEF Good, Actors
<1>2. Live(r, o) BY <1>1, VocabularyTypes DEF Ready, Proper
<1>3. /\ r2 \in States /\ r2.own[o] = y /\ \A p \in Actors : p # o => r2.own[p] = r.own[p]
      /\ r2.mail = r.mail /\ r2.pipes = r.pipes /\ r2.failed = r.failed
  BY DEF Edit
<1>4. KindOK(o, y) BY <1>1, <1>2 DEF KindOK, Kinds, Passed, SameId, SamePipes, SameAcks, SameStage
<1>5. Frame(r, H, r2) BY <1>1, <1>2, <1>4, EditFrame DEF Passed
<1>6. /\ \A d \in Objects : /\ Plug(d) \notin H /\ Plug(d) \notin H2
                            /\ Term(d) \notin H /\ Term(d) \notin H2
                            /\ Attach(d) \notin H /\ Attach(d) \notin H2
      /\ \A p \in Actors : Ack(p) \notin H /\ Ack(p) \notin H2
      /\ \A p \in Actors, d \in Objects : /\ Owns(p, d) \notin H /\ Owns(p, d) \notin H2
                                          /\ Binds(p, d) \notin H /\ Binds(p, d) \notin H2
  BY <1>1, Vocabulary
<1>7. \A p \in Actors : Cnt(r, H, p) = Cnt(r2, H2, p) + Bit(p = o) /\ Cnt(r2, H2, p) \in Nat
  <2> SUFFICES ASSUME NEW p \in Actors
               PROVE  Cnt(r, H, p) = Cnt(r2, H2, p) + Bit(p = o) /\ Cnt(r2, H2, p) \in Nat
    OBVIOUS
  <2>1. Cnt(r2, H2, p) = Cnt(r, H2, p) BY <1>5 DEF Frame
  <2>2. Cnt(r, H, p) = Cnt(r, {}, p) + Bit(Seqnum(o) \in Counted(p)) /\ Cnt(r, {}, p) \in Nat
    BY <1>1, HandOne
  <2>3. Seqnum(o) \in Counted(p) <=> p = o BY <1>1, VocabularyCounted
  <2> QED BY <2>1, <2>2, <2>3
<1>8. \A p \in Actors : /\ SameStage(r.own[p], r2.own[p]) /\ SameLink(r.own[p], r2.own[p])
                        /\ SamePipes(r.own[p], r2.own[p]) /\ SameAcks(r.own[p], r2.own[p])
  BY <1>3 DEF Passed, SameStage, SameLink, SamePipes, SameAcks
<1>9. H2 \in SUBSET Commands /\ IsFiniteSet(H2) /\ Ready(r2, H2) BY FS_EmptySet DEF Ready
<1> HIDE DEF H, H2
<1>10. Stages(r2, H2) /\ Owned(r2) BY <1>1, <1>5, <1>6, <1>8, KeepStages
<1>11. Engines(r2, H2) BY <1>1, <1>5, <1>6, <1>8, KeepEngines
<1>12. Held(r2, H2) /\ EndsOK(r2) BY <1>1, <1>3, <1>5, <1>6, <1>8, KeepPipes
<1>13. Rooms(r2)
  <2>1. \A p \in Actors : r.own[p].plugged => r2.own[p].plugged BY <1>8 DEF SameLink
  <2> QED BY <1>1, <1>5, <2>1, KeepRooms
<1>14. ~x.destroyed
  <2>1. Cnt(r, H, o) # 0 /\ Cnt(r, H, o) \in Nat BY <1>7 DEF Bit
  <2>2. x.processed_seqnum \in Nat BY <1>1 DEF States, Object
  <2> QED BY <1>1, <1>2, <2>1, <2>2 DEF Balanced
<1>15. \A p \in Actors : Live(r, p) =>
         /\ r2.own[p].sent_seqnum = r2.own[p].processed_seqnum + Cnt(r2, H2, p)
         /\ r.own[p].destroyed => r2.own[p].sent_seqnum = r2.own[p].processed_seqnum
  <2> SUFFICES ASSUME NEW p \in Actors, Live(r, p)
               PROVE  /\ r2.own[p].sent_seqnum = r2.own[p].processed_seqnum + Cnt(r2, H2, p)
                      /\ r.own[p].destroyed => r2.own[p].sent_seqnum = r2.own[p].processed_seqnum
    OBVIOUS
  <2>1. r.own[p].sent_seqnum = r.own[p].processed_seqnum + Cnt(r, H, p) BY <1>1 DEF Balanced
  <2>2. r.own[p].processed_seqnum \in Nat BY <1>1 DEF States, Object
  <2>3. CASE p = o
    <3>1. Cnt(r, H, p) = Cnt(r2, H2, p) + 1 BY <1>7, <2>3 DEF Bit
    <3>2. /\ r2.own[p].sent_seqnum = r.own[p].sent_seqnum
          /\ r2.own[p].processed_seqnum = r.own[p].processed_seqnum + 1
      BY <1>3, <2>3 DEF Passed
    <3> QED BY <1>7, <1>14, <2>1, <2>2, <2>3, <3>1, <3>2
  <2>4. CASE p # o
    <3>1. Cnt(r, H, p) = Cnt(r2, H2, p) + 0 BY <1>7, <2>4 DEF Bit
    <3>2. Cnt(r, H, p) = Cnt(r2, H2, p) BY <1>7, <3>1
    <3> QED BY <1>1, <1>3, <2>1, <2>4, <3>2 DEF Balanced
  <2> QED BY <2>3, <2>4
<1>16. Balanced(r2, H2) BY <1>1, <1>5, <1>6, <1>8, <1>15, KeepBalanced
<1>17. Good(r2, H2)
  BY <1>1, <1>3, <1>5, <1>9, <1>10, <1>11, <1>12, <1>13, <1>16 DEF Good, Frame
<1>18. \A p \in Actors \ {o} : Waits(r2, p) BY <1>3 DEF Waits
<1>19. Beside(r, r2) BY <1>1, <1>3, <1>5, <1>8 DEF Beside, Frame, SameId, SamePipes
<1>20. Live(r2, o) /\ ~r2.own[o].destroyed BY <1>2, <1>5, <1>8, <1>14 DEF Frame, SameAcks
<1> QED BY <1>17, <1>18, <1>19, <1>20 DEF H2

\* The step of own_t::unregister_term_ack for a child that is gone.
Acked(x, y) ==
    /\ SameId(x, y) /\ SameStage(x, y) /\ SameLink(x, y) /\ SamePipes(x, y) /\ SameCounts(x, y)
    /\ SameEnd(x, y) /\ y.term_acks = x.term_acks - 1

\* own_t::process_term_ack: the acknowledgement was waited for, by an object that is still
\* there.
LEMMA AckStep ==
  ASSUME NEW r, NEW o \in Actors, Good(r, {Ack(o)}), \A p \in Actors \ {o} : Waits(r, p),
         NEW r2, NEW y, Edit(r, r2, o, y), Acked(r.own[o], y)
  PROVE  /\ Good(r2, {}) /\ (\A p \in Actors \ {o} : Waits(r2, p)) /\ Beside(r, r2)
         /\ Live(r2, o) /\ ~r2.own[o].destroyed /\ r.own[o].term_acks > 0
<1> DEFINE H == {Ack(o)}
           H2 == {}
           x == r.own[o]
<1>1. /\ Good(r, H) /\ r \in States /\ ~r.failed /\ Kinds(r) /\ Ready(r, H) /\ Balanced(r, H)
      /\ Objects \subseteq Actors /\ Sockets \subseteq Actors /\ IsFiniteSet(H)
  BY DEF Good, Actors
<1>2. Live(r, o) BY <1>1, VocabularyTypes DEF Ready, Proper
<1>3. /\ r2 \in States /\ r2.own[o] = y /\ \A p \in Actors : p # o => r2.own[p] = r.own[p]
      /\ r2.mail = r.mail /\ r2.pipes = r.pipes /\ r2.failed = r.failed
  BY DEF Edit
<1>4. KindOK(o, y) BY <1>1, <1>2 DEF KindOK, Kinds, Acked, SameId, SamePipes, SameEnd, SameStage
<1>5. Frame(r, H, r2) BY <1>1, <1>2, <1>4, EditFrame DEF Acked
<1>6. /\ \A d \in Objects : /\ Plug(d) \notin H /\ Plug(d) \notin H2
                            /\ Term(d) \notin H /\ Term(d) \notin H2
                            /\ Attach(d) \notin H /\ Attach(d) \notin H2
      /\ \A p \in Actors : (Ack(p) \in H <=> p = o) /\ Ack(p) \notin H2
      /\ \A p \in Actors, d \in Objects : /\ Owns(p, d) \notin H /\ Owns(p, d) \notin H2
                                          /\ Binds(p, d) \notin H /\ Binds(p, d) \notin H2
  BY <1>1, Vocabulary
<1>7. \A p \in Actors : Cnt(r2, H2, p) = Cnt(r, H, p)
  <2> SUFFICES ASSUME NEW p \in Actors PROVE Cnt(r2, H2, p) = Cnt(r, H, p) OBVIOUS
  <2>1. Cnt(r2, H2, p) = Cnt(r, H2, p) BY <1>5 DEF Frame
  <2>2. Ack(o) \notin Counted(p) BY <1>1, VocabularyCounted
  <2>3. H \cap Counted(p) = {} BY <2>2
  <2>4. Cnt(r, H, p) = Cnt(r, {}, p) BY <2>3, HandNone
  <2> QED BY <2>1, <2>4
<1>8. \A p \in Actors : /\ SameStage(r.own[p], r2.own[p]) /\ SameLink(r.own[p], r2.own[p])
                        /\ SamePipes(r.own[p], r2.own[p]) /\ SameCounts(r.own[p], r2.own[p])
                        /\ SameEnd(r.own[p], r2.own[p])
  BY <1>3 DEF Acked, SameStage, SameLink, SamePipes, SameCounts, SameEnd
<1>9. H2 \in SUBSET Commands /\ IsFiniteSet(H2) /\ Ready(r2, H2) BY FS_EmptySet DEF Ready
<1>10. Moved(r, H, r2, H2) /\ Naturals(r, H) BY <1>5 DEF Frame
<1> HIDE DEF H, H2
<1>11. Stages(r2, H2) /\ Owned(r2) BY <1>1, <1>5, <1>6, <1>8, KeepStages
<1>12. Engines(r2, H2) BY <1>1, <1>5, <1>6, <1>8, KeepEngines
<1>13. Held(r2, H2) /\ EndsOK(r2) BY <1>1, <1>3, <1>5, <1>6, <1>8, KeepPipes
<1>14. Rooms(r2)
  <2>1. \A p \in Actors : r.own[p].plugged => r2.own[p].plugged BY <1>8 DEF SameLink
  <2> QED BY <1>1, <1>5, <2>1, KeepRooms
<1>15. /\ \A p \in Actors : Num(r2, H2, Ack(p)) = Num(r, H, Ack(p)) - Bit(p = o)
       /\ \A p \in Actors, d \in Objects : Num(r2, H2, Owns(p, d)) = Num(r, H, Owns(p, d))
  BY <1>6, <1>10 DEF Moved, Naturals, Bit
<1>16. Num(r, H, Ack(o)) > 0 /\ Num(r, H, Ack(o)) \in Nat
  BY <1>1, <1>6, NumNat, VocabularyTypes
<1>17. \A p \in Actors : Told(r2, H2, p) = Told(r, H, p) /\ Left(r2.own[p]) = Left(r.own[p])
  <2>1. \A q, p : Child(r2, q, p) <=> Child(r, q, p) BY <1>5 DEF Frame
  <2> QED BY <1>8, <1>15, <2>1 DEF Told, Left, SameStage, SamePipes
<1>18. x.term_acks > 0 /\ ~x.destroyed
  <2>1. x.term_acks = Num(r, H, Ack(o)) + Cardinality(Told(r, H, o)) + Left(x)
    BY <1>1, <1>2 DEF Balanced
  <2>2. IsFiniteSet(Told(r, H, o)) BY OwnershipAssumption, FS_Subset DEF Told
  <2>3. Cardinality(Told(r, H, o)) \in Nat BY <2>2, FS_CardinalityType
  <2>4. Left(x) \in Nat BY <1>1, LeftNat
  <2>5. x.term_acks > 0
    <3> HIDE DEF x
    <3> QED BY <1>16, <2>1, <2>3, <2>4
  <2> QED BY <1>1, <1>2, <2>5 DEF Balanced
<1>19. Balanced(r2, H2)
  <2> SUFFICES ASSUME NEW p \in Actors, Live(r2, p) PROVE
          /\ r2.own[p].sent_seqnum = r2.own[p].processed_seqnum + Cnt(r2, H2, p)
          /\ r2.own[p].term_acks
               = Num(r2, H2, Ack(p)) + Cardinality(Told(r2, H2, p)) + Left(r2.own[p])
          /\ r2.own[p].destroyed =>
               /\ r2.own[p].terminating /\ r2.own[p].sent_seqnum = r2.own[p].processed_seqnum
               /\ r2.own[p].term_acks = 0
    BY DEF Balanced
  <2>1. Live(r, p) BY <1>5 DEF Frame
  <2>2. r2.own[p].sent_seqnum = r2.own[p].processed_seqnum + Cnt(r2, H2, p)
    BY <1>1, <1>7, <1>8, <2>1 DEF Balanced, SameCounts
  <2>3. r.own[p].term_acks = Num(r, H, Ack(p)) + Cardinality(Told(r, H, p)) + Left(r.own[p])
    BY <1>1, <2>1 DEF Balanced
  <2>4. IsFiniteSet(Told(r, H, p)) BY OwnershipAssumption, FS_Subset DEF Told
  <2>5. Cardinality(Told(r, H, p)) \in Nat /\ Left(r.own[p]) \in Nat /\ Num(r, H, Ack(p)) \in Nat
    BY <1>1, <1>10, <2>4, FS_CardinalityType, LeftNat DEF Naturals
  <2>6. CASE p = o
    <3>1. r2.own[p].term_acks = r.own[p].term_acks - 1 BY <1>3, <2>6 DEF Acked
    <3>2. Num(r2, H2, Ack(p)) = Num(r, H, Ack(p)) - 1 BY <1>15, <2>6 DEF Bit
    <3>3. ~r2.own[p].destroyed BY <1>8, <1>18, <2>6 DEF SameEnd
    <3>4. Told(r2, H2, p) = Told(r, H, p) /\ Left(r2.own[p]) = Left(r.own[p]) BY <1>17
    <3>5. r2.own[p].term_acks = Num(r2, H2, Ack(p)) + Cardinality(Told(r2, H2, p)) + Left(r2.own[p])
      BY <2>3, <2>5, <3>1, <3>2, <3>4
    <3> QED BY <2>2, <3>3, <3>5
  <2>7. CASE p # o
    <3>1. Num(r2, H2, Ack(p)) = Num(r, H, Ack(p)) BY <1>15, <2>5, <2>7 DEF Bit
    <3>2. r2.own[p] = r.own[p] BY <1>3, <2>7
    <3> QED BY <1>1, <1>17, <2>1, <2>2, <3>1, <3>2 DEF Balanced
  <2> QED BY <2>6, <2>7
<1>20. Good(r2, H2)
  BY <1>1, <1>3, <1>5, <1>9, <1>11, <1>12, <1>13, <1>14, <1>19 DEF Good, Frame
<1>21. \A p \in Actors \ {o} : Waits(r2, p) BY <1>3 DEF Waits
<1>22. Beside(r, r2) BY <1>1, <1>3, <1>5, <1>8 DEF Beside, Frame, SameId, SamePipes
<1>23. Live(r2, o) /\ ~r2.own[o].destroyed BY <1>2, <1>5, <1>8, <1>18 DEF Frame, SameEnd
<1> QED BY <1>18, <1>20, <1>21, <1>22, <1>23 DEF H2
-----------------------------------------------------------------------------
(* The pipes of the sessions. *)

\* The pipes of C whose end e is still there are asked to terminate, pipe_t::terminate.
Asked(r, r2, C, e) ==
    \A d \in Objects :
      /\ r2.pipes[d].ends = r.pipes[d].ends
      /\ r2.pipes[d].asked = IF d \in C /\ e \in r.pipes[d].ends THEN r.pipes[d].asked \cup {e}
                             ELSE r.pipes[d].asked
\* An end of a pipe is deleted.
Ended(r, r2, c, e) ==
    \A d \in Objects :
      /\ r2.pipes[d].asked = r.pipes[d].asked
      /\ r2.pipes[d].ends = IF d = c THEN r.pipes[d].ends \ {e} ELSE r.pipes[d].ends
\* A pipe is made.
Made(r, r2, c) ==
    r2.pipes[c] = NewPipe /\ \A d \in Objects : d # c => r2.pipes[d] = r.pipes[d]

\* pipe_t::terminate touches nothing but pipes.
LEMMA AskedPipes ==
  ASSUME NEW r \in States, NEW C, NEW e \in {1, 2}
  PROVE  /\ AskPipes(r, C, e) \in States /\ Asked(r, AskPipes(r, C, e), C, e)
         /\ AskPipes(r, C, e).own = r.own /\ AskPipes(r, C, e).mail = r.mail
         /\ AskPipes(r, C, e).failed = r.failed
<1> DEFINE f == [c \in Objects |-> IF c \in C /\ e \in r.pipes[c].ends
                   THEN [r.pipes[c] EXCEPT !.asked = @ \cup {e}] ELSE r.pipes[c]]
           r2 == AskPipes(r, C, e)
<1>1. r.pipes \in [Objects -> PipeState] BY DEF States
<1>2. f \in [Objects -> PipeState] BY <1>1 DEF PipeState
<1>3. r2 = [r EXCEPT !.pipes = f] BY DEF AskPipes
<1>4. /\ r2 \in States /\ r2.pipes = f /\ r2.own = r.own /\ r2.mail = r.mail
      /\ r2.failed = r.failed
  <2> HIDE DEF f, r2
  <2> QED BY <1>2, <1>3, WithPipes
<1> HIDE DEF r2
<1>5. Asked(r, r2, C, e) BY <1>1, <1>4 DEF Asked, PipeState
<1> QED BY <1>4, <1>5 DEF r2

\* The ends of the sockets stay where they are.
LEMMA KeepHeld ==
  ASSUME NEW r, NEW H, Good(r, H), NEW r2, NEW H2, Frame(r, H, r2),
         \A p \in Actors : r2.own[p].pipes = r.own[p].pipes,
         \A d \in Objects : 1 \in r2.pipes[d].ends <=> 1 \in r.pipes[d].ends,
         \A o \in Actors, c \in Objects : Binds(o, c) \in H2 <=> Binds(o, c) \in H
  PROVE  Held(r2, H2)
<1>0. Moved(r, H, r2, H2) /\ Naturals(r, H) BY DEF Frame
<1>1. \A o \in Actors, c \in Objects : Num(r2, H2, Binds(o, c)) = Num(r, H, Binds(o, c))
  BY <1>0 DEF Moved, Naturals, Bit
<1>2. \A s \in Sockets, c \in Objects : Holds(r2, H2, s, c) <=> Holds(r, H, s, c)
  BY <1>1 DEF Holds, Actors
<1>3. Held(r, H) /\ Sockets \subseteq Actors BY DEF Good, Actors
<1> QED BY <1>1, <1>2, <1>3 DEF Held

\* An object that waits for nothing and owns nothing has no children, and nothing is
\* under way to it that is counted or waited for.
LEMMA Childless ==
  ASSUME NEW r, NEW H, Good(r, H), NEW o \in Actors, Live(r, o), r.own[o].owned = {},
         r.own[o].sent_seqnum = r.own[o].processed_seqnum, r.own[o].term_acks = 0
  PROVE  /\ \A c : ~Child(r, c, o)
         /\ Cnt(r, H, o) = 0 /\ Num(r, H, Ack(o)) = 0 /\ Left(r.own[o]) = 0
<1> DEFINE x == r.own[o]
           T == Told(r, H, o)
<1>1. /\ r \in States /\ Kinds(r) /\ IsFiniteSet(H) /\ Balanced(r, H) BY DEF Good
<1>2. Naturals(r, H) /\ Left(x) \in Nat BY <1>1, AllNaturals, LeftNat
<1>3. Cnt(r, H, o) = 0
  <2>1. x.sent_seqnum = x.processed_seqnum + Cnt(r, H, o) BY <1>1 DEF Balanced
  <2>2. x.processed_seqnum \in Nat /\ Cnt(r, H, o) \in Nat
    BY <1>1, <1>2 DEF States, Object, Naturals
  <2> QED BY <2>1, <2>2
<1>4. IsFiniteSet(T) BY OwnershipAssumption, FS_Subset DEF Told
<1>5. Cardinality(T) \in Nat /\ (Cardinality(T) = 0 <=> T = {})
  BY <1>4, FS_CardinalityType, FS_EmptySet
<1>6. 0 = Num(r, H, Ack(o)) + Cardinality(T) + Left(x) BY <1>1 DEF Balanced
<1>7. Num(r, H, Ack(o)) \in Nat BY <1>2 DEF Naturals
<1>8. Num(r, H, Ack(o)) = 0 /\ Cardinality(T) = 0 /\ Left(x) = 0
  <2> DEFINE a == Num(r, H, Ack(o))
             b == Cardinality(T)
             d == Left(x)
  <2>1. a \in Nat /\ b \in Nat /\ d \in Nat /\ 0 = a + b + d BY <1>2, <1>5, <1>6, <1>7
  <2> HIDE DEF a, b, d
  <2>2. a = 0 /\ b = 0 /\ d = 0 BY <2>1
  <2> QED BY <2>2 DEF a, b, d
<1>9. ASSUME NEW c, Child(r, c, o) PROVE FALSE
  <2>1. c \in Objects BY <1>9 DEF Child
  <2>2. Owns(o, c) \in Commands /\ Owns(o, c) \in Counted(o) BY <2>1, VocabularyTypes, VocabularyCounted
  <2>3. Num(r, H, Owns(o, c)) = 0 BY <1>1, <1>3, <2>2, CntCovers
  <2>4. c \in T BY <1>9, <2>1, <2>3 DEF Told
  <2> QED BY <1>5, <1>8, <2>4
<1> QED BY <1>3, <1>8, <1>9

\* session_base_t::process_term of a session with a pipe: that is terminated first.
Pended(x, y) ==
    /\ SameId(x, y) /\ SameLink(x, y) /\ SameAcks(x, y) /\ SameCounts(x, y) /\ y.pending = TRUE
\* session_base_t::process_term while the pipe of the session is there.
LEMMA PendStep ==
  ASSUME NEW r, NEW c \in Objects, Good(r, {Term(c)}), Busy(r), 2 \in r.pipes[c].ends,
         NEW r2, NEW y, EditToo(r, r2, c, y), Pended(r.own[c], y), Asked(r, r2, {c}, 2)
  PROVE  Good(r2, {}) /\ Busy(r2) /\ Beside(r, r2) /\ ~r.own[c].pending
<1> DEFINE H == {Term(c)}
           H2 == {}
           x == r.own[c]
<1>1. /\ Good(r, H) /\ r \in States /\ ~r.failed /\ Kinds(r) /\ Ready(r, H) /\ Balanced(r, H)
      /\ Objects \subseteq Actors /\ Sockets \subseteq Actors /\ IsFiniteSet(H) /\ EndsOK(r)
      /\ Stages(r, H) /\ Owned(r)
  BY DEF Good, Actors
<1>2. Live(r, c) /\ x.kind = "session" /\ ~x.terminating /\ c \in Actors
  BY <1>1 DEF EndsOK, Live
<1>3. /\ r2 \in States /\ r2.own[c] = y /\ \A p \in Actors : p # c => r2.own[p] = r.own[p]
      /\ r2.mail = r.mail /\ r2.failed = r.failed
  BY DEF EditToo
<1>4. KindOK(c, y)
  BY <1>1, <1>2, OwnershipAssumption DEF KindOK, Kinds, Pended, SameId, SameAcks
<1>5. Frame(r, H, r2) BY <1>1, <1>2, <1>4, EditTooFrame DEF Pended
<1>6. /\ \A d \in Objects : /\ Plug(d) \notin H /\ Plug(d) \notin H2
                            /\ (Term(d) \in H <=> d = c) /\ Term(d) \notin H2
                            /\ Attach(d) \notin H /\ Attach(d) \notin H2
      /\ \A p \in Actors : Ack(p) \notin H /\ Ack(p) \notin H2
      /\ \A p \in Actors, d \in Objects : /\ Owns(p, d) \notin H /\ Owns(p, d) \notin H2
                                          /\ Binds(p, d) \notin H /\ Binds(p, d) \notin H2
  BY <1>1, Vocabulary
<1>7. \A p \in Actors : Cnt(r2, H2, p) = Cnt(r, H, p)
  <2> SUFFICES ASSUME NEW p \in Actors PROVE Cnt(r2, H2, p) = Cnt(r, H, p) OBVIOUS
  <2>1. Cnt(r2, H2, p) = Cnt(r, H2, p) BY <1>5 DEF Frame
  <2>2. Term(c) \notin Counted(p) BY <1>1, VocabularyCounted
  <2>3. H \cap Counted(p) = {} BY <2>2
  <2>4. Cnt(r, H, p) = Cnt(r, {}, p) BY <2>3, HandNone
  <2> QED BY <2>1, <2>4
<1>8. \A p \in Actors : /\ SameLink(r.own[p], r2.own[p]) /\ SameAcks(r.own[p], r2.own[p])
                        /\ SameCounts(r.own[p], r2.own[p])
  BY <1>3 DEF Pended, SameLink, SameAcks, SameCounts
<1>9. H2 \in SUBSET Commands /\ IsFiniteSet(H2) /\ Ready(r2, H2) BY FS_EmptySet DEF Ready
<1>10. Moved(r, H, r2, H2) /\ Naturals(r, H) BY <1>5 DEF Frame
<1> HIDE DEF H, H2
<1>11. /\ \A d \in Objects : /\ Num(r2, H2, Plug(d)) = Num(r, H, Plug(d))
                             /\ Num(r2, H2, Term(d)) = Num(r, H, Term(d)) - Bit(d = c)
       /\ \A p \in Actors, d \in Objects : Num(r2, H2, Owns(p, d)) = Num(r, H, Owns(p, d))
  BY <1>6, <1>10 DEF Moved, Naturals, Bit
<1>12. Num(r, H, Term(c)) > 0 BY <1>1, <1>6, NumNat, VocabularyTypes
<1>13. ~x.pending
  <2>1. x.owner \in Actors BY <1>2, <1>5 DEF Frame
  <2>2. Num(r, H, Owns(x.owner, c)) + Bit(c \in r.own[x.owner].owned)
           + Num(r, H, Term(c)) + Bit(x.pending) + Bit(x.terminating) = 1
    BY <1>1, <1>2 DEF Stages
  <2>3. Num(r, H, Owns(x.owner, c)) \in Nat /\ Num(r, H, Term(c)) \in Nat
    BY <1>10, <2>1 DEF Naturals
  <2> QED BY <1>12, <2>2, <2>3 DEF Bit
<1>14. Stages(r2, H2)
  <2> SUFFICES ASSUME NEW d \in Objects, Live(r2, d) PROVE
        /\ Num(r2, H2, Plug(d)) + Bit(r2.own[d].plugged) = 1
        /\ Num(r2, H2, Owns(r2.own[d].owner, d)) + Bit(d \in r2.own[r2.own[d].owner].owned)
           + Num(r2, H2, Term(d)) + Bit(r2.own[d].pending) + Bit(r2.own[d].terminating) = 1
    BY DEF Stages
  <2> DEFINE w == r.own[d].owner
  <2>1. Live(r, d) /\ w \in Actors /\ r2.own[d].owner = w /\ d \in Actors
    BY <1>1, <1>5 DEF Frame, SameId
  <2>2. /\ r2.own[d].plugged = r.own[d].plugged /\ r2.own[w].owned = r.own[w].owned
        /\ r2.own[d].terminating = r.own[d].terminating
    BY <1>8, <2>1 DEF SameLink, SameAcks
  <2>3. /\ Num(r, H, Plug(d)) + Bit(r.own[d].plugged) = 1
        /\ Num(r, H, Owns(w, d)) + Bit(d \in r.own[w].owned)
           + Num(r, H, Term(d)) + Bit(r.own[d].pending) + Bit(r.own[d].terminating) = 1
    BY <1>1, <2>1 DEF Stages
  <2>4. Num(r2, H2, Owns(w, d)) = Num(r, H, Owns(w, d)) BY <1>11, <2>1
  <2>5. Num(r, H, Owns(w, d)) \in Nat /\ Num(r, H, Term(d)) \in Nat BY <1>10, <2>1 DEF Naturals
  <2>6. Num(r, H, Term(d)) + Bit(r.own[d].pending)
          = Num(r2, H2, Term(d)) + Bit(r2.own[d].pending)
    <3>1. CASE d = c
      <4>1. Num(r2, H2, Term(d)) = Num(r, H, Term(d)) - 1 BY <1>11, <3>1 DEF Bit
      <4>2. r2.own[d].pending BY <1>3, <3>1 DEF Pended
      <4> QED BY <1>13, <2>5, <3>1, <4>1, <4>2 DEF Bit
    <3>2. CASE d # c
      <4>1. Num(r2, H2, Term(d)) = Num(r, H, Term(d)) BY <1>11, <2>5, <3>2 DEF Bit
      <4>2. r2.own[d] = r.own[d] BY <1>3, <2>1, <3>2
      <4> QED BY <4>1, <4>2
    <3> QED BY <3>1, <3>2
  <2>7. Num(r2, H2, Term(d)) \in Int BY <1>11, <2>5 DEF Bit
  <2> HIDE DEF w
  <2> QED BY <1>11, <2>1, <2>2, <2>3, <2>4, <2>5, <2>6, <2>7 DEF Bit
<1>15. Owned(r2)
  <2>1. \A q, p : Child(r2, q, p) <=> Child(r, q, p) BY <1>5 DEF Frame
  <2> QED BY <1>1, <1>8, <2>1 DEF Owned, SameAcks
<1>16. Engines(r2, H2) BY <1>1, <1>5, <1>6, <1>8, KeepEngines
<1>17. Held(r2, H2)
  <2>1. \A p \in Actors : r2.own[p].pipes = r.own[p].pipes BY <1>8 DEF SameAcks
  <2>2. \A d \in Objects : 1 \in r2.pipes[d].ends <=> 1 \in r.pipes[d].ends BY DEF Asked
  <2> QED BY <1>1, <1>5, <1>6, <2>1, <2>2, KeepHeld
<1>18. EndsOK(r2)
  <2>1. \A d \in Objects : /\ r2.own[d].kind = r.own[d].kind
                           /\ r2.own[d].terminating = r.own[d].terminating
                           /\ d # c => r2.own[d].pending = r.own[d].pending
    BY <1>1, <1>3, <1>5, <1>8 DEF Frame, SameId, SameAcks
  <2>2. r2.own[c].pending BY <1>3 DEF Pended
  <2>3. \A s \in Sockets : r2.own[s].reaping = r.own[s].reaping /\ r2.own[s].pipes = r.own[s].pipes
    BY <1>1, <1>8 DEF SameAcks
  <2>4. \A d \in Objects : /\ r2.pipes[d].ends = r.pipes[d].ends
                           /\ r.pipes[d].asked \subseteq r2.pipes[d].asked
                           /\ d # c => r2.pipes[d].asked = r.pipes[d].asked
    BY DEF Asked
  <2>5. 2 \in r2.pipes[c].asked BY DEF Asked
  <2>6. \A d \in Objects : r2.own[d].pending <=> 2 \in r2.pipes[d].ends /\ 2 \in r2.pipes[d].asked
    BY <1>1, <2>1, <2>2, <2>4, <2>5 DEF EndsOK
  <2> QED BY <1>1, <2>1, <2>3, <2>4, <2>6 DEF EndsOK
<1>19. Rooms(r2)
  <2>1. \A p \in Actors : r.own[p].plugged => r2.own[p].plugged BY <1>8 DEF SameLink
  <2> QED BY <1>1, <1>5, <2>1, KeepRooms
<1>20. Balanced(r2, H2)
  <2>1. \A p \in Actors : Live(r, p) =>
           /\ r2.own[p].sent_seqnum = r2.own[p].processed_seqnum + Cnt(r2, H2, p)
           /\ r.own[p].destroyed => r2.own[p].sent_seqnum = r2.own[p].processed_seqnum
    BY <1>1, <1>7, <1>8 DEF Balanced, SameCounts
  <2> QED BY <1>1, <1>5, <1>6, <1>8, <2>1, KeepBalanced
<1>21. Good(r2, H2)
  BY <1>1, <1>3, <1>5, <1>9, <1>14, <1>15, <1>16, <1>17, <1>18, <1>19, <1>20 DEF Good, Frame
<1>22. Busy(r2) BY <1>8 DEF Busy, Waits, SameAcks, SameCounts
<1>23. Beside(r, r2) BY <1>1, <1>3, <1>5, <1>8 DEF Beside, Frame, SameId, SameAcks
<1> QED BY <1>13, <1>21, <1>22, <1>23 DEF H2

\* The same of those commands that the tallies are about.
Alike2(H, H2) ==
    /\ \A d \in Objects : /\ Plug(d) \in H2 <=> Plug(d) \in H
                          /\ Term(d) \in H2 <=> Term(d) \in H
                          /\ Attach(d) \in H2 <=> Attach(d) \in H
    /\ \A p \in Actors : Ack(p) \in H2 <=> Ack(p) \in H
    /\ \A p \in Actors, d \in Objects : Owns(p, d) \in H2 <=> Owns(p, d) \in H

\* A step that changes nothing but pipes and what does not matter to own_t.
LEMMA QuietStep ==
  ASSUME NEW r, NEW H, Good(r, H), NEW r2 \in States, ~r2.failed, Frame(r, H, r2),
         NEW H2 \in SUBSET Commands, IsFiniteSet(H2), Ready(r2, H2), Alike2(H, H2),
         \A p \in Actors : /\ SameStage(r.own[p], r2.own[p]) /\ SameLink(r.own[p], r2.own[p])
                           /\ SameAcks(r.own[p], r2.own[p]) /\ SameCounts(r.own[p], r2.own[p]),
         \A p \in Actors : Cnt(r2, H2, p) = Cnt(r, H, p),
         Held(r2, H2), EndsOK(r2)
  PROVE  /\ Good(r2, H2) /\ \A p \in Actors : Waits(r, p) => Waits(r2, p)
<1>1. Stages(r2, H2) /\ Owned(r2) BY KeepStages DEF Alike2
<1>2. Engines(r2, H2) BY KeepEngines DEF Alike2
<1>3. Rooms(r2)
  <2>1. \A p \in Actors : r.own[p].plugged => r2.own[p].plugged BY DEF SameLink
  <2> QED BY <2>1, KeepRooms
<1>4. Balanced(r2, H2)
  <2>1. Balanced(r, H) BY DEF Good
  <2>2. \A p \in Actors : Live(r, p) =>
           /\ r2.own[p].sent_seqnum = r2.own[p].processed_seqnum + Cnt(r2, H2, p)
           /\ r.own[p].destroyed => r2.own[p].sent_seqnum = r2.own[p].processed_seqnum
    BY <2>1 DEF Balanced, SameCounts
  <2>3. /\ \A o \in Actors : Ack(o) \in H2 <=> Ack(o) \in H
        /\ \A o \in Actors, c \in Objects : Owns(o, c) \in H2 <=> Owns(o, c) \in H
    BY DEF Alike2
  <2> QED BY <2>2, <2>3, KeepBalanced
<1>5. Good(r2, H2) BY <1>1, <1>2, <1>3, <1>4 DEF Good, Frame
<1>6. \A p \in Actors : Waits(r, p) => Waits(r2, p) BY DEF Waits, SameAcks, SameCounts
<1> QED BY <1>5, <1>6

\* Only pipes change.
OnlyPipes(r, r2) ==
    r2 \in States /\ r2.own = r.own /\ r2.mail = r.mail /\ r2.failed = r.failed

\* The objects stay as they are: all that depends on them does.
LEMMA PipesFrame ==
  ASSUME NEW r, NEW H, Good(r, H), NEW r2, OnlyPipes(r, r2)
  PROVE  /\ Frame(r, H, r2) /\ Alike2(H, H) /\ Ready(r2, H) /\ r2 \in States /\ ~r2.failed
         /\ \A p \in Actors : /\ SameStage(r.own[p], r2.own[p]) /\ SameLink(r.own[p], r2.own[p])
                              /\ SameAcks(r.own[p], r2.own[p]) /\ SameCounts(r.own[p], r2.own[p])
         /\ \A p \in Actors : Cnt(r2, H, p) = Cnt(r, H, p)
         /\ Beside(r, r2)
<1>1. r2 \in States /\ r2.own = r.own /\ r2.mail = r.mail /\ r2.failed = r.failed
  BY DEF OnlyPipes
<1>2. Kinds(r2) BY <1>1 DEF Good, Kinds, Live
<1>3. \A p \in Actors : SameId(r.own[p], r2.own[p]) BY <1>1 DEF SameId
<1>4. Frame(r, H, r2) BY <1>1, <1>2, <1>3, Framed
<1>5. \A p \in Actors : /\ SameStage(r.own[p], r2.own[p]) /\ SameLink(r.own[p], r2.own[p])
                        /\ SameAcks(r.own[p], r2.own[p]) /\ SameCounts(r.own[p], r2.own[p])
  BY <1>1 DEF SameStage, SameLink, SameAcks, SameCounts
<1>6. Ready(r2, H) BY <1>1, <1>4 DEF Good, Ready, Frame
<1>7. \A p \in Actors : Cnt(r2, H, p) = Cnt(r, H, p) BY <1>4 DEF Frame
<1>8. Beside(r, r2) BY <1>1 DEF Beside
<1> QED BY <1>1, <1>4, <1>5, <1>6, <1>7, <1>8 DEF Alike2, Good

\* pipe_t::terminate by the socket's end, of any pipes.
LEMMA AskStep ==
  ASSUME NEW r, NEW H, Good(r, H), NEW r2, OnlyPipes(r, r2), NEW C, Asked(r, r2, C, 1)
  PROVE  Good(r2, H) /\ (\A p \in Actors : Waits(r, p) => Waits(r2, p)) /\ Beside(r, r2)
<1>1. /\ Frame(r, H, r2) /\ Alike2(H, H) /\ Ready(r2, H) /\ r2 \in States /\ ~r2.failed
      /\ \A p \in Actors : /\ SameStage(r.own[p], r2.own[p]) /\ SameLink(r.own[p], r2.own[p])
                           /\ SameAcks(r.own[p], r2.own[p]) /\ SameCounts(r.own[p], r2.own[p])
      /\ \A p \in Actors : Cnt(r2, H, p) = Cnt(r, H, p)
      /\ Beside(r, r2)
  BY PipesFrame
<1>2. H \in SUBSET Commands /\ IsFiniteSet(H) /\ EndsOK(r) BY DEF Good
<1>3. \A d \in Objects : /\ r2.pipes[d].ends = r.pipes[d].ends
                         /\ r.pipes[d].asked \subseteq r2.pipes[d].asked
                         /\ 2 \in r2.pipes[d].asked <=> 2 \in r.pipes[d].asked
  <2> SUFFICES ASSUME NEW d \in Objects
               PROVE  /\ r2.pipes[d].ends = r.pipes[d].ends
                      /\ r.pipes[d].asked \subseteq r2.pipes[d].asked
                      /\ 2 \in r2.pipes[d].asked <=> 2 \in r.pipes[d].asked
    OBVIOUS
  <2> DEFINE a == r.pipes[d].asked
             b == r2.pipes[d].asked
  <2>1. r2.pipes[d].ends = r.pipes[d].ends /\ (b = a \cup {1} \/ b = a) BY DEF Asked
  <2> HIDE DEF a, b
  <2>2. a \subseteq b /\ (2 \in b <=> 2 \in a) BY <2>1
  <2> QED BY <2>1, <2>2 DEF a, b
<1>4. Held(r2, H)
  <2>1. \A p \in Actors : r2.own[p].pipes = r.own[p].pipes BY <1>1 DEF SameAcks
  <2> QED BY <1>1, <1>3, <2>1, KeepHeld
<1>5. EndsOK(r2)
  <2>1. r2.own = r.own BY DEF OnlyPipes
  <2> QED BY <1>2, <1>3, <2>1 DEF EndsOK
<1> QED BY <1>1, <1>2, <1>4, <1>5, QuietStep

\* The session's end of its pipe is deleted, and the session is not waiting for that: the
\* socket's end went first.
LEMMA SessionEndStep ==
  ASSUME NEW r, Good(r, {}), NEW c \in Objects, NEW r2, OnlyPipes(r, r2), Ended(r, r2, c, 2),
         2 \in r.pipes[c].ends, ~r.own[c].pending,
         2 \in r.pipes[c].asked \/ 1 \notin r.pipes[c].ends
  PROVE  Good(r2, {}) /\ (\A p \in Actors : Waits(r, p) => Waits(r2, p)) /\ Beside(r, r2)
<1> DEFINE H == {}
<1>0. Good(r, H) OBVIOUS
<1> HIDE DEF H
<1>1. /\ Frame(r, H, r2) /\ Alike2(H, H) /\ Ready(r2, H) /\ r2 \in States /\ ~r2.failed
      /\ \A p \in Actors : /\ SameStage(r.own[p], r2.own[p]) /\ SameLink(r.own[p], r2.own[p])
                           /\ SameAcks(r.own[p], r2.own[p]) /\ SameCounts(r.own[p], r2.own[p])
      /\ \A p \in Actors : Cnt(r2, H, p) = Cnt(r, H, p)
      /\ Beside(r, r2)
  BY <1>0, PipesFrame
<1>2. H \in SUBSET Commands /\ IsFiniteSet(H) /\ EndsOK(r) BY <1>0 DEF Good
<1>3. \A d \in Objects : /\ 1 \in r2.pipes[d].ends <=> 1 \in r.pipes[d].ends
                         /\ d # c => r2.pipes[d].ends = r.pipes[d].ends
                         /\ r2.pipes[d].asked = r.pipes[d].asked
                         /\ r2.pipes[d].ends \subseteq r.pipes[d].ends
  <2> SUFFICES ASSUME NEW d \in Objects
               PROVE  /\ 1 \in r2.pipes[d].ends <=> 1 \in r.pipes[d].ends
                      /\ d # c => r2.pipes[d].ends = r.pipes[d].ends
                      /\ r2.pipes[d].asked = r.pipes[d].asked
                      /\ r2.pipes[d].ends \subseteq r.pipes[d].ends
    OBVIOUS
  <2> DEFINE a == r.pipes[d].ends
             b == r2.pipes[d].ends
  <2>1. /\ r2.pipes[d].asked = r.pipes[d].asked /\ (b = a \/ b = a \ {2})
        /\ d # c => r2.pipes[d].ends = r.pipes[d].ends
    BY DEF Ended
  <2> HIDE DEF a, b
  <2>2. b \subseteq a /\ (1 \in b <=> 1 \in a) BY <2>1
  <2> QED BY <2>1, <2>2 DEF a, b
<1>4. Held(r2, H)
  <2>1. \A p \in Actors : r2.own[p].pipes = r.own[p].pipes BY <1>1 DEF SameAcks
  <2> QED BY <1>0, <1>1, <1>3, <2>1, KeepHeld
<1>5. EndsOK(r2)
  <2>1. r2.own = r.own BY DEF OnlyPipes
  <2>2. 1 \notin r2.pipes[c].ends /\ 2 \notin r2.pipes[c].ends BY <1>2, <1>3 DEF EndsOK, Ended
  <2>3. \A d \in Objects : r2.own[d].pending <=> 2 \in r2.pipes[d].ends /\ 2 \in r2.pipes[d].asked
    BY <1>2, <1>3, <2>1, <2>2 DEF EndsOK
  <2> QED BY <1>2, <1>3, <2>1, <2>2, <2>3 DEF EndsOK
<1> QED BY <1>0, <1>1, <1>2, <1>4, <1>5, QuietStep DEF H
-----------------------------------------------------------------------------
(* An object begins to terminate. *)

\* What pipe_t::terminate by one end means to the other.
LEMMA AskedFacts ==
  ASSUME NEW r, NEW r2, NEW C, NEW e \in {1, 2}, NEW f \in {1, 2}, f # e, Asked(r, r2, C, e)
  PROVE  \A d \in Objects : /\ r2.pipes[d].ends = r.pipes[d].ends
                            /\ f \in r2.pipes[d].asked <=> f \in r.pipes[d].asked
                            /\ e \in r.pipes[d].asked => e \in r2.pipes[d].asked
                            /\ d \in C /\ e \in r.pipes[d].ends => e \in r2.pipes[d].asked
<1> SUFFICES ASSUME NEW d \in Objects
             PROVE  /\ r2.pipes[d].ends = r.pipes[d].ends
                    /\ f \in r2.pipes[d].asked <=> f \in r.pipes[d].asked
                    /\ e \in r.pipes[d].asked => e \in r2.pipes[d].asked
                    /\ d \in C /\ e \in r.pipes[d].ends => e \in r2.pipes[d].asked
  OBVIOUS
<1> DEFINE a == r.pipes[d].asked
           b == r2.pipes[d].asked
           k == d \in C /\ e \in r.pipes[d].ends
<1>1. r2.pipes[d].ends = r.pipes[d].ends /\ b = IF k THEN a \cup {e} ELSE a BY DEF Asked
<1> HIDE DEF a, b, k
<1>2. (f \in b <=> f \in a) /\ (e \in a => e \in b) /\ (k => e \in b) BY <1>1
<1> QED BY <1>1, <1>2 DEF a, b, k

\* What the deletion of one end of a pipe means to the other.
LEMMA EndedFacts ==
  ASSUME NEW r, NEW r2, NEW c \in Objects, NEW e \in {1, 2}, NEW f \in {1, 2}, f # e,
         Ended(r, r2, c, e)
  PROVE  /\ \A d \in Objects : /\ r2.pipes[d].asked = r.pipes[d].asked
                               /\ f \in r2.pipes[d].ends <=> f \in r.pipes[d].ends
                               /\ e \in r2.pipes[d].ends <=> e \in r.pipes[d].ends /\ d # c
                               /\ d # c => r2.pipes[d].ends = r.pipes[d].ends
                               /\ r.pipes[d].ends = {} => r2.pipes[d].ends = {}
<1> SUFFICES ASSUME NEW d \in Objects
             PROVE  /\ r2.pipes[d].asked = r.pipes[d].asked
                    /\ f \in r2.pipes[d].ends <=> f \in r.pipes[d].ends
                    /\ e \in r2.pipes[d].ends <=> e \in r.pipes[d].ends /\ d # c
                    /\ d # c => r2.pipes[d].ends = r.pipes[d].ends
                    /\ r.pipes[d].ends = {} => r2.pipes[d].ends = {}
  OBVIOUS
<1> DEFINE a == r.pipes[d].ends
           b == r2.pipes[d].ends
           k == d = c
<1>1. r2.pipes[d].asked = r.pipes[d].asked /\ b = IF k THEN a \ {e} ELSE a BY DEF Ended
<1> HIDE DEF a, b, k
<1>2. (f \in b <=> f \in a) /\ (e \in b <=> e \in a /\ ~k) /\ (~k => b = a) /\ (a = {} => b = {})
  BY <1>1
<1> QED BY <1>1, <1>2 DEF a, b, k

\* own_t::process_term: the ends of the sockets stay where they are.
LEMMA TermHeld ==
  ASSUME NEW r, NEW H, Good(r, H), NEW o \in Actors, Live(r, o), NEW r2, NEW y,
         H = {} \/ (o \in Objects /\ H = {Term(o)}),
         EditToo(r, r2, o, y), Terminating(r.own[o], y, o),
         \A d \in Objects : 1 \in r2.pipes[d].ends <=> 1 \in r.pipes[d].ends
  PROVE  Held(r2, Terms(r.own[o].owned))
<1> DEFINE H2 == Terms(r.own[o].owned)
<1>1. /\ r \in States /\ Kinds(r) /\ Objects \subseteq Actors BY DEF Good, Actors
<1>2. /\ r2 \in States /\ r2.own[o] = y /\ \A p \in Actors : p # o => r2.own[p] = r.own[p]
  BY DEF EditToo
<1>3. KindOK(o, y) /\ SameId(r.own[o], y)
  BY <1>1, OwnershipAssumption DEF KindOK, Kinds, Terminating, SameId
<1>4. Frame(r, H, r2) BY <1>3, EditTooFrame
<1>5. \A p \in Actors : r2.own[p].pipes = r.own[p].pipes BY <1>2 DEF Terminating
<1>6. r.own[o].owned \in SUBSET Objects BY <1>1 DEF States, Object
<1>7. \A m \in H2 : \E c \in Objects : m = Term(c) BY <1>6 DEF Terms
<1>8. \A m \in H : \E c \in Objects : m = Term(c) OBVIOUS
<1>9. \A p \in Actors, d \in Objects : \A c \in Objects : Term(c) # Binds(p, d)
  BY <1>1, Vocabulary
<1>10. \A p \in Actors, d \in Objects : Binds(p, d) \in H2 <=> Binds(p, d) \in H
  BY <1>7, <1>8, <1>9
<1> HIDE DEF H2
<1>11. Held(r2, H2) BY <1>4, <1>5, <1>10, KeepHeld
<1> QED BY <1>11 DEF H2

\* own_t::process_term of a listener, of a connecter, or of a session without a pipe.
LEMMA ObjectTerm ==
  ASSUME NEW r, NEW o \in Objects, Good(r, {Term(o)}), Busy(r), 2 \notin r.pipes[o].ends,
         NEW r2, NEW y, EditToo(r, r2, o, y), Terminating(r.own[o], y, o), r2.pipes = r.pipes
  PROVE  /\ Good(r2, Terms(r.own[o].owned)) /\ \A p \in Actors \ {o} : Waits(r2, p)
         /\ Beside(r, r2) /\ Live(r, o) /\ ~r.own[o].terminating
<1> DEFINE H == {Term(o)}
           x == r.own[o]
<1>0. Good(r, H) /\ Term(o) \in H OBVIOUS
<1> HIDE DEF H
<1>1. /\ r \in States /\ Kinds(r) /\ Ready(r, H) /\ Stages(r, H) /\ EndsOK(r) /\ Owners(r)
      /\ Objects \subseteq Actors /\ Sockets \subseteq Actors /\ o \in Actors /\ IsFiniteSet(H)
  BY <1>0 DEF Good, Actors
<1>2. Live(r, o) /\ x.owner \in Actors
  <2>1. Live(r, o) BY <1>0, <1>1, VocabularyTypes DEF Ready, Proper
  <2> QED BY <1>1, <2>1 DEF Owners, Kinds, Actors, Live
<1>3. /\ r2 \in States /\ r2.own[o] = y /\ \A p \in Actors : p # o => r2.own[p] = r.own[p]
  BY DEF EditToo
<1>4. ~x.terminating /\ ~x.pending
  <2>1. Num(r, H, Owns(x.owner, o)) + Bit(o \in r.own[x.owner].owned)
           + Num(r, H, Term(o)) + Bit(x.pending) + Bit(x.terminating) = 1
    BY <1>1, <1>2 DEF Stages
  <2>2. Naturals(r, H) BY <1>1, AllNaturals
  <2>3. Num(r, H, Owns(x.owner, o)) \in Nat /\ Num(r, H, Term(o)) \in Nat
    BY <1>2, <2>2 DEF Naturals
  <2>4. Num(r, H, Term(o)) > 0 BY <1>0, <1>1, NumNat, VocabularyTypes
  <2> QED BY <2>1, <2>3, <2>4 DEF Bit
<1>5. EndsOK(r2)
  <2>1. \A d \in Objects : /\ r2.own[d].kind = r.own[d].kind
                           /\ d # o => /\ r2.own[d].terminating = r.own[d].terminating
                                       /\ r2.own[d].pending = r.own[d].pending
    BY <1>1, <1>3 DEF Terminating, SameId
  <2>2. ~r2.own[o].pending /\ r2.own[o].terminating BY <1>3 DEF Terminating
  <2>3. \A s \in Sockets : r2.own[s] = r.own[s] BY <1>1, <1>3, OwnershipAssumption
  <2> QED BY <1>1, <1>4, <2>1, <2>2, <2>3 DEF EndsOK
<1>6. Held(r2, Terms(x.owned)) BY <1>0, <1>1, <1>2, TermHeld DEF H
<1>7. ~x.reaping BY <1>1 DEF Kinds
<1> QED BY <1>0, <1>1, <1>2, <1>4, <1>5, <1>6, <1>7, TermStep DEF H

\* The pipe that the session waited for is gone: session_base_t::proceed_with_term.
LEMMA PendingTerm ==
  ASSUME NEW r, NEW o \in Objects, Good(r, {}), Busy(r), r.own[o].pending,
         NEW r2, NEW y, EditToo(r, r2, o, y), Terminating(r.own[o], y, o), Ended(r, r2, o, 2)
  PROVE  /\ Good(r2, Terms(r.own[o].owned)) /\ \A p \in Actors \ {o} : Waits(r2, p)
         /\ Beside(r, r2) /\ Live(r, o) /\ ~r.own[o].terminating
<1> DEFINE H == {}
           x == r.own[o]
<1>0. Good(r, H) OBVIOUS
<1> HIDE DEF H
<1>1. /\ r \in States /\ Kinds(r) /\ Stages(r, H) /\ EndsOK(r) /\ Owners(r)
      /\ Objects \subseteq Actors /\ Sockets \subseteq Actors /\ o \in Actors /\ IsFiniteSet(H)
  BY <1>0 DEF Good, Actors
<1>2. Live(r, o) /\ x.kind = "session" /\ ~x.terminating BY <1>1 DEF EndsOK, Live
<1>3. /\ r2 \in States /\ r2.own[o] = y /\ \A p \in Actors : p # o => r2.own[p] = r.own[p]
  BY DEF EditToo
<1>4. \A d \in Objects : 1 \in r2.pipes[d].ends <=> 1 \in r.pipes[d].ends BY EndedFacts
<1>5. EndsOK(r2)
  <2>1. \A d \in Objects : /\ r2.own[d].kind = r.own[d].kind
                           /\ d # o => /\ r2.own[d].terminating = r.own[d].terminating
                                       /\ r2.own[d].pending = r.own[d].pending
                                       /\ r2.pipes[d].ends = r.pipes[d].ends
                           /\ r2.pipes[d].asked = r.pipes[d].asked
    BY <1>1, <1>3 DEF Terminating, SameId, Ended
  <2>2. ~r2.own[o].pending /\ r2.own[o].terminating BY <1>3 DEF Terminating
  <2>3. \A s \in Sockets : r2.own[s] = r.own[s] BY <1>1, <1>3, OwnershipAssumption
  <2>4. 2 \notin r2.pipes[o].ends /\ r2.own[o].kind = "session" BY <1>2, <2>1 DEF Ended
  <2> QED BY <1>1, <2>1, <2>2, <2>3, <2>4 DEF EndsOK
<1>6. Held(r2, Terms(x.owned)) BY <1>0, <1>1, <1>2, <1>4, TermHeld DEF H
<1>7. ~x.reaping BY <1>1 DEF Kinds
<1> QED BY <1>0, <1>1, <1>2, <1>5, <1>6, <1>7, TermStep DEF H

\* socket_base_t::process_term, called by the reaper: the pipes are asked to terminate.
LEMMA SocketTerm ==
  ASSUME NEW r, NEW o \in Sockets, Good(r, {}), Busy(r), Live(r, o), ~r.own[o].reaping,
         NEW r2, NEW y, EditToo(r, r2, o, y), Terminating(r.own[o], y, o),
         Asked(r, r2, r.own[o].pipes, 1)
  PROVE  /\ Good(r2, Terms(r.own[o].owned)) /\ \A p \in Actors \ {o} : Waits(r2, p)
         /\ ~r.own[o].terminating
<1> DEFINE H == {}
           x == r.own[o]
<1>0. Good(r, H) OBVIOUS
<1> HIDE DEF H
<1>1. /\ r \in States /\ Kinds(r) /\ EndsOK(r) /\ Held(r, H)
      /\ Objects \subseteq Actors /\ Sockets \subseteq Actors /\ o \in Actors
  BY <1>0 DEF Good, Actors
<1>2. ~x.terminating BY <1>1 DEF Kinds
<1>3. /\ r2 \in States /\ r2.own[o] = y /\ \A p \in Actors : p # o => r2.own[p] = r.own[p]
  BY DEF EditToo
<1>4. \A d \in Objects : /\ r2.pipes[d].ends = r.pipes[d].ends
                         /\ 2 \in r2.pipes[d].asked <=> 2 \in r.pipes[d].asked
                         /\ 1 \in r.pipes[d].asked => 1 \in r2.pipes[d].asked
                         /\ d \in x.pipes /\ 1 \in r.pipes[d].ends => 1 \in r2.pipes[d].asked
  BY AskedFacts
<1>5. EndsOK(r2)
  <2>1. \A d \in Objects : r2.own[d] = r.own[d] BY <1>1, <1>3, OwnershipAssumption
  <2>2. \A d \in x.pipes : d \in Objects /\ 1 \in r.pipes[d].ends
    <3>1. x.pipes \in SUBSET Objects BY <1>1 DEF States, Object
    <3> QED BY <1>1, <3>1 DEF Held, Holds
  <2>3. \A s \in Sockets : r2.own[s].pipes = r.own[s].pipes /\ (s # o => r2.own[s] = r.own[s])
    BY <1>1, <1>3 DEF Terminating
  <2>4. \A d \in Objects, s \in Sockets :
          r2.own[s].reaping /\ d \in r2.own[s].pipes => 1 \in r2.pipes[d].asked
    BY <1>1, <1>4, <2>2, <2>3 DEF EndsOK
  <2> QED BY <1>1, <1>4, <2>1, <2>4 DEF EndsOK
<1>6. Held(r2, Terms(x.owned)) BY <1>0, <1>1, <1>4, TermHeld DEF H
<1> QED BY <1>0, <1>1, <1>2, <1>5, <1>6, TermStep DEF H
-----------------------------------------------------------------------------
(* The sockets and their ends of the pipes. *)

\* One object changes, which is not destroyed; what it owns does not.
LEMMA LoneBalanced ==
  ASSUME NEW r, NEW H, Good(r, H), NEW r2, NEW H2, Frame(r, H, r2), NEW o \in Actors, Live(r, o),
         NEW y, EditToo(r, r2, o, y), y.owned = r.own[o].owned, ~y.destroyed,
         \A p \in Actors : Ack(p) \in H2 <=> Ack(p) \in H,
         \A p \in Actors, d \in Objects : Owns(p, d) \in H2 <=> Owns(p, d) \in H,
         \A p \in Actors : p # o => Cnt(r2, H2, p) = Cnt(r, H, p),
         y.sent_seqnum = y.processed_seqnum + Cnt(r2, H2, o),
         y.term_acks = r.own[o].term_acks - Left(r.own[o]) + Left(y)
  PROVE  Balanced(r2, H2)
<1>1. /\ r2 \in States /\ r2.own[o] = y /\ \A p \in Actors : p # o => r2.own[p] = r.own[p]
  BY DEF EditToo
<1>2. Moved(r, H, r2, H2) /\ Naturals(r, H) /\ Balanced(r, H) /\ r \in States BY DEF Frame, Good
<1>3. /\ \A p \in Actors : Num(r2, H2, Ack(p)) = Num(r, H, Ack(p))
      /\ \A p \in Actors, d \in Objects : Num(r2, H2, Owns(p, d)) = Num(r, H, Owns(p, d))
  BY <1>2 DEF Moved, Naturals, Bit
<1>4. \A p \in Actors : Told(r2, H2, p) = Told(r, H, p)
  <2>1. \A q, p : Child(r2, q, p) <=> Child(r, q, p) BY DEF Frame
  <2>2. \A p \in Actors : r2.own[p].owned = r.own[p].owned BY <1>1
  <2> QED BY <1>3, <2>1, <2>2 DEF Told
<1>5. ASSUME NEW p \in Actors, Live(r2, p), p # o
      PROVE  /\ r2.own[p].sent_seqnum = r2.own[p].processed_seqnum + Cnt(r2, H2, p)
             /\ r2.own[p].term_acks
                  = Num(r2, H2, Ack(p)) + Cardinality(Told(r2, H2, p)) + Left(r2.own[p])
             /\ r2.own[p].destroyed =>
                  /\ r2.own[p].terminating /\ r2.own[p].sent_seqnum = r2.own[p].processed_seqnum
                  /\ r2.own[p].term_acks = 0
  <2>1. r2.own[p] = r.own[p] /\ Live(r, p) BY <1>1, <1>5 DEF Live
  <2> QED BY <1>2, <1>3, <1>4, <1>5, <2>1 DEF Balanced
<1>6. y.term_acks = Num(r2, H2, Ack(o)) + Cardinality(Told(r2, H2, o)) + Left(y)
  <2> DEFINE a == Num(r, H, Ack(o))
             b == Cardinality(Told(r, H, o))
             d == Left(r.own[o])
             e == Left(y)
             n == r.own[o].term_acks
  <2>1. n = a + b + d BY <1>2 DEF Balanced
  <2>2. IsFiniteSet(Told(r, H, o)) BY OwnershipAssumption, FS_Subset DEF Told
  <2>3. b \in Nat BY <2>2, FS_CardinalityType
  <2>4. Left(r2.own[o]) \in Nat BY <1>1, LeftNat
  <2>5. a \in Nat /\ d \in Nat /\ e \in Nat BY <1>1, <1>2, <2>4, LeftNat DEF Naturals
  <2>6. y.term_acks = n - d + e OBVIOUS
  <2>7. Num(r2, H2, Ack(o)) = a /\ Told(r2, H2, o) = Told(r, H, o) BY <1>3, <1>4
  <2> HIDE DEF a, b, d, e, n
  <2>8. y.term_acks = a + b + e BY <2>1, <2>3, <2>5, <2>6
  <2> QED BY <2>7, <2>8 DEF a, b, e
<1> QED BY <1>1, <1>5, <1>6 DEF Balanced

\* socket_base_t::pipe_terminated: one pipe less, which is waited for by a socket that
\* terminates.
Unpiped(x, y, c) ==
    /\ SameId(x, y) /\ SameStage(x, y) /\ SameLink(x, y) /\ SameCounts(x, y) /\ SameEnd(x, y)
    /\ y.reaping = x.reaping /\ y.pipes = x.pipes \ {c}
    /\ y.term_acks = IF x.reaping THEN x.term_acks - 1 ELSE x.term_acks
\* The socket's end of a pipe is deleted.
LEMMA SocketEndStep ==
  ASSUME NEW r, Good(r, {}), NEW s \in Sockets, NEW c \in Objects, c \in r.own[s].pipes,
         NEW r2, NEW y, EditToo(r, r2, s, y), Unpiped(r.own[s], y, c), Ended(r, r2, c, 1)
  PROVE  /\ Good(r2, {}) /\ (\A p \in Actors \ {s} : Waits(r, p) => Waits(r2, p)) /\ Beside(r, r2)
         /\ Live(r2, s) /\ ~r2.own[s].destroyed /\ (r.own[s].reaping => r.own[s].term_acks > 0)
<1> DEFINE H == {}
           x == r.own[s]
<1>0. Good(r, H) OBVIOUS
<1> HIDE DEF H
<1>1. /\ r \in States /\ ~r.failed /\ Kinds(r) /\ Balanced(r, H) /\ Held(r, H) /\ EndsOK(r)
      /\ Objects \subseteq Actors /\ Sockets \subseteq Actors /\ IsFiniteSet(H)
      /\ H \in SUBSET Commands /\ s \in Actors /\ Ready(r, H)
  BY <1>0 DEF Good, Actors
<1>2. Live(r, s) BY <1>1 DEF Kinds, Live, Unborn, Deleted
<1>3. /\ r2 \in States /\ r2.own[s] = y /\ \A p \in Actors : p # s => r2.own[p] = r.own[p]
      /\ r2.mail = r.mail /\ r2.failed = r.failed
  BY DEF EditToo
<1>4. KindOK(s, y) /\ SameId(x, y)
  BY <1>1, <1>2, OwnershipAssumption DEF KindOK, Kinds, Unpiped, SameId, SameStage, SameEnd
<1>5. Frame(r, H, r2) BY <1>0, <1>1, <1>2, <1>4, EditTooFrame
<1>6. \A p \in Actors : /\ SameStage(r.own[p], r2.own[p]) /\ SameLink(r.own[p], r2.own[p])
                        /\ r2.own[p].reaping = r.own[p].reaping
                        /\ r2.own[p].terminating = r.own[p].terminating
                        /\ r2.own[p].pending = r.own[p].pending
                        /\ r2.own[p].pipes = IF p = s THEN r.own[p].pipes \ {c} ELSE r.own[p].pipes
  BY <1>3 DEF Unpiped, SameStage, SameLink
<1>7. Cardinality(x.pipes) \in Nat /\ Cardinality(x.pipes) > 0
      /\ Cardinality(y.pipes) = Cardinality(x.pipes) - 1
  <2>1. IsFiniteSet(x.pipes) /\ Cardinality(x.pipes) \in Nat BY <1>1, LeftNat
  <2>2. Cardinality(x.pipes \ {c}) = Cardinality(x.pipes) - 1 BY <2>1, FS_RemoveElement
  <2>3. Cardinality(x.pipes) # 0 BY <2>1, FS_EmptySet
  <2> QED BY <2>1, <2>2, <2>3 DEF Unpiped
<1>8. (x.reaping => x.term_acks > 0) /\ ~x.destroyed
  <2>1. CASE x.reaping
    <3> DEFINE a == Num(r, H, Ack(s))
               b == Cardinality(Told(r, H, s))
    <3>1. x.term_acks = a + b + Cardinality(x.pipes) BY <1>1, <1>2, <2>1 DEF Balanced, Left
    <3>2. Naturals(r, H) BY <1>1, AllNaturals
    <3>3. IsFiniteSet(Told(r, H, s)) BY OwnershipAssumption, FS_Subset DEF Told
    <3>4. a \in Nat /\ b \in Nat BY <1>1, <3>2, <3>3, FS_CardinalityType DEF Naturals
    <3> HIDE DEF a, b
    <3>5. x.term_acks > 0 BY <1>7, <3>1, <3>4
    <3> QED BY <1>1, <1>2, <3>5 DEF Balanced
  <2>2. CASE ~x.reaping BY <1>1, <1>2, <2>2 DEF Balanced, Kinds
  <2> QED BY <2>1, <2>2
<1>9. \A p \in Actors : Cnt(r2, H, p) = Cnt(r, H, p) BY <1>5 DEF Frame
<1>10. Balanced(r2, H)
  <2>1. y.term_acks = x.term_acks - Left(x) + Left(y)
    <3>1. x.term_acks \in Nat BY <1>1 DEF States, Object
    <3> QED BY <1>7, <3>1 DEF Unpiped, Left
  <2>2. y.sent_seqnum = y.processed_seqnum + Cnt(r2, H, s)
    BY <1>1, <1>2, <1>9 DEF Balanced, Unpiped, SameCounts
  <2>3. y.owned = x.owned /\ ~y.destroyed BY <1>8 DEF Unpiped, SameStage, SameEnd
  <2> QED BY <1>0, <1>1, <1>2, <1>5, <1>9, <2>1, <2>2, <2>3, LoneBalanced
<1>11. Stages(r2, H) /\ Owned(r2) BY <1>0, <1>5, <1>6, KeepStages
<1>12. Engines(r2, H) BY <1>0, <1>5, <1>6, KeepEngines
<1>13. Rooms(r2)
  <2>1. \A p \in Actors : r.own[p].plugged => r2.own[p].plugged BY <1>6 DEF SameLink
  <2> QED BY <1>0, <1>5, <2>1, KeepRooms
<1>14. \A d \in Objects : /\ r2.pipes[d].asked = r.pipes[d].asked
                          /\ 2 \in r2.pipes[d].ends <=> 2 \in r.pipes[d].ends
                          /\ 1 \in r2.pipes[d].ends <=> 1 \in r.pipes[d].ends /\ d # c
                          /\ r.pipes[d].ends = {} => r2.pipes[d].ends = {}
  BY EndedFacts
<1>15. EndsOK(r2)
  <2>1. \A d \in Objects : r2.own[d] = r.own[d] BY <1>1, <1>3, OwnershipAssumption
  <2>2. \A u \in Sockets : r2.own[u].reaping = r.own[u].reaping
                           /\ r2.own[u].pipes \subseteq r.own[u].pipes
    BY <1>1, <1>6
  <2> QED BY <1>1, <1>14, <2>1, <2>2 DEF EndsOK
<1>16. Held(r2, H)
  <2>1. Moved(r, H, r2, H) /\ Naturals(r, H) BY <1>5 DEF Frame
  <2>2. \A u \in Sockets, d \in Objects : Num(r2, H, Binds(u, d)) = Num(r, H, Binds(u, d))
                                          /\ Num(r, H, Binds(u, d)) \in Nat
    BY <1>1, <2>1 DEF Moved, Naturals, Bit
  <2>3. \A u \in Sockets, d \in Objects : d # c => (Holds(r2, H, u, d) <=> Holds(r, H, u, d))
    BY <1>1, <1>6, <2>2 DEF Holds
  <2>4. \A u \in Sockets : ~Holds(r2, H, u, c)
    <3>1. Holds(r, H, s, c) BY DEF Holds
    <3>2. \A u \in Sockets : Holds(r, H, u, c) => u = s BY <1>1, <3>1 DEF Held
    <3>3. Num(r, H, Binds(s, c)) = 0
      <4>1. Num(r, H, Binds(s, c)) + Bit(c \in r.own[s].pipes) <= 1 BY <1>1 DEF Held
      <4> QED BY <2>2, <4>1 DEF Bit
    <3>4. c \notin r2.own[s].pipes /\ \A u \in Sockets : u # s => r2.own[u].pipes = r.own[u].pipes
      BY <1>1, <1>6
    <3>5. ~Holds(r2, H, s, c) BY <2>2, <3>3, <3>4 DEF Holds
    <3>6. \A u \in Sockets : u # s => ~Holds(r2, H, u, c) BY <2>2, <3>2, <3>4 DEF Holds
    <3> QED BY <3>5, <3>6
  <2>5. \A u \in Sockets, d \in Objects : Num(r2, H, Binds(u, d)) + Bit(d \in r2.own[u].pipes) <= 1
    <3> SUFFICES ASSUME NEW u \in Sockets, NEW d \in Objects
                 PROVE  Num(r2, H, Binds(u, d)) + Bit(d \in r2.own[u].pipes) <= 1
      OBVIOUS
    <3>1. Num(r, H, Binds(u, d)) + Bit(d \in r.own[u].pipes) <= 1 BY <1>1 DEF Held
    <3>2. d \in r2.own[u].pipes => d \in r.own[u].pipes BY <1>1, <1>6
    <3> QED BY <2>2, <3>1, <3>2 DEF Bit
  <2>6. \A d \in Objects : d # c => (1 \in r2.pipes[d].ends <=> 1 \in r.pipes[d].ends) BY <1>14
  <2>7. 1 \notin r2.pipes[c].ends BY <1>14
  <2> QED BY <1>1, <2>3, <2>4, <2>5, <2>6, <2>7 DEF Held
<1>17. Ready(r2, H) BY DEF Ready, H
<1>18. Good(r2, H)
  BY <1>1, <1>3, <1>5, <1>10, <1>11, <1>12, <1>13, <1>15, <1>16, <1>17 DEF Good, Frame
<1>19. \A p \in Actors \ {s} : Waits(r, p) => Waits(r2, p) BY <1>3 DEF Waits
<1>20. Beside(r, r2) BY <1>1, <1>3, <1>5, <1>6 DEF Beside, Frame, SameId
<1>21. Live(r2, s) /\ ~r2.own[s].destroyed BY <1>1, <1>2, <1>3, <1>5, <1>8 DEF Frame, Unpiped, SameEnd
<1> QED BY <1>8, <1>18, <1>19, <1>20, <1>21 DEF H

\* socket_base_t::attach_pipe: one pipe more, which a socket that terminates terminates at
\* once.
Piped(x, y, c) ==
    /\ SameId(x, y) /\ SameStage(x, y) /\ SameLink(x, y) /\ SameCounts(x, y) /\ SameEnd(x, y)
    /\ y.reaping = x.reaping /\ y.pipes = x.pipes \cup {c}
    /\ y.term_acks = IF x.reaping THEN x.term_acks + 1 ELSE x.term_acks
\* socket_base_t::process_bind.
LEMMA BindStep ==
  ASSUME NEW r, NEW s \in Sockets, NEW c \in Objects, Good(r, {Binds(s, c)}),
         NEW r2, NEW y, EditToo(r, r2, s, y), Piped(r.own[s], y, c),
         Asked(r, r2, IF r.own[s].reaping THEN {c} ELSE {}, 1)
  PROVE  /\ Good(r2, {Seqnum(s)}) /\ (\A p \in Actors \ {s} : Waits(r, p) => Waits(r2, p))
         /\ Beside(r, r2)
<1> DEFINE H == {Binds(s, c)}
           H2 == {Seqnum(s)}
           x == r.own[s]
<1>0. Good(r, H) /\ Binds(s, c) \in H OBVIOUS
<1>1. /\ r \in States /\ ~r.failed /\ Kinds(r) /\ Balanced(r, H) /\ Held(r, H) /\ EndsOK(r)
      /\ Objects \subseteq Actors /\ Sockets \subseteq Actors /\ IsFiniteSet(H)
      /\ s \in Actors /\ Ready(r, H)
  BY <1>0 DEF Good, Actors
<1>2. Live(r, s) BY <1>0, <1>1, VocabularyTypes DEF Ready, Proper
<1>3. /\ r2 \in States /\ r2.own[s] = y /\ \A p \in Actors : p # s => r2.own[p] = r.own[p]
      /\ r2.mail = r.mail /\ r2.failed = r.failed
  BY DEF EditToo
<1>4. KindOK(s, y) /\ SameId(x, y)
  BY <1>1, <1>2, OwnershipAssumption DEF KindOK, Kinds, Piped, SameId, SameStage, SameEnd
<1>5. Frame(r, H, r2) BY <1>0, <1>1, <1>2, <1>4, EditTooFrame
<1>6. \A p \in Actors : /\ SameStage(r.own[p], r2.own[p]) /\ SameLink(r.own[p], r2.own[p])
                        /\ r2.own[p].reaping = r.own[p].reaping
                        /\ r2.own[p].terminating = r.own[p].terminating
                        /\ r2.own[p].pipes = IF p = s THEN r.own[p].pipes \cup {c} ELSE r.own[p].pipes
  BY <1>3 DEF Piped, SameStage, SameLink
<1>7. /\ \A d \in Objects : /\ Plug(d) \notin H /\ Plug(d) \notin H2
                            /\ Term(d) \notin H /\ Term(d) \notin H2
                            /\ Attach(d) \notin H /\ Attach(d) \notin H2
      /\ \A p \in Actors : Ack(p) \notin H /\ Ack(p) \notin H2
      /\ \A p \in Actors, d \in Objects : /\ Owns(p, d) \notin H /\ Owns(p, d) \notin H2
                                          /\ Binds(p, d) \in H <=> p = s /\ d = c
                                          /\ Binds(p, d) \notin H2
  BY <1>1, Vocabulary
<1>8. \A p \in Actors : Cnt(r2, H2, p) = Cnt(r, H, p)
  <2> SUFFICES ASSUME NEW p \in Actors PROVE Cnt(r2, H2, p) = Cnt(r, H, p) OBVIOUS
  <2>1. Cnt(r2, H2, p) = Cnt(r, H2, p) BY <1>5 DEF Frame
  <2>2. Cnt(r, H2, p) = Cnt(r, {}, p) + Bit(Seqnum(s) \in Counted(p)) BY <1>1, HandOne
  <2>3. Cnt(r, H, p) = Cnt(r, {}, p) + Bit(Binds(s, c) \in Counted(p)) BY <1>1, HandOne
  <2>4. Seqnum(s) \in Counted(p) <=> Binds(s, c) \in Counted(p) BY <1>1, VocabularyCounted
  <2> QED BY <2>1, <2>2, <2>3, <2>4
<1>9. Ready(r2, H2) /\ H2 \in SUBSET Commands /\ IsFiniteSet(H2)
  <2>1. Live(r2, s) BY <1>1, <1>2, <1>5 DEF Frame
  <2> QED BY <1>1, <2>1, VocabularyTypes, FS_Singleton DEF Ready
<1>10. Cnt(r, H, s) > 0 BY <1>1, CntNat, VocabularyCounted
<1> HIDE DEF H, H2
<1>11. Moved(r, H, r2, H2) /\ Naturals(r, H) BY <1>5 DEF Frame
<1>12. \A u \in Sockets, d \in Objects :
         /\ Num(r2, H2, Binds(u, d)) = Num(r, H, Binds(u, d)) - Bit(u = s /\ d = c)
         /\ Num(r, H, Binds(u, d)) \in Nat
  BY <1>1, <1>7, <1>11 DEF Moved, Naturals, Bit
<1>13. Num(r, H, Binds(s, c)) = 1 /\ c \notin x.pipes
  <2>1. Num(r, H, Binds(s, c)) > 0 BY <1>0, <1>1, NumNat, VocabularyTypes
  <2>2. Num(r, H, Binds(s, c)) + Bit(c \in x.pipes) <= 1 BY <1>1 DEF Held
  <2> QED BY <1>12, <2>1, <2>2 DEF Bit
<1>14. ~x.destroyed
  <2>1. x.sent_seqnum = x.processed_seqnum + Cnt(r, H, s) /\ x.processed_seqnum \in Nat
    BY <1>1, <1>2 DEF Balanced, States, Object
  <2>2. Cnt(r, H, s) \in Nat BY <1>1, <1>11 DEF Naturals
  <2> QED BY <1>1, <1>2, <1>10, <2>1, <2>2 DEF Balanced
<1>15. Balanced(r2, H2)
  <2>1. y.term_acks = x.term_acks - Left(x) + Left(y)
    <3>1. x.term_acks \in Nat BY <1>1 DEF States, Object
    <3>2. IsFiniteSet(x.pipes) /\ Cardinality(x.pipes) \in Nat BY <1>1, LeftNat
    <3>3. Cardinality(x.pipes \cup {c}) = Cardinality(x.pipes) + 1
      BY <1>13, <3>2, FS_AddElement
    <3> QED BY <3>1, <3>2, <3>3 DEF Piped, Left
  <2>2. y.sent_seqnum = y.processed_seqnum + Cnt(r2, H2, s)
    BY <1>1, <1>2, <1>8 DEF Balanced, Piped, SameCounts
  <2>3. y.owned = x.owned /\ ~y.destroyed BY <1>14 DEF Piped, SameStage, SameEnd
  <2> QED BY <1>0, <1>1, <1>2, <1>5, <1>7, <1>8, <2>1, <2>2, <2>3, LoneBalanced
<1>16. Stages(r2, H2) /\ Owned(r2) BY <1>0, <1>5, <1>6, <1>7, KeepStages
<1>17. Engines(r2, H2) BY <1>0, <1>5, <1>6, <1>7, KeepEngines
<1>18. Rooms(r2)
  <2>1. \A p \in Actors : r.own[p].plugged => r2.own[p].plugged BY <1>6 DEF SameLink
  <2> QED BY <1>0, <1>5, <2>1, KeepRooms
<1>19. \A d \in Objects : /\ r2.pipes[d].ends = r.pipes[d].ends
                          /\ 2 \in r2.pipes[d].asked <=> 2 \in r.pipes[d].asked
                          /\ 1 \in r.pipes[d].asked => 1 \in r2.pipes[d].asked
                          /\ d = c /\ x.reaping /\ 1 \in r.pipes[d].ends => 1 \in r2.pipes[d].asked
  <2> DEFINE C == IF x.reaping THEN {c} ELSE {}
  <2>1. Asked(r, r2, C, 1) OBVIOUS
  <2>2. x.reaping => c \in C OBVIOUS
  <2> HIDE DEF C
  <2> QED BY <2>1, <2>2, AskedFacts
<1>20. EndsOK(r2)
  <2>1. \A d \in Objects : r2.own[d] = r.own[d] BY <1>1, <1>3, OwnershipAssumption
  <2>2. 1 \in r.pipes[c].ends BY <1>1, <1>13 DEF Held, Holds
  <2>3. \A d \in Objects, u \in Sockets :
          r2.own[u].reaping /\ d \in r2.own[u].pipes => 1 \in r2.pipes[d].asked
    <3> SUFFICES ASSUME NEW d \in Objects, NEW u \in Sockets, r2.own[u].reaping,
                        d \in r2.own[u].pipes
                 PROVE  1 \in r2.pipes[d].asked
      OBVIOUS
    <3>1. r.own[u].reaping /\ (d \in r.own[u].pipes \/ (u = s /\ d = c)) BY <1>1, <1>6
    <3>2. CASE d \in r.own[u].pipes BY <1>1, <1>19, <3>1, <3>2 DEF EndsOK
    <3>3. CASE u = s /\ d = c BY <1>19, <2>2, <3>1, <3>3
    <3> QED BY <3>1, <3>2, <3>3
  <2> QED BY <1>1, <1>19, <2>1, <2>3 DEF EndsOK
<1>21. Held(r2, H2)
  <2>1. \A u \in Sockets, d \in Objects :
          /\ Num(r2, H2, Binds(u, d)) + Bit(d \in r2.own[u].pipes)
               = Num(r, H, Binds(u, d)) + Bit(d \in r.own[u].pipes)
          /\ Holds(r2, H2, u, d) <=> Holds(r, H, u, d)
    <3> SUFFICES ASSUME NEW u \in Sockets, NEW d \in Objects
                 PROVE  /\ Num(r2, H2, Binds(u, d)) + Bit(d \in r2.own[u].pipes)
                             = Num(r, H, Binds(u, d)) + Bit(d \in r.own[u].pipes)
                        /\ Holds(r2, H2, u, d) <=> Holds(r, H, u, d)
      OBVIOUS
    <3>1. CASE u = s /\ d = c
      <4>1. Num(r2, H2, Binds(u, d)) = 0 BY <1>12, <1>13, <3>1 DEF Bit
      <4>2. d \in r2.own[u].pipes BY <1>1, <1>6, <3>1
      <4> QED BY <1>13, <3>1, <4>1, <4>2 DEF Bit, Holds
    <3>2. CASE ~(u = s /\ d = c)
      <4>1. Num(r2, H2, Binds(u, d)) = Num(r, H, Binds(u, d)) BY <1>12, <3>2 DEF Bit
      <4>2. d \in r2.own[u].pipes <=> d \in r.own[u].pipes BY <1>1, <1>6, <3>2
      <4> QED BY <4>1, <4>2 DEF Bit, Holds
    <3> QED BY <3>1, <3>2
  <2> QED BY <1>1, <1>19, <2>1 DEF Held
<1>22. Good(r2, H2)
  BY <1>1, <1>3, <1>5, <1>9, <1>15, <1>16, <1>17, <1>18, <1>20, <1>21 DEF Good, Frame
<1>23. \A p \in Actors \ {s} : Waits(r, p) => Waits(r2, p) BY <1>3 DEF Waits
<1>24. Beside(r, r2) BY <1>1, <1>3, <1>5, <1>6 DEF Beside, Frame, SameId
<1> QED BY <1>22, <1>23, <1>24 DEF H2
-----------------------------------------------------------------------------
(* Sessions get engines and pipes. *)

\* A bind or an attach is sent: object_t::send_bind, object_t::send_attach.
LEMMA CountedStep ==
  ASSUME NEW r, NEW H, NEW H2, Good(r, H), NEW o \in Actors, Live(r, o), ~r.own[o].destroyed,
         NEW m \in Commands, m \notin H, H2 = H \cup {m}, m \in Counted(o),
         m.type \in {"attach", "bind"}, Proper(r, m), NEW r2, NEW y, EditToo(r, r2, o, y),
         SentOne(r.own[o], y)
  PROVE  /\ Frame(r, H, r2) /\ Stages(r2, H2) /\ Owned(r2) /\ Balanced(r2, H2) /\ Rooms(r2)
         /\ Ready(r2, H2) /\ H2 \in SUBSET Commands /\ IsFiniteSet(H2)
         /\ \A p \in Actors : SameLink(r.own[p], r2.own[p]) /\ SamePipes(r.own[p], r2.own[p])
         /\ (\A p \in Actors : Waits(r, p) => Waits(r2, p)) /\ Beside(r, r2)
<1> DEFINE x == r.own[o]
<1>1. /\ r \in States /\ ~r.failed /\ Kinds(r) /\ Balanced(r, H) /\ IsFiniteSet(H)
      /\ Objects \subseteq Actors /\ Sockets \subseteq Actors /\ Ready(r, H)
      /\ H \in SUBSET Commands
  BY DEF Good, Actors
<1>3. /\ r2 \in States /\ r2.own[o] = y /\ \A p \in Actors : p # o => r2.own[p] = r.own[p]
      /\ r2.mail = r.mail /\ r2.failed = r.failed
  BY DEF EditToo
<1>4. KindOK(o, y) /\ SameId(x, y)
  BY <1>1, OwnershipAssumption DEF KindOK, Kinds, SentOne, SameId, SamePipes, SameAcks
<1>5. Frame(r, H, r2) BY <1>4, EditTooFrame
<1>6. \A p \in Actors : /\ SameStage(r.own[p], r2.own[p]) /\ SameLink(r.own[p], r2.own[p])
                        /\ SamePipes(r.own[p], r2.own[p]) /\ SameAcks(r.own[p], r2.own[p])
  BY <1>3 DEF SentOne, SameStage, SameLink, SamePipes, SameAcks
<1>7. /\ \A d \in Objects : m # Plug(d) /\ m # Term(d)
      /\ \A p \in Actors : m # Ack(p)
      /\ \A p \in Actors, d \in Objects : m # Owns(p, d)
  BY DEF Plug, Term, Ack, Owns, Cmd
<1>8. /\ \A d \in Objects : (Plug(d) \in H2 <=> Plug(d) \in H) /\ (Term(d) \in H2 <=> Term(d) \in H)
      /\ \A p \in Actors : Ack(p) \in H2 <=> Ack(p) \in H
      /\ \A p \in Actors, d \in Objects : Owns(p, d) \in H2 <=> Owns(p, d) \in H
  BY <1>7
<1>9. H2 \in SUBSET Commands /\ IsFiniteSet(H2) /\ Ready(r2, H2)
  <2>1. IsFiniteSet(H2) BY <1>1, FS_AddElement
  <2>2. \A q \in H : q \in Commands BY <1>1
  <2>3. \A q : Proper(r2, q) <=> Proper(r, q) BY <1>5 DEF Frame
  <2>4. \A p \in Actors : Live(r2, p) <=> Live(r, p) BY <1>5 DEF Frame
  <2>5. Ready(r2, H2) BY <1>1, <2>3, <2>4 DEF Ready
  <2> QED BY <1>1, <2>1, <2>5
<1>10. \A p \in Actors : Cnt(r2, H2, p) = Cnt(r, H, p) + Bit(p = o)
  <2> SUFFICES ASSUME NEW p \in Actors PROVE Cnt(r2, H2, p) = Cnt(r, H, p) + Bit(p = o) OBVIOUS
  <2>1. Cnt(r2, H2, p) = Cnt(r, H2, p) BY <1>5 DEF Frame
  <2>2. Cnt(r, H \cup {m}, p) = Cnt(r, H, p) + Bit(m \in Counted(p)) BY <1>1, HandAdd
  <2>3. m \in Counted(p) <=> p = o BY DEF Counted
  <2> QED BY <2>1, <2>2, <2>3
<1> HIDE DEF x
<1>11. Naturals(r, H) BY <1>5 DEF Frame
<1>12. Balanced(r2, H2)
  <2>1. Cnt(r2, H2, o) = Cnt(r, H, o) + 1 /\ Cnt(r, H, o) \in Nat BY <1>10, <1>11 DEF Bit, Naturals
  <2>2. \A p \in Actors : p # o => Cnt(r2, H2, p) = Cnt(r, H, p)
    <3> SUFFICES ASSUME NEW p \in Actors, p # o PROVE Cnt(r2, H2, p) = Cnt(r, H, p) OBVIOUS
    <3>1. Cnt(r2, H2, p) = Cnt(r, H, p) + 0 BY <1>10 DEF Bit
    <3>2. Cnt(r, H, p) \in Nat BY <1>11 DEF Naturals
    <3> QED BY <3>1, <3>2
  <2>3. x.sent_seqnum = x.processed_seqnum + Cnt(r, H, o) /\ x.processed_seqnum \in Nat
    BY <1>1 DEF Balanced, States, Object, x
  <2>4. y.sent_seqnum = x.sent_seqnum + 1 /\ y.processed_seqnum = x.processed_seqnum
    BY DEF SentOne, x
  <2>5. y.sent_seqnum = y.processed_seqnum + Cnt(r2, H2, o) BY <2>1, <2>3, <2>4
  <2>6. y.term_acks = r.own[o].term_acks - Left(r.own[o]) + Left(y)
    <3>1. r.own[o].term_acks \in Nat /\ Left(r.own[o]) \in Nat BY <1>1, LeftNat DEF States, Object
    <3>2. y.term_acks = r.own[o].term_acks /\ Left(y) = Left(r.own[o])
      BY DEF SentOne, SameAcks, Left
    <3> QED BY <3>1, <3>2
  <2>7. y.owned = r.own[o].owned /\ ~y.destroyed BY DEF SentOne, SameAcks
  <2> QED BY <1>5, <1>8, <2>2, <2>5, <2>6, <2>7, LoneBalanced
<1>13. Stages(r2, H2) /\ Owned(r2) BY <1>5, <1>6, <1>8, KeepStages
<1>14. Rooms(r2)
  <2>1. \A p \in Actors : r.own[p].plugged => r2.own[p].plugged BY <1>6 DEF SameLink
  <2> QED BY <1>5, <2>1, KeepRooms
<1>15. \A p \in Actors : Waits(r, p) => Waits(r2, p)
  <2>1. Waits(r2, o)
    <3>1. Cnt(r, H, o) \in Nat BY <1>11 DEF Naturals
    <3>2. r2.own[o].sent_seqnum # r2.own[o].processed_seqnum
      <4>1. x.sent_seqnum = x.processed_seqnum + Cnt(r, H, o) /\ x.processed_seqnum \in Nat
        BY <1>1 DEF Balanced, States, Object, x
      <4>2. y.sent_seqnum = x.sent_seqnum + 1 /\ y.processed_seqnum = x.processed_seqnum
        BY DEF SentOne, x
      <4> QED BY <1>3, <3>1, <4>1, <4>2
    <3> QED BY <3>2 DEF Waits
  <2> QED BY <1>3, <2>1 DEF Waits
<1>16. Beside(r, r2) BY <1>1, <1>3, <1>5, <1>6 DEF Beside, Frame, SameId, SameAcks
<1> QED BY <1>5, <1>6, <1>9, <1>12, <1>13, <1>14, <1>15, <1>16

\* The socket of a session is not destroyed: the session, or the listener that owns it, is
\* still to go.
LEMMA SocketThere ==
  ASSUME NEW r, NEW H, Good(r, H), NEW c \in Objects, r.own[c].kind = "session"
  PROVE  /\ r.own[c].socket \in Sockets /\ Live(r, r.own[c].socket)
         /\ ~r.own[r.own[c].socket].destroyed
<1> DEFINE s == r.own[c].socket
<1>1. Owners(r) /\ Balanced(r, H) /\ Kinds(r) BY DEF Good
<1>2. s \in Sockets /\ Live(r, s) /\ s \in Actors BY <1>1 DEF Owners, Live, Actors
<1>3. \E d : Child(r, d, s)
  <2>1. CASE r.own[c].owner = s BY <2>1 DEF Child, Live
  <2>2. CASE r.own[c].owner # s
    <3>1. /\ r.own[c].owner \in Objects /\ r.own[r.own[c].owner].kind = "listener"
          /\ r.own[r.own[c].owner].owner = s
      BY <1>1, <2>2 DEF Owners
    <3>2. Child(r, r.own[c].owner, s) BY <3>1 DEF Child, Live
    <3> QED BY <3>2
  <2> QED BY <2>1, <2>2
<1> HIDE DEF s
<1>4. ASSUME r.own[s].destroyed PROVE FALSE
  <2>1. /\ r.own[s].terminating /\ r.own[s].sent_seqnum = r.own[s].processed_seqnum
        /\ r.own[s].term_acks = 0
    BY <1>1, <1>2, <1>4 DEF Balanced
  <2>2. r.own[s].owned = {} BY <1>1, <1>2, <2>1 DEF Kinds
  <2> QED BY <1>2, <1>3, <2>1, <2>2, Childless
<1> QED BY <1>2, <1>4 DEF s

\* r2 has a new pipe between the session c and its socket s, which a counted command tells
Makes(r, H, c, s, r2, y) ==
    /\ Good(r, H) /\ r.own[c].kind = "session" /\ ~r.own[c].terminating
    /\ 2 \notin r.pipes[c].ends /\ s = r.own[c].socket
    /\ EditToo(r, r2, s, y) /\ SentOne(r.own[s], y) /\ Made(r, r2, c)

\* session_base_t::process_attach: a pipe is made for a session that has none, and its
\* other end is on its way to the socket.
LEMMA MakePipeStep ==
  ASSUME NEW r, NEW H, NEW c \in Objects, NEW s, NEW r2, NEW y, Makes(r, H, c, s, r2, y)
  PROVE  /\ Good(r2, H \cup {Binds(s, c)}) /\ Binds(s, c) \notin H
         /\ (\A p \in Actors : Waits(r, p) => Waits(r2, p)) /\ Beside(r, r2)
         /\ 1 \notin r.pipes[c].ends /\ Proper(r2, Binds(s, c))
<1> SUFFICES ASSUME Good(r, H), r.own[c].kind = "session", ~r.own[c].terminating,
                    2 \notin r.pipes[c].ends,
                    EditToo(r, r2, s, y), SentOne(r.own[s], y), Made(r, r2, c)
             PROVE  /\ Good(r2, H \cup {Binds(s, c)}) /\ Binds(s, c) \notin H
                    /\ (\A p \in Actors : Waits(r, p) => Waits(r2, p)) /\ Beside(r, r2)
                    /\ 1 \notin r.pipes[c].ends /\ Proper(r2, Binds(s, c))
  BY DEF Makes
<1> DEFINE H2 == H \cup {Binds(s, c)}
<1>1. /\ r \in States /\ Kinds(r) /\ Held(r, H) /\ EndsOK(r) /\ IsFiniteSet(H) /\ ~r.failed
      /\ Objects \subseteq Actors /\ Sockets \subseteq Actors
  BY DEF Good, Actors
<1>2. s \in Sockets /\ s \in Actors /\ Live(r, s) /\ ~r.own[s].destroyed
  BY <1>1, SocketThere DEF Makes
<1>3. /\ r2 \in States /\ r2.own[s] = y /\ \A p \in Actors : p # s => r2.own[p] = r.own[p]
      /\ r2.mail = r.mail /\ r2.failed = r.failed
  BY DEF EditToo
<1>4. 1 \notin r.pipes[c].ends BY <1>1 DEF EndsOK
<1>5. \A u \in Sockets : ~Holds(r, H, u, c) BY <1>1, <1>4 DEF Held
<1>6. \A u \in Sockets : Num(r, H, Binds(u, c)) = 0 /\ c \notin r.own[u].pipes
  <2>1. Naturals(r, H) BY <1>1, AllNaturals
  <2> QED BY <1>1, <1>5, <2>1 DEF Holds, Naturals
<1>7. Binds(s, c) \notin H
  <2>1. Binds(s, c) \in Commands /\ Binds(s, c).dest \in Actors BY <1>2, VocabularyTypes
  <2>2. Binds(s, c) \in H => Num(r, H, Binds(s, c)) > 0 BY <1>1, <2>1, NumNat
  <2> QED BY <1>2, <1>6, <2>2
<1>8. /\ Binds(s, c) \in Commands /\ Binds(s, c) \in Counted(s) /\ Binds(s, c).type = "bind"
      /\ Proper(r, Binds(s, c))
  <2>1. Binds(s, c).type = "bind" /\ Binds(s, c).arg = c /\ Binds(s, c).dest = s
    BY DEF Binds, Cmd
  <2>2. Proper(r, Binds(s, c)) BY <1>2, <2>1 DEF Proper
  <2> QED BY <1>2, <2>1, <2>2, VocabularyTypes, VocabularyCounted
<1>9. H2 = H \cup {Binds(s, c)} OBVIOUS
<1>10. /\ \A d \in Objects : Attach(d) \in H2 <=> Attach(d) \in H
       /\ \A p \in Actors, d \in Objects : Binds(p, d) \in H2 <=> Binds(p, d) \in H \/ (p = s /\ d = c)
  BY <1>1, <1>2, Vocabulary
<1> HIDE DEF H2
<1>11. /\ Frame(r, H, r2) /\ Stages(r2, H2) /\ Owned(r2) /\ Balanced(r2, H2) /\ Rooms(r2)
       /\ Ready(r2, H2) /\ H2 \in SUBSET Commands /\ IsFiniteSet(H2)
       /\ \A p \in Actors : SameLink(r.own[p], r2.own[p]) /\ SamePipes(r.own[p], r2.own[p])
       /\ (\A p \in Actors : Waits(r, p) => Waits(r2, p)) /\ Beside(r, r2)
  <2>1. PICK m \in Commands : m = Binds(s, c) BY <1>8
  <2>2. m \in Counted(s) /\ m.type \in {"attach", "bind"} /\ Proper(r, m) /\ m \notin H
    BY <1>7, <1>8, <2>1
  <2>3. H2 = H \cup {m} BY <1>9, <2>1
  <2>4. EditToo(r, r2, s, y) /\ SentOne(r.own[s], y) OBVIOUS
  <2>5. Frame(r, H, r2) /\ Stages(r2, H2) /\ Owned(r2) /\ Balanced(r2, H2) /\ Rooms(r2)
    BY <1>2, <2>2, <2>3, <2>4, CountedStep
  <2>6. Ready(r2, H2) /\ IsFiniteSet(H2) /\ Beside(r, r2)
    BY <1>2, <2>2, <2>3, <2>4, CountedStep
  <2>7. H2 \in SUBSET Commands BY <2>3 DEF Good
  <2>8. \A p \in Actors : SameLink(r.own[p], r2.own[p]) /\ SamePipes(r.own[p], r2.own[p])
    BY <1>2, <2>2, <2>3, <2>4, CountedStep
  <2>9. \A p \in Actors : Waits(r, p) => Waits(r2, p)
    BY <1>2, <2>2, <2>3, <2>4, CountedStep
  <2> QED BY <2>5, <2>6, <2>7, <2>8, <2>9
<1>12. Engines(r2, H2) BY <1>10, <1>11, KeepEngines
<1>13. \A d \in Objects : d # c => r2.pipes[d] = r.pipes[d] BY DEF Made
<1>14. 1 \in r2.pipes[c].ends /\ 2 \in r2.pipes[c].ends /\ 2 \notin r2.pipes[c].asked
  BY DEF Made, NewPipe
<1>15. Moved(r, H, r2, H2) /\ Naturals(r, H) BY <1>11 DEF Frame
<1>16. Held(r2, H2)
  <2>1. \A u \in Sockets, d \in Objects :
          /\ Num(r2, H2, Binds(u, d)) = Num(r, H, Binds(u, d)) + Bit(u = s /\ d = c)
          /\ Num(r, H, Binds(u, d)) \in Nat
    BY <1>1, <1>7, <1>10, <1>15 DEF Moved, Naturals, Bit
  <2>2. \A u \in Sockets : r2.own[u].pipes = r.own[u].pipes BY <1>1, <1>11 DEF SamePipes
  <2>3. \A u \in Sockets, d \in Objects : d # c =>
          /\ Num(r2, H2, Binds(u, d)) = Num(r, H, Binds(u, d))
          /\ Holds(r2, H2, u, d) <=> Holds(r, H, u, d)
    BY <2>1, <2>2 DEF Bit, Holds
  <2>4. \A u \in Sockets : /\ Num(r2, H2, Binds(u, c)) = Bit(u = s) /\ c \notin r2.own[u].pipes
                           /\ Holds(r2, H2, u, c) <=> u = s
    BY <1>6, <2>1, <2>2 DEF Bit, Holds
  <2>5. \A d \in Objects : d # c =>
          /\ \A u \in Sockets : /\ Num(r2, H2, Binds(u, d)) + Bit(d \in r2.own[u].pipes) <= 1
                                /\ Holds(r2, H2, u, d) => 1 \in r2.pipes[d].ends
          /\ 1 \in r2.pipes[d].ends => \E u \in Sockets : Holds(r2, H2, u, d)
          /\ \A u, v \in Sockets : Holds(r2, H2, u, d) /\ Holds(r2, H2, v, d) => u = v
    BY <1>1, <1>13, <2>2, <2>3 DEF Held
  <2>6. /\ \A u \in Sockets : /\ Num(r2, H2, Binds(u, c)) + Bit(c \in r2.own[u].pipes) <= 1
                              /\ Holds(r2, H2, u, c) => 1 \in r2.pipes[c].ends
        /\ 1 \in r2.pipes[c].ends => \E u \in Sockets : Holds(r2, H2, u, c)
        /\ \A u, v \in Sockets : Holds(r2, H2, u, c) /\ Holds(r2, H2, v, c) => u = v
    BY <1>2, <1>14, <2>4 DEF Bit
  <2> QED BY <2>5, <2>6 DEF Held
<1>17. EndsOK(r2)
  <2>1. \A d \in Objects : r2.own[d] = r.own[d] BY <1>1, <1>2, <1>3, OwnershipAssumption
  <2>2. \A u \in Sockets : /\ r2.own[u].pipes = r.own[u].pipes /\ r2.own[u].reaping = r.own[u].reaping
                           /\ c \notin r.own[u].pipes
    BY <1>1, <1>6, <1>11 DEF SamePipes
  <2>3. ~r.own[c].pending BY <1>1 DEF EndsOK
  <2>4. \A d \in Objects, u \in Sockets :
          r2.own[u].reaping /\ d \in r2.own[u].pipes => 1 \in r2.pipes[d].asked
    BY <1>1, <1>13, <2>2 DEF EndsOK
  <2> QED BY <1>1, <1>13, <1>14, <2>1, <2>3, <2>4 DEF EndsOK
<1>18. Good(r2, H2)
  BY <1>1, <1>3, <1>11, <1>12, <1>16, <1>17 DEF Good, Frame
<1>19. Proper(r2, Binds(s, c)) BY <1>8, <1>11 DEF Frame
<1> QED BY <1>4, <1>7, <1>11, <1>18, <1>19 DEF H2

\* socket_base_t::connect makes the pipe of its session at once.
Opened(x, y, c) ==
    /\ SameId(x, y) /\ SameStage(x, y) /\ SameLink(x, y) /\ SameCounts(x, y) /\ SameEnd(x, y)
    /\ y.reaping = x.reaping /\ y.pipes = x.pipes \cup {c} /\ y.term_acks = x.term_acks
\* socket_base_t::connect: both ends of the pipe are attached before the session runs.
LEMMA OpenPipeStep ==
  ASSUME NEW r, NEW H, Good(r, H), NEW c \in Objects, r.own[c].kind = "session",
         ~r.own[c].terminating, r.pipes[c].ends = {}, NEW s \in Sockets, Live(r, s),
         ~r.own[s].reaping, NEW r2, NEW y, EditToo(r, r2, s, y), Opened(r.own[s], y, c),
         Made(r, r2, c)
  PROVE  /\ Good(r2, H) /\ (\A p \in Actors : Waits(r, p) => Waits(r2, p)) /\ Beside(r, r2)
<1> DEFINE x == r.own[s]
<1>1. /\ r \in States /\ Kinds(r) /\ Held(r, H) /\ EndsOK(r) /\ IsFiniteSet(H) /\ ~r.failed
      /\ Objects \subseteq Actors /\ Sockets \subseteq Actors /\ s \in Actors /\ Balanced(r, H)
      /\ Ready(r, H) /\ H \in SUBSET Commands
  BY DEF Good, Actors
<1>2. /\ r2 \in States /\ r2.own[s] = y /\ \A p \in Actors : p # s => r2.own[p] = r.own[p]
      /\ r2.mail = r.mail /\ r2.failed = r.failed
  BY DEF EditToo
<1>3. KindOK(s, y) /\ SameId(x, y)
  BY <1>1, OwnershipAssumption DEF KindOK, Kinds, Opened, SameId, SameStage, SameEnd
<1>4. Frame(r, H, r2) BY <1>1, <1>3, EditTooFrame
<1>5. \A p \in Actors : /\ SameStage(r.own[p], r2.own[p]) /\ SameLink(r.own[p], r2.own[p])
                        /\ r2.own[p].reaping = r.own[p].reaping
                        /\ r2.own[p].terminating = r.own[p].terminating
                        /\ r2.own[p].pipes = IF p = s THEN r.own[p].pipes \cup {c} ELSE r.own[p].pipes
  BY <1>2 DEF Opened, SameStage, SameLink
<1>6. Naturals(r, H) /\ Moved(r, H, r2, H) BY <1>4 DEF Frame
<1>7. \A u \in Sockets : Num(r, H, Binds(u, c)) = 0 /\ c \notin r.own[u].pipes
  <2>1. \A u \in Sockets : ~Holds(r, H, u, c) BY <1>1 DEF Held
  <2> QED BY <1>1, <1>6, <2>1 DEF Holds, Naturals
<1>8. Ready(r2, H) BY <1>1, <1>4 DEF Ready, Frame
<1>9. \A p \in Actors : Cnt(r2, H, p) = Cnt(r, H, p) BY <1>4 DEF Frame
<1>10. Balanced(r2, H)
  <2>1. y.term_acks = x.term_acks - Left(x) + Left(y)
    <3>1. x.term_acks \in Nat BY <1>1 DEF States, Object
    <3>2. Left(x) = 0 /\ Left(y) = 0 BY DEF Left, Opened
    <3> QED BY <3>1, <3>2 DEF Opened
  <2>2. y.sent_seqnum = y.processed_seqnum + Cnt(r2, H, s)
    BY <1>1, <1>9 DEF Balanced, Opened, SameCounts
  <2>3. y.owned = x.owned /\ ~y.destroyed
    BY <1>1 DEF Opened, SameStage, SameEnd, Balanced, Kinds
  <2> QED BY <1>1, <1>4, <1>9, <2>1, <2>2, <2>3, LoneBalanced
<1>11. Stages(r2, H) /\ Owned(r2) BY <1>4, <1>5, KeepStages
<1>12. Engines(r2, H) BY <1>4, <1>5, KeepEngines
<1>13. Rooms(r2)
  <2>1. \A p \in Actors : r.own[p].plugged => r2.own[p].plugged BY <1>5 DEF SameLink
  <2> QED BY <1>4, <2>1, KeepRooms
<1>14. \A d \in Objects : d # c => r2.pipes[d] = r.pipes[d] BY DEF Made
<1>15. 1 \in r2.pipes[c].ends /\ 2 \in r2.pipes[c].ends /\ 2 \notin r2.pipes[c].asked
  BY DEF Made, NewPipe
<1>16. Held(r2, H)
  <2>1. \A u \in Sockets, d \in Objects : Num(r2, H, Binds(u, d)) = Num(r, H, Binds(u, d))
    BY <1>1, <1>6 DEF Moved, Naturals, Bit
  <2>2. \A u \in Sockets, d \in Objects : d # c =>
          /\ d \in r2.own[u].pipes <=> d \in r.own[u].pipes
          /\ Holds(r2, H, u, d) <=> Holds(r, H, u, d)
    BY <1>1, <1>5, <2>1 DEF Holds
  <2>3. \A u \in Sockets : /\ Num(r2, H, Binds(u, c)) = 0 /\ (c \in r2.own[u].pipes <=> u = s)
                           /\ Holds(r2, H, u, c) <=> u = s
    <3>1. \A u \in Sockets : c \in r2.own[u].pipes <=> u = s BY <1>1, <1>5, <1>7
    <3>2. \A u \in Sockets : Num(r2, H, Binds(u, c)) = 0 BY <1>7, <2>1
    <3> QED BY <3>1, <3>2 DEF Holds
  <2>4. \A d \in Objects : d # c =>
          /\ \A u \in Sockets : /\ Num(r2, H, Binds(u, d)) + Bit(d \in r2.own[u].pipes) <= 1
                                /\ Holds(r2, H, u, d) => 1 \in r2.pipes[d].ends
          /\ 1 \in r2.pipes[d].ends => \E u \in Sockets : Holds(r2, H, u, d)
          /\ \A u, v \in Sockets : Holds(r2, H, u, d) /\ Holds(r2, H, v, d) => u = v
    BY <1>1, <1>14, <2>1, <2>2 DEF Held
  <2>5. /\ \A u \in Sockets : /\ Num(r2, H, Binds(u, c)) + Bit(c \in r2.own[u].pipes) <= 1
                              /\ Holds(r2, H, u, c) => 1 \in r2.pipes[c].ends
        /\ 1 \in r2.pipes[c].ends => \E u \in Sockets : Holds(r2, H, u, c)
        /\ \A u, v \in Sockets : Holds(r2, H, u, c) /\ Holds(r2, H, v, c) => u = v
    BY <1>15, <2>3 DEF Bit
  <2> QED BY <2>4, <2>5 DEF Held
<1>17. EndsOK(r2)
  <2>1. \A d \in Objects : r2.own[d] = r.own[d] BY <1>1, <1>2, OwnershipAssumption
  <2>2. ~r.own[c].pending BY <1>1 DEF EndsOK
  <2>3. \A d \in Objects, u \in Sockets :
          r2.own[u].reaping /\ d \in r2.own[u].pipes => 1 \in r2.pipes[d].asked
    <3> SUFFICES ASSUME NEW d \in Objects, NEW u \in Sockets, r2.own[u].reaping,
                        d \in r2.own[u].pipes
                 PROVE  1 \in r2.pipes[d].asked
      OBVIOUS
    <3>1. r.own[u].reaping /\ u # s /\ d \in r.own[u].pipes BY <1>1, <1>5
    <3> QED BY <1>1, <1>7, <1>14, <3>1 DEF EndsOK
  <2> QED BY <1>1, <1>14, <1>15, <2>1, <2>2, <2>3 DEF EndsOK
<1>18. Good(r2, H)
  BY <1>1, <1>2, <1>4, <1>8, <1>10, <1>11, <1>12, <1>13, <1>16, <1>17 DEF Good, Frame
<1>19. \A p \in Actors : Waits(r, p) => Waits(r2, p)
  BY <1>2 DEF Waits, Opened, SameEnd, SameCounts
<1>20. Beside(r, r2) BY <1>1, <1>2, <1>4, <1>5 DEF Beside, Frame, SameId
<1> QED BY <1>18, <1>19, <1>20

\* r2 has a counted command more for the session c, which nothing is attached to
Attaches(r, H, c, r2, y) ==
    /\ Good(r, H) /\ r.own[c].kind = "session" /\ Idle(r, H, c)
    /\ Edit(r, r2, c, y) /\ SentOne(r.own[c], y)


\* The engine of a session is on its way to it: object_t::send_attach.
LEMMA SendAttachStep ==
  ASSUME NEW r, NEW H, NEW c \in Objects, NEW r2, NEW y, Attaches(r, H, c, r2, y)
  PROVE  /\ Good(r2, H \cup {Attach(c)}) /\ Attach(c) \notin H
         /\ (\A p \in Actors : Waits(r, p) => Waits(r2, p)) /\ Beside(r, r2)
         /\ Proper(r2, Attach(c))
<1> SUFFICES ASSUME Good(r, H), r.own[c].kind = "session", Idle(r, H, c),
                    Edit(r, r2, c, y), SentOne(r.own[c], y)
             PROVE  /\ Good(r2, H \cup {Attach(c)}) /\ Attach(c) \notin H
                    /\ (\A p \in Actors : Waits(r, p) => Waits(r2, p)) /\ Beside(r, r2)
                    /\ Proper(r2, Attach(c))
  BY DEF Attaches
<1> DEFINE H2 == H \cup {Attach(c)}
<1>1. /\ r \in States /\ Kinds(r) /\ Engines(r, H) /\ IsFiniteSet(H) /\ ~r.failed
      /\ Objects \subseteq Actors /\ Sockets \subseteq Actors /\ c \in Actors
  BY DEF Good, Actors
<1>2. Live(r, c) /\ ~r.own[c].destroyed /\ c \in Actors BY <1>1 DEF Live, Kinds
<1>3. EditToo(r, r2, c, y) /\ r2.pipes = r.pipes /\ r2 \in States /\ ~r2.failed
  BY <1>1 DEF Edit, EditToo
<1>4. Attach(c) \notin H
  <2>1. Attach(c) \in Commands /\ Attach(c).dest \in Actors BY <1>1, VocabularyTypes
  <2>2. Attach(c) \in H => Num(r, H, Attach(c)) > 0 BY <1>1, <2>1, NumNat
  <2> QED BY <2>2 DEF Idle
<1>5. /\ Attach(c) \in Commands /\ Attach(c) \in Counted(c)
      /\ Attach(c).type \in {"attach", "bind"} /\ Proper(r, Attach(c))
  <2>1. Attach(c).type = "attach" /\ Attach(c).arg = Null /\ Attach(c).dest = c
    BY DEF Attach, Cmd
  <2>2. Proper(r, Attach(c)) BY <1>1, <1>2, <2>1 DEF Proper
  <2> QED BY <1>1, <2>1, <2>2, VocabularyTypes, VocabularyCounted
<1>6. H2 = H \cup {Attach(c)} OBVIOUS
<1>7. /\ \A d \in Objects : Attach(d) \in H2 <=> Attach(d) \in H \/ d = c
      /\ \A p \in Actors, d \in Objects : Binds(p, d) \in H2 <=> Binds(p, d) \in H
  BY <1>1, Vocabulary
<1> HIDE DEF H2
<1>8. /\ Frame(r, H, r2) /\ Stages(r2, H2) /\ Owned(r2) /\ Balanced(r2, H2) /\ Rooms(r2)
      /\ Ready(r2, H2) /\ H2 \in SUBSET Commands /\ IsFiniteSet(H2)
      /\ \A p \in Actors : SameLink(r.own[p], r2.own[p]) /\ SamePipes(r.own[p], r2.own[p])
      /\ (\A p \in Actors : Waits(r, p) => Waits(r2, p)) /\ Beside(r, r2)
  <2>1. EditToo(r, r2, c, y) BY <1>3
  <2>2. SentOne(r.own[c], y) OBVIOUS
  <2>3. PICK m \in Commands : m = Attach(c) BY <1>5
  <2>4. m \in Counted(c) /\ m.type \in {"attach", "bind"} /\ Proper(r, m) /\ m \notin H
    BY <1>4, <1>5, <2>3
  <2>5. H2 = H \cup {m} BY <1>6, <2>3
  <2>6. Frame(r, H, r2) /\ Stages(r2, H2) /\ Owned(r2) /\ Balanced(r2, H2) /\ Rooms(r2)
    BY <1>2, <2>1, <2>2, <2>4, <2>5, CountedStep
  <2>7. Ready(r2, H2) /\ IsFiniteSet(H2) /\ Beside(r, r2)
    BY <1>2, <2>1, <2>2, <2>4, <2>5, CountedStep
  <2>10. H2 \in SUBSET Commands BY <2>5 DEF Good
  <2>8. \A p \in Actors : SameLink(r.own[p], r2.own[p]) /\ SamePipes(r.own[p], r2.own[p])
    BY <1>2, <2>1, <2>2, <2>4, <2>5, CountedStep
  <2>9. \A p \in Actors : Waits(r, p) => Waits(r2, p)
    BY <1>2, <2>1, <2>2, <2>4, <2>5, CountedStep
  <2> QED BY <2>6, <2>7, <2>8, <2>9, <2>10
<1>9. Held(r2, H2) /\ EndsOK(r2) BY <1>3, <1>7, <1>8, KeepPipes
<1>10. Moved(r, H, r2, H2) /\ Naturals(r, H) BY <1>8 DEF Frame
<1>11. \A d \in Objects : Num(r2, H2, Attach(d)) = Num(r, H, Attach(d)) + Bit(d = c)
  BY <1>4, <1>7, <1>10 DEF Moved, Naturals, Bit
<1>12. Engines(r2, H2)
  <2>1. \A d \in Objects : Dials(r2, d) = Dials(r, d)
    BY <1>1, <1>8 DEF Dials, Frame, SameId, SameLink
  <2>2. \A d \in Objects : /\ r2.own[d].engine = r.own[d].engine /\ r2.own[d].active = r.own[d].active
                           /\ r2.own[d].plugged = r.own[d].plugged
                           /\ r2.own[d].kind = r.own[d].kind
    BY <1>1, <1>8 DEF Frame, SameId, SameLink
  <2>3. \A d \in Objects : d # c => Num(r2, H2, Attach(d)) = Num(r, H, Attach(d))
    BY <1>10, <1>11 DEF Bit, Naturals
  <2>4. /\ Dials(r2, c) = {} /\ Num(r2, H2, Attach(c)) = 1 /\ ~r2.own[c].engine
        /\ ~(r2.own[c].active /\ ~r2.own[c].plugged)
    BY <1>11, <2>1, <2>2 DEF Idle, Bit
  <2>5. Bit(r2.own[c].active /\ ~r2.own[c].plugged) + Bit(Dials(r2, c) # {})
         + Num(r2, H2, Attach(c)) + Bit(r2.own[c].engine) <= 1
    BY <2>4 DEF Bit
  <2>6. \A d \in Objects : d # c /\ r2.own[d].kind = "session" =>
          /\ Bit(r2.own[d].active /\ ~r2.own[d].plugged) + Bit(Dials(r2, d) # {})
             + Num(r2, H2, Attach(d)) + Bit(r2.own[d].engine) <= 1
          /\ \A k, l \in Dials(r2, d) : k = l
    BY <1>1, <2>1, <2>2, <2>3 DEF Engines
  <2> QED BY <2>4, <2>5, <2>6 DEF Engines
<1>13. Good(r2, H2) BY <1>1, <1>3, <1>8, <1>9, <1>12 DEF Good, Frame
<1>14. Proper(r2, Attach(c)) BY <1>5, <1>8 DEF Frame
<1> QED BY <1>4, <1>8, <1>13, <1>14 DEF H2

\* What only touches the engine of a session, or the connecter that dials for it.
Linked(x, y) ==
    /\ SameId(x, y) /\ SameStage(x, y) /\ SamePipes(x, y) /\ SameAcks(x, y) /\ SameCounts(x, y)
Alike3(H, H2) ==
    /\ \A d \in Objects : /\ Plug(d) \in H2 <=> Plug(d) \in H
                          /\ Term(d) \in H2 <=> Term(d) \in H
    /\ \A p \in Actors : Ack(p) \in H2 <=> Ack(p) \in H
    /\ \A p \in Actors, d \in Objects : /\ Owns(p, d) \in H2 <=> Owns(p, d) \in H
                                        /\ Binds(p, d) \in H2 <=> Binds(p, d) \in H
\* A step of an engine or a connecter disturbs nothing but the count of engines.
LEMMA LinkStep ==
  ASSUME NEW r, NEW H, Good(r, H), NEW o \in Objects, Live(r, o), NEW r2, NEW y,
         Edit(r, r2, o, y), Linked(r.own[o], y), NEW H2 \in SUBSET Commands, IsFiniteSet(H2),
         Ready(r, H2), Alike3(H, H2), \A p \in Actors : Cnt(r, H2, p) = Cnt(r, H, p),
         Frame(r, H, r2) => Engines(r2, H2)
  PROVE  /\ Good(r2, H2) /\ (\A p \in Actors : Waits(r, p) => Waits(r2, p)) /\ Beside(r, r2)
<1>1. /\ r \in States /\ Kinds(r) /\ ~r.failed /\ Balanced(r, H) /\ o \in Actors
      /\ Objects \subseteq Actors /\ Sockets \subseteq Actors
  BY DEF Good, Actors
<1>2. /\ r2 \in States /\ r2.own[o] = y /\ \A p \in Actors : p # o => r2.own[p] = r.own[p]
  BY DEF Edit
<1>3. r2.mail = r.mail /\ r2.pipes = r.pipes /\ r2.failed = r.failed BY DEF Edit
<1>4. EditToo(r, r2, o, y) BY DEF Edit, EditToo
<1>5. KindOK(o, y)
  <2>1. /\ ~r.own[o].destroyed /\ ~r.own[o].reaping /\ r.own[o].pipes = {}
        /\ r.own[o].pending => r.own[o].kind = "session"
        /\ r.own[o].terminating => r.own[o].owned = {}
    BY <1>1 DEF Kinds
  <2> QED BY <1>1, <2>1, OwnershipAssumption DEF KindOK, Linked, SameId, SameStage, SamePipes, SameAcks
<1>6. Frame(r, H, r2) BY <1>1, <1>4, <1>5, EditTooFrame DEF Linked
<1>7. \A p \in Actors : /\ SameId(r.own[p], r2.own[p]) /\ SameStage(r.own[p], r2.own[p])
                        /\ SamePipes(r.own[p], r2.own[p]) /\ SameAcks(r.own[p], r2.own[p])
                        /\ SameCounts(r.own[p], r2.own[p])
  <2> SUFFICES ASSUME NEW p \in Actors
               PROVE  /\ SameId(r.own[p], r2.own[p]) /\ SameStage(r.own[p], r2.own[p])
                      /\ SamePipes(r.own[p], r2.own[p]) /\ SameAcks(r.own[p], r2.own[p])
                      /\ SameCounts(r.own[p], r2.own[p])
    OBVIOUS
  <2>1. CASE p = o BY <1>2, <2>1 DEF Linked
  <2>2. CASE p # o BY <1>2, <2>2 DEF SameId, SameStage, SamePipes, SameAcks, SameCounts
  <2> QED BY <2>1, <2>2
<1>8. Stages(r2, H2) /\ Owned(r2) BY <1>6, <1>7, KeepStages DEF Alike3
<1>9. Engines(r2, H2) BY <1>6
<1>10. Rooms(r2) BY <1>6, <1>7, KeepRooms DEF SameStage
<1>11. Held(r2, H2) /\ EndsOK(r2) BY <1>3, <1>6, <1>7, KeepPipes DEF Alike3
<1>12. Balanced(r2, H2)
  <2>1. \A p \in Actors : Live(r, p) =>
          /\ r.own[p].sent_seqnum = r.own[p].processed_seqnum + Cnt(r, H, p)
          /\ r.own[p].destroyed => r.own[p].sent_seqnum = r.own[p].processed_seqnum
    BY <1>1 DEF Balanced
  <2>2. \A p \in Actors : Cnt(r2, H2, p) = Cnt(r, H, p) BY <1>6 DEF Frame
  <2>3. \A p \in Actors : Live(r, p) =>
           /\ r2.own[p].sent_seqnum = r2.own[p].processed_seqnum + Cnt(r2, H2, p)
           /\ r.own[p].destroyed => r2.own[p].sent_seqnum = r2.own[p].processed_seqnum
    BY <1>7, <2>1, <2>2 DEF SameCounts
  <2> QED BY <1>6, <1>7, <2>3, KeepBalanced DEF Alike3
<1>13. Ready(r2, H2) BY <1>6 DEF Ready, Frame
<1>14. Good(r2, H2)
  BY <1>1, <1>2, <1>3, <1>6, <1>8, <1>9, <1>10, <1>11, <1>12, <1>13 DEF Good, Frame
<1>15. \A p \in Actors : Waits(r, p) => Waits(r2, p)
  BY <1>7 DEF Waits, SameCounts, SameAcks
<1>16. Beside(r, r2) BY <1>1, <1>3, <1>7 DEF Beside, SameId, SamePipes
<1> QED BY <1>14, <1>15, <1>16

\* The facts that LinkStep asks for when nothing in hand changes.
LEMMA LinkSame ==
  ASSUME NEW r, NEW H, Good(r, H)
  PROVE  /\ H \in SUBSET Commands /\ IsFiniteSet(H) /\ Ready(r, H) /\ Alike3(H, H)
         /\ \A p \in Actors : Cnt(r, H, p) = Cnt(r, H, p)
<1>1. H \in SUBSET Commands /\ IsFiniteSet(H) /\ Ready(r, H) BY DEF Good
<1> QED BY <1>1 DEF Alike3

Dialled(x, y) == Linked(x, y) /\ y.engine = x.engine /\ y.connected = TRUE
\* tcp_connecter_t::out_event: the connection is made, and the session will have no
\* other engine before this one.
LEMMA DialledStep ==
  ASSUME NEW r, NEW H, Good(r, H), NEW k \in Objects, r.own[k].kind = "connecter",
         ~r.own[k].connected, NEW r2, NEW y, Edit(r, r2, k, y), Dialled(r.own[k], y)
  PROVE  /\ Good(r2, H) /\ (\A p \in Actors : Waits(r, p) => Waits(r2, p)) /\ Beside(r, r2)
         /\ r.own[k].owner \in Objects /\ r.own[r.own[k].owner].kind = "session"
         /\ Idle(r2, H, r.own[k].owner)
<1> DEFINE c == r.own[k].owner
<1>1. /\ r \in States /\ Kinds(r) /\ Engines(r, H) /\ Owners(r) /\ Objects \subseteq Actors
  BY DEF Good, Actors
<1>2. c \in Objects /\ r.own[c].kind = "session" /\ k # c /\ Live(r, k) BY <1>1 DEF Owners, Live
<1>3. k \in Dials(r, c) BY DEF Dials
<1>4. /\ Bit(r.own[c].active /\ ~r.own[c].plugged) + Bit(Dials(r, c) # {})
         + Num(r, H, Attach(c)) + Bit(r.own[c].engine) <= 1
      /\ \A j, l \in Dials(r, c) : j = l
  BY <1>1, <1>2 DEF Engines
<1>5. Num(r, H, Attach(c)) \in Nat
  <2>1. IsFiniteSet(H) BY DEF Good
  <2>2. Naturals(r, H) BY <1>1, <2>1, AllNaturals
  <2> QED BY <1>2, <2>2 DEF Naturals
<1>6. Dials(r, c) = {k} BY <1>3, <1>4
<1>7. Bit(Dials(r, c) # {}) = 1 BY <1>3 DEF Bit
<1> DEFINE n == Num(r, H, Attach(c))
           a == r.own[c].active /\ ~r.own[c].plugged
           e == r.own[c].engine
<1>8. n = 0 /\ ~a /\ ~e
  <2>1. Bit(a) + 1 + n + Bit(e) <= 1 BY <1>4, <1>7
  <2>2. n \in Nat BY <1>5
  <2> HIDE DEF n, a, e
  <2> QED BY <2>1, <2>2 DEF Bit
<1> HIDE DEF c
<1>9. /\ r2.own[k].connected /\ SameId(r.own[k], r2.own[k]) /\ SameStage(r.own[k], r2.own[k])
      /\ r2.own[k].engine = r.own[k].engine
      /\ \A p \in Actors : p # k => r2.own[p] = r.own[p]
  BY DEF Edit, Dialled, Linked
<1>10. /\ \A d \in Objects : d # c => Dials(r2, d) = Dials(r, d)
       /\ Dials(r2, c) = {}
  <2>1. \A j, d \in Objects : j \in Dials(r2, d) <=> j \in Dials(r, d) /\ j # k
    BY <1>1, <1>9 DEF Dials, SameId
  <2>2. \A d \in Objects : d # c => k \notin Dials(r, d) BY DEF Dials, c
  <2>3. \A d \in Objects : Dials(r2, d) \subseteq Objects /\ Dials(r, d) \subseteq Objects BY DEF Dials
  <2> QED BY <1>2, <1>6, <2>1, <2>2, <2>3
<1>11. \A d \in Objects : /\ r2.own[d].kind = r.own[d].kind /\ r2.own[d].active = r.own[d].active
                          /\ r2.own[d].plugged = r.own[d].plugged
                          /\ r2.own[d].engine = r.own[d].engine
  BY <1>1, <1>9 DEF SameId, SameStage
<1>12. ASSUME Frame(r, H, r2) PROVE \A d \in Objects : Num(r2, H, Attach(d)) = Num(r, H, Attach(d))
  <2>1. Moved(r, H, r2, H) /\ Naturals(r, H) BY <1>12 DEF Frame
  <2>2. \A d \in Objects : /\ Num(r, H, Attach(d)) \in Nat
                           /\ Num(r2, H, Attach(d)) =
                                Num(r, H, Attach(d)) - Bit(Attach(d) \in H) + Bit(Attach(d) \in H)
    BY <2>1 DEF Moved, Naturals
  <2> QED BY <2>2 DEF Bit
<1>13. ASSUME Frame(r, H, r2) PROVE Engines(r2, H)
  <2>1. \A d \in Objects : Num(r2, H, Attach(d)) = Num(r, H, Attach(d)) BY <1>12, <1>13
  <2>2. \A d \in Objects : d # c /\ r2.own[d].kind = "session" =>
          /\ Bit(r2.own[d].active /\ ~r2.own[d].plugged) + Bit(Dials(r2, d) # {})
             + Num(r2, H, Attach(d)) + Bit(r2.own[d].engine) <= 1
          /\ \A j, l \in Dials(r2, d) : j = l
    BY <1>1, <1>10, <1>11, <2>1 DEF Engines
  <2>3. /\ Bit(r2.own[c].active /\ ~r2.own[c].plugged) + Bit(Dials(r2, c) # {})
           + Num(r2, H, Attach(c)) + Bit(r2.own[c].engine) <= 1
        /\ \A j, l \in Dials(r2, c) : j = l
    BY <1>2, <1>8, <1>10, <1>11, <2>1 DEF Bit
  <2> QED BY <2>2, <2>3 DEF Engines
<1>14. Good(r2, H) /\ (\A p \in Actors : Waits(r, p) => Waits(r2, p)) /\ Beside(r, r2)
  BY <1>2, <1>13, LinkSame, LinkStep DEF Dialled
<1>15. Frame(r, H, r2)
  <2>1. r2 \in States /\ r2.mail = r.mail BY DEF Edit
  <2>2. Kinds(r2) BY <1>14 DEF Good
  <2>3. \A p \in Actors : SameId(r.own[p], r2.own[p]) BY <1>9 DEF SameId
  <2> QED BY <2>1, <2>2, <2>3, Framed
<1>16. Idle(r2, H, c) BY <1>2, <1>8, <1>10, <1>11, <1>12, <1>15 DEF Idle
<1> QED BY <1>2, <1>14, <1>16 DEF c

Unhooked(x, y) == Linked(x, y) /\ y.engine = FALSE /\ y.connected = x.connected
\* session_base_t::engine_error: the engine is gone and there is no other.
LEMMA EngineOffStep ==
  ASSUME NEW r, NEW H, Good(r, H), NEW c \in Objects, r.own[c].kind = "session",
         r.own[c].engine, NEW r2, NEW y, Edit(r, r2, c, y), Unhooked(r.own[c], y)
  PROVE  /\ Good(r2, H) /\ (\A p \in Actors : Waits(r, p) => Waits(r2, p)) /\ Beside(r, r2)
         /\ Idle(r2, H, c)
<1>1. /\ r \in States /\ Kinds(r) /\ Engines(r, H) /\ Objects \subseteq Actors /\ IsFiniteSet(H)
  BY DEF Good, Actors
<1>2. Live(r, c) BY DEF Live
<1> DEFINE n == Num(r, H, Attach(c))
           a == r.own[c].active /\ ~r.own[c].plugged
           dd == Dials(r, c) # {}
<1>3. n = 0 /\ ~a /\ ~dd
  <2>1. Bit(a) + Bit(dd) + n + Bit(r.own[c].engine) <= 1 BY <1>1 DEF Engines
  <2>2. Naturals(r, H) BY <1>1, AllNaturals
  <2>3. n \in Nat BY <2>2 DEF Naturals
  <2> HIDE DEF n, a, dd
  <2>4. Bit(r.own[c].engine) = 1 BY DEF Bit
  <2> QED BY <2>1, <2>3, <2>4 DEF Bit
<1>4. /\ ~r2.own[c].engine /\ SameId(r.own[c], r2.own[c]) /\ SameStage(r.own[c], r2.own[c])
      /\ r2.own[c].connected = r.own[c].connected
      /\ \A p \in Actors : p # c => r2.own[p] = r.own[p]
  BY DEF Edit, Unhooked, Linked
<1>5. \A d \in Objects : Dials(r2, d) = Dials(r, d)
  <2>1. \A j \in Objects : /\ r2.own[j].kind = r.own[j].kind /\ r2.own[j].owner = r.own[j].owner
                           /\ r2.own[j].connected = r.own[j].connected
    BY <1>1, <1>4 DEF SameId
  <2> QED BY <2>1 DEF Dials
<1>6. \A d \in Objects : /\ r2.own[d].kind = r.own[d].kind /\ r2.own[d].active = r.own[d].active
                         /\ r2.own[d].plugged = r.own[d].plugged
                         /\ d # c => r2.own[d].engine = r.own[d].engine
  BY <1>1, <1>4 DEF SameId, SameStage
<1>7. ASSUME Frame(r, H, r2) PROVE \A d \in Objects : Num(r2, H, Attach(d)) = Num(r, H, Attach(d))
  <2>1. Moved(r, H, r2, H) /\ Naturals(r, H) BY <1>7 DEF Frame
  <2>2. \A d \in Objects : /\ Num(r, H, Attach(d)) \in Nat
                           /\ Num(r2, H, Attach(d)) =
                                Num(r, H, Attach(d)) - Bit(Attach(d) \in H) + Bit(Attach(d) \in H)
    BY <2>1 DEF Moved, Naturals
  <2> QED BY <2>2 DEF Bit
<1>8. ASSUME Frame(r, H, r2) PROVE Engines(r2, H)
  <2>1. \A d \in Objects : Num(r2, H, Attach(d)) = Num(r, H, Attach(d)) BY <1>7, <1>8
  <2>2. \A d \in Objects : d # c /\ r2.own[d].kind = "session" =>
          /\ Bit(r2.own[d].active /\ ~r2.own[d].plugged) + Bit(Dials(r2, d) # {})
             + Num(r2, H, Attach(d)) + Bit(r2.own[d].engine) <= 1
          /\ \A j, l \in Dials(r2, d) : j = l
    BY <1>1, <1>5, <1>6, <2>1 DEF Engines
  <2>3. /\ Bit(r2.own[c].active /\ ~r2.own[c].plugged) + Bit(Dials(r2, c) # {})
           + Num(r2, H, Attach(c)) + Bit(r2.own[c].engine) <= 1
        /\ \A j, l \in Dials(r2, c) : j = l
    BY <1>3, <1>4, <1>5, <1>6, <2>1 DEF Bit
  <2> QED BY <2>2, <2>3 DEF Engines
<1>9. Good(r2, H) /\ (\A p \in Actors : Waits(r, p) => Waits(r2, p)) /\ Beside(r, r2)
  BY <1>2, <1>8, LinkSame, LinkStep DEF Unhooked
<1>10. Frame(r, H, r2)
  <2>1. r2 \in States /\ r2.mail = r.mail BY DEF Edit
  <2>2. Kinds(r2) BY <1>9 DEF Good
  <2>3. \A p \in Actors : SameId(r.own[p], r2.own[p]) BY <1>4 DEF SameId
  <2> QED BY <2>1, <2>2, <2>3, Framed
<1>11. Idle(r2, H, c) BY <1>3, <1>4, <1>5, <1>6, <1>7, <1>10 DEF Idle
<1> QED BY <1>9, <1>11

Hooked(x, y) == Linked(x, y) /\ y.engine = TRUE /\ y.connected = x.connected
\* session_base_t::process_attach: the engine that arrives is the only one.
LEMMA AttachStep ==
  ASSUME NEW r, NEW c \in Objects, Good(r, {Attach(c)}),
         NEW r2, NEW y, Edit(r, r2, c, y), Hooked(r.own[c], y)
  PROVE  /\ Good(r2, {Seqnum(c)}) /\ (\A p \in Actors : Waits(r, p) => Waits(r2, p)) /\ Beside(r, r2)
         /\ ~r.own[c].engine /\ r.own[c].kind = "session"
<1> DEFINE H == {Attach(c)}
           H2 == {Seqnum(c)}
<1>1. /\ r \in States /\ Kinds(r) /\ Engines(r, H) /\ Objects \subseteq Actors /\ IsFiniteSet(H)
      /\ Ready(r, H) /\ c \in Actors
  BY DEF Good, Actors
<1>2. Attach(c).type = "attach" /\ Attach(c).dest = c /\ Seqnum(c).dest = c /\ Seqnum(c).type = "seqnum"
  BY DEF Attach, Seqnum, Cmd
<1>3. Proper(r, Attach(c)) BY <1>1, <1>2 DEF Ready
<1>4. Live(r, c) /\ r.own[c].kind = "session" BY <1>2, <1>3 DEF Proper
<1>5. Good(r, H) /\ Attach(c) \in H OBVIOUS
<1>6. Attach(c) \in Commands /\ Seqnum(c) \in Commands BY <1>1, VocabularyTypes
<1>7. H2 \in SUBSET Commands /\ IsFiniteSet(H2) BY <1>6, FS_Singleton
<1>8. Ready(r, H2) BY <1>1, <1>2, <1>4 DEF Ready
<1>9. Alike3(H, H2) BY <1>1, Vocabulary DEF Alike3
<1>10. \A d \in Objects : Attach(d) \notin H2 BY <1>1, Vocabulary
<1>11. \A d \in Objects : d # c => Attach(d) \notin H BY Vocabulary
<1>12. \A p \in Actors : Cnt(r, H2, p) = Cnt(r, H, p)
  <2> SUFFICES ASSUME NEW p \in Actors PROVE Cnt(r, H2, p) = Cnt(r, H, p) OBVIOUS
  <2>1. Cnt(r, H, p) = Cnt(r, {}, p) + Bit(Attach(c) \in Counted(p)) BY <1>1, HandOne
  <2>2. Cnt(r, H2, p) = Cnt(r, {}, p) + Bit(Seqnum(c) \in Counted(p)) BY <1>1, HandOne
  <2>3. Attach(c) \in Counted(p) <=> Seqnum(c) \in Counted(p) BY <1>1, VocabularyCounted
  <2> HIDE DEF H, H2
  <2>4. Bit(Attach(c) \in Counted(p)) = Bit(Seqnum(c) \in Counted(p)) BY <2>3 DEF Bit
  <2> QED BY <2>1, <2>2, <2>4
<1> HIDE DEF H, H2
<1> DEFINE n == Num(r, H, Attach(c))
           a == r.own[c].active /\ ~r.own[c].plugged
           dd == Dials(r, c) # {}
           e == r.own[c].engine
<1>13. n = 1 /\ ~a /\ ~dd /\ ~e
  <2>1. Bit(a) + Bit(dd) + n + Bit(e) <= 1 BY <1>1, <1>4 DEF Engines
  <2>2. n \in Nat /\ n > 0 BY <1>1, <1>2, <1>5, <1>6, NumNat
  <2> HIDE DEF n, a, dd, e
  <2> QED BY <2>1, <2>2 DEF Bit
<1>14. /\ r2.own[c].engine /\ SameId(r.own[c], r2.own[c]) /\ SameStage(r.own[c], r2.own[c])
      /\ r2.own[c].connected = r.own[c].connected
      /\ \A p \in Actors : p # c => r2.own[p] = r.own[p]
  BY DEF Edit, Hooked, Linked
<1>15. \A d \in Objects : Dials(r2, d) = Dials(r, d)
  <2>1. \A j \in Objects : /\ r2.own[j].kind = r.own[j].kind /\ r2.own[j].owner = r.own[j].owner
                           /\ r2.own[j].connected = r.own[j].connected
    BY <1>1, <1>14 DEF SameId
  <2> QED BY <2>1 DEF Dials
<1>16. \A d \in Objects : /\ r2.own[d].kind = r.own[d].kind /\ r2.own[d].active = r.own[d].active
                          /\ r2.own[d].plugged = r.own[d].plugged
                          /\ d # c => r2.own[d].engine = r.own[d].engine
  BY <1>1, <1>14 DEF SameId, SameStage
<1>17. ASSUME Frame(r, H, r2)
       PROVE \A d \in Objects : Num(r2, H2, Attach(d)) = IF d = c THEN 0 ELSE Num(r, H, Attach(d))
  <2>1. Moved(r, H, r2, H2) /\ Naturals(r, H) BY <1>17 DEF Frame
  <2>2. \A d \in Objects : /\ Num(r, H, Attach(d)) \in Nat
                           /\ Num(r2, H2, Attach(d)) =
                                Num(r, H, Attach(d)) - Bit(Attach(d) \in H) + Bit(Attach(d) \in H2)
    BY <2>1 DEF Moved, Naturals
  <2> QED BY <1>5, <1>10, <1>11, <1>13, <2>2 DEF Bit
<1>18. ASSUME Frame(r, H, r2) PROVE Engines(r2, H2)
  <2>1. \A d \in Objects : Num(r2, H2, Attach(d)) = IF d = c THEN 0 ELSE Num(r, H, Attach(d))
    BY <1>17, <1>18
  <2>2. \A d \in Objects : d # c /\ r2.own[d].kind = "session" =>
          /\ Bit(r2.own[d].active /\ ~r2.own[d].plugged) + Bit(Dials(r2, d) # {})
             + Num(r2, H2, Attach(d)) + Bit(r2.own[d].engine) <= 1
          /\ \A j, l \in Dials(r2, d) : j = l
    BY <1>1, <1>15, <1>16, <2>1 DEF Engines
  <2>3. /\ Bit(r2.own[c].active /\ ~r2.own[c].plugged) + Bit(Dials(r2, c) # {})
           + Num(r2, H2, Attach(c)) + Bit(r2.own[c].engine) <= 1
        /\ \A j, l \in Dials(r2, c) : j = l
    BY <1>13, <1>14, <1>15, <1>16, <2>1 DEF Bit
  <2> QED BY <2>2, <2>3 DEF Engines
<1>19. Good(r2, H2) /\ (\A p \in Actors : Waits(r, p) => Waits(r2, p)) /\ Beside(r, r2)
  BY <1>4, <1>5, <1>7, <1>8, <1>9, <1>12, <1>18, LinkStep DEF Hooked
<1> QED BY <1>4, <1>13, <1>19 DEF H2

\* The commands that nobody counts: term_req, which may come too late, and stop.
LEMMA LooseHand ==
  ASSUME NEW r, NEW H, Good(r, H), NEW H2 \in SUBSET Commands, IsFiniteSet(H2), Ready(r, H2),
         \A m \in (H \cup H2) \ (H \cap H2) : m.type \in {"term_req", "stop"}
  PROVE  Good(r, H2)
<1>1. /\ r \in States /\ ~r.failed /\ EndsOK(r) /\ Objects \subseteq Actors
      /\ H \in SUBSET Commands /\ IsFiniteSet(H)
  BY DEF Good, Actors
<1>2. OnlyPipes(r, r) BY <1>1 DEF OnlyPipes
<1>3. /\ Frame(r, H, r)
      /\ \A p \in Actors : /\ SameStage(r.own[p], r.own[p]) /\ SameLink(r.own[p], r.own[p])
                           /\ SameAcks(r.own[p], r.own[p]) /\ SameCounts(r.own[p], r.own[p])
  BY <1>2, PipesFrame
<1>4. \A m : m.type \notin {"term_req", "stop"} => (m \in H2 <=> m \in H) OBVIOUS
<1>5. /\ \A o : /\ Plug(o).type = "plug" /\ Term(o).type = "term" /\ Attach(o).type = "attach"
                /\ Ack(o).type = "term_ack"
      /\ \A o, c : Owns(o, c).type = "own" /\ Binds(o, c).type = "bind"
  BY DEF Plug, Term, Attach, Ack, Owns, Binds, Cmd
<1>6. Alike2(H, H2) BY <1>4, <1>5 DEF Alike2
<1>7. \A p \in Actors, d \in Objects : Binds(p, d) \in H2 <=> Binds(p, d) \in H BY <1>4, <1>5
<1>8. \A p \in Actors : Cnt(r, H2, p) = Cnt(r, H, p)
  <2> SUFFICES ASSUME NEW p \in Actors PROVE Cnt(r, H2, p) = Cnt(r, H, p) OBVIOUS
  <2>1. \A m \in Counted(p) : m.type \notin {"term_req", "stop"} BY DEF Counted
  <2>2. H2 \cap Counted(p) = H \cap Counted(p) BY <1>4, <2>1
  <2> QED BY <2>2 DEF Cnt, Total
<1>9. Held(r, H2) BY <1>3, <1>7, KeepHeld
<1> QED BY <1>1, <1>3, <1>6, <1>8, <1>9, QuietStep

\* own_t::process_term_req of an object that is gone, or going already.
LEMMA DropLoose ==
  ASSUME NEW r, NEW m, Good(r, {m}), m.type \in {"term_req", "stop"}
  PROVE  Good(r, {})
<1>1. {} \in SUBSET Commands /\ IsFiniteSet({}) /\ Ready(r, {}) BY FS_EmptySet DEF Ready
<1>2. \A n \in ({m} \cup {}) \ ({m} \cap {}) : n.type \in {"term_req", "stop"} OBVIOUS
<1> QED BY <1>1, <1>2, LooseHand

\* own_t::terminate: the owner is asked.
LEMMA AddLoose ==
  ASSUME NEW r, Good(r, {}), NEW m \in Commands, Proper(r, m), m.type \in {"term_req", "stop"}
  PROVE  Good(r, {} \cup {m})
<1> DEFINE H2 == {} \cup {m}
<1>1. H2 \in SUBSET Commands /\ H2 = {m} OBVIOUS
<1>2. IsFiniteSet(H2) BY <1>1, FS_Singleton
<1>3. Ready(r, H2) BY <1>1 DEF Ready
<1>4. \A n \in ({} \cup H2) \ ({} \cap H2) : n.type \in {"term_req", "stop"} BY <1>1
<1> HIDE DEF H2
<1> QED BY <1>1, <1>2, <1>3, <1>4, LooseHand

Aside(x, y) ==
    /\ SameId(x, y) /\ SameStage(x, y) /\ SameLink(x, y) /\ SamePipes(x, y) /\ SameAcks(x, y)
    /\ SameCounts(x, y)
\* What changes only ctx_terminated or the endpoints of a socket.
LEMMA AsideStep ==
  ASSUME NEW r, NEW H, Good(r, H), NEW o \in Actors, Live(r, o), NEW r2, NEW y,
         Edit(r, r2, o, y), Aside(r.own[o], y)
  PROVE  Good(r2, H) /\ (\A p \in Actors : Waits(r, p) => Waits(r2, p)) /\ Beside(r, r2)
<1>1. /\ r \in States /\ Kinds(r) /\ ~r.failed /\ Ready(r, H)
      /\ Objects \subseteq Actors /\ Sockets \subseteq Actors
      /\ H \in SUBSET Commands /\ IsFiniteSet(H)
  BY DEF Good, Actors
<1>2. /\ r2 \in States /\ r2.own[o] = y /\ \A p \in Actors : p # o => r2.own[p] = r.own[p]
  BY DEF Edit
<1>3. r2.mail = r.mail /\ r2.pipes = r.pipes /\ r2.failed = r.failed BY DEF Edit
<1>4. KindOK(o, y)
  <2>1. /\ r.own[o].pending => r.own[o].kind = "session"
        /\ r.own[o].terminating => r.own[o].owned = {}
        /\ o \in Sockets => (r.own[o].terminating => r.own[o].reaping)
        /\ o \in Objects => r.own[o].pipes = {} /\ ~r.own[o].destroyed /\ ~r.own[o].reaping
    BY <1>1 DEF Kinds
  <2> QED BY <2>1 DEF KindOK, Aside, SameId, SameStage, SamePipes, SameAcks
<1>5. Frame(r, H, r2) BY <1>4, EditFrame DEF Aside
<1>6. \A p \in Actors : Aside(r.own[p], r2.own[p])
  <2> SUFFICES ASSUME NEW p \in Actors PROVE Aside(r.own[p], r2.own[p]) OBVIOUS
  <2>1. CASE p = o BY <1>2, <2>1
  <2>2. CASE p # o
    BY <1>2, <2>2 DEF Aside, SameId, SameStage, SamePipes, SameLink, SameAcks, SameCounts
  <2> QED BY <2>1, <2>2
<1>7. \A p \in Actors : /\ SameStage(r.own[p], r2.own[p]) /\ SameLink(r.own[p], r2.own[p])
                        /\ SameAcks(r.own[p], r2.own[p]) /\ SameCounts(r.own[p], r2.own[p])
                        /\ SamePipes(r.own[p], r2.own[p]) /\ SameId(r.own[p], r2.own[p])
  BY <1>6 DEF Aside
<1>8. Held(r2, H) /\ EndsOK(r2) BY <1>3, <1>5, <1>7, KeepPipes
<1>9. Ready(r2, H) BY <1>1, <1>5 DEF Ready, Frame
<1>10. \A p \in Actors : Cnt(r2, H, p) = Cnt(r, H, p) BY <1>5 DEF Frame
<1>11. Alike2(H, H) BY DEF Alike2
<1>12. Good(r2, H) /\ \A p \in Actors : Waits(r, p) => Waits(r2, p)
  BY <1>1, <1>2, <1>3, <1>5, <1>7, <1>8, <1>9, <1>10, <1>11, QuietStep
<1>13. Beside(r, r2) BY <1>1, <1>3, <1>7 DEF Beside, SameId, SamePipes
<1> QED BY <1>12, <1>13
-----------------------------------------------------------------------------
(* The end of an object. *)

Marked(x, y) ==
    /\ SameId(x, y) /\ SameStage(x, y) /\ SameLink(x, y) /\ SamePipes(x, y) /\ SameCounts(x, y)
    /\ y.term_acks = x.term_acks /\ y.destroyed = TRUE
\* socket_base_t::process_destroy.
LEMMA MarkStep ==
  ASSUME NEW r, Good(r, {}), NEW s \in Sockets, Live(r, s), r.own[s].terminating,
         r.own[s].sent_seqnum = r.own[s].processed_seqnum, r.own[s].term_acks = 0,
         \A p \in Actors \ {s} : Waits(r, p), NEW r2, NEW y, Edit(r, r2, s, y), Marked(r.own[s], y)
  PROVE  Good(r2, {}) /\ Busy(r2) /\ Beside(r, r2)
<1>1. /\ r \in States /\ Kinds(r) /\ ~r.failed /\ Balanced(r, {}) /\ s \in Actors
      /\ Objects \subseteq Actors /\ Sockets \subseteq Actors
  BY DEF Good, Actors
<1>2. /\ r2 \in States /\ r2.own[s] = y /\ \A p \in Actors : p # s => r2.own[p] = r.own[p]
  BY DEF Edit
<1>3. r2.mail = r.mail /\ r2.pipes = r.pipes /\ r2.failed = r.failed BY DEF Edit
<1>4. s \notin Objects BY OwnershipAssumption
<1>5. KindOK(s, y)
  <2>1. /\ r.own[s].pending => r.own[s].kind = "session"
        /\ r.own[s].terminating => r.own[s].owned = {}
        /\ r.own[s].terminating => r.own[s].reaping
    BY <1>1 DEF Kinds
  <2> QED BY <1>4, <2>1 DEF KindOK, Marked, SameId, SameStage, SamePipes
<1>6. Frame(r, {}, r2) BY <1>1, <1>5, EditFrame DEF Marked
<1>7. \A p \in Actors : /\ SameId(r.own[p], r2.own[p]) /\ SameStage(r.own[p], r2.own[p])
                        /\ SamePipes(r.own[p], r2.own[p]) /\ SameLink(r.own[p], r2.own[p])
                        /\ SameCounts(r.own[p], r2.own[p])
                        /\ r2.own[p].term_acks = r.own[p].term_acks
  <2> SUFFICES ASSUME NEW p \in Actors
               PROVE  /\ SameId(r.own[p], r2.own[p]) /\ SameStage(r.own[p], r2.own[p])
                      /\ SamePipes(r.own[p], r2.own[p]) /\ SameLink(r.own[p], r2.own[p])
                      /\ SameCounts(r.own[p], r2.own[p])
                      /\ r2.own[p].term_acks = r.own[p].term_acks
    OBVIOUS
  <2>1. CASE p = s BY <1>2, <2>1 DEF Marked
  <2>2. CASE p # s BY <1>2, <2>2 DEF SameId, SameStage, SamePipes, SameLink, SameCounts
  <2> QED BY <2>1, <2>2
<1>8. Stages(r2, {}) /\ Owned(r2) BY <1>6, <1>7, KeepStages
<1>9. Engines(r2, {}) BY <1>6, <1>7, KeepEngines
<1>10. Rooms(r2) BY <1>6, <1>7, KeepRooms DEF SameStage
<1>11. Held(r2, {}) /\ EndsOK(r2) BY <1>3, <1>6, <1>7, KeepPipes
<1>12. Balanced(r2, {})
  <2>1. Moved(r, {}, r2, {}) /\ Naturals(r, {}) BY <1>6 DEF Frame
  <2>2. /\ \A o \in Actors : Num(r2, {}, Ack(o)) = Num(r, {}, Ack(o))
        /\ \A o \in Actors, c \in Objects : Num(r2, {}, Owns(o, c)) = Num(r, {}, Owns(o, c))
    BY <2>1 DEF Moved, Naturals, Bit
  <2>3. \A c, p : Child(r2, c, p) <=> Child(r, c, p) BY <1>6 DEF Frame
  <2>4. \A p \in Actors : /\ Told(r2, {}, p) = Told(r, {}, p) /\ Left(r2.own[p]) = Left(r.own[p])
                          /\ Cnt(r2, {}, p) = Cnt(r, {}, p) /\ (Live(r2, p) <=> Live(r, p))
    BY <1>6, <1>7, <2>2, <2>3 DEF Told, Left, SameStage, SamePipes, Frame
  <2>5. \A p \in Actors : r2.own[p].destroyed =>
          \/ r.own[p].destroyed
          \/ r2.own[p].terminating /\ r2.own[p].sent_seqnum = r2.own[p].processed_seqnum
             /\ r2.own[p].term_acks = 0
    BY <1>1, <1>2, <1>7 DEF SameStage, SameCounts
  <2> QED BY <1>1, <1>7, <2>2, <2>4, <2>5 DEF Balanced, SameStage, SameCounts
<1>13. Ready(r2, {}) BY DEF Ready
<1>14. Good(r2, {})
  BY <1>1, <1>2, <1>3, <1>6, <1>8, <1>9, <1>10, <1>11, <1>12, <1>13, FS_EmptySet DEF Good, Frame
<1>15. Busy(r2)
  <2>1. r2.own[s].destroyed BY <1>2 DEF Marked
  <2> QED BY <1>2, <2>1 DEF Busy, Waits
<1>16. Beside(r, r2) BY <1>1, <1>3, <1>7 DEF Beside, SameId, SamePipes
<1> QED BY <1>14, <1>15, <1>16

\* The owner of an object is there.
LEMMA OwnerThere ==
  ASSUME NEW r, NEW H, Good(r, H), NEW c \in Objects, Live(r, c)
  PROVE  /\ r.own[c].owner \in Actors /\ Live(r, r.own[c].owner) /\ r.own[c].owner # c
         /\ ~r.own[r.own[c].owner].destroyed
<1> DEFINE w == r.own[c].owner
<1>1. /\ r \in States /\ Kinds(r) /\ Owners(r) /\ Objects \subseteq Actors /\ Sockets \subseteq Actors
      /\ Balanced(r, H)
  BY DEF Good, Actors
<1>2. r.own[c].kind \in {"listener", "session", "connecter"} BY <1>1 DEF Kinds, Live
<1>3. w \in Actors /\ Live(r, w) /\ w # c
  BY <1>1, <1>2, OwnershipAssumption DEF Owners, Live
<1>4. ASSUME r.own[w].destroyed PROVE FALSE
  <2>1. r.own[w].owned = {} /\ r.own[w].sent_seqnum = r.own[w].processed_seqnum
        /\ r.own[w].term_acks = 0
    BY <1>1, <1>3, <1>4 DEF Balanced, Kinds
  <2>2. ~Child(r, c, w) BY <1>3, <2>1, Childless
  <2> QED BY <2>2 DEF Child
<1> QED BY <1>3, <1>4

\* No command is left for an object that waits for nothing, and none tells of it.
LEMMA NothingLeft ==
  ASSUME NEW r, Good(r, {}), NEW o \in Objects, Live(r, o), r.own[o].terminating,
         r.own[o].sent_seqnum = r.own[o].processed_seqnum, r.own[o].term_acks = 0
  PROVE  /\ \A t \in Slots : \A i \in DOMAIN r.mail[t] : r.mail[t][i].dest # o
         /\ \A t \in Slots : \A i \in DOMAIN r.mail[t] : r.mail[t][i].type = "own" =>
              r.mail[t][i].arg # o
         /\ \A c : ~Child(r, c, o)
         /\ \A p \in Actors : o \notin r.own[p].owned
         /\ Num(r, {}, Owns(r.own[o].owner, o)) = 0
<1> DEFINE w == r.own[o].owner
<1>1. /\ r \in States /\ Kinds(r) /\ Routed(r) /\ Requests(r) /\ Stages(r, {}) /\ Owned(r)
      /\ o \in Actors /\ IsFiniteSet({}) /\ Objects \subseteq Actors
  BY DEF Good, Actors
<1>2. r.own[o].owned = {} BY <1>1 DEF Kinds
<1>3. /\ \A c : ~Child(r, c, o)
      /\ Cnt(r, {}, o) = 0 /\ Num(r, {}, Ack(o)) = 0
  BY <1>1, <1>2, Childless
<1>4. w \in Actors /\ Live(r, w) BY OwnerThere
<1>5. Naturals(r, {}) BY <1>1, AllNaturals
<1>6. Num(r, {}, Term(o)) = 0 /\ Num(r, {}, Owns(w, o)) = 0 /\ o \notin r.own[w].owned
  <2> DEFINE a == Num(r, {}, Owns(w, o))
             b == o \in r.own[w].owned
             c == Num(r, {}, Term(o))
             d == r.own[o].pending
             e == r.own[o].terminating
  <2>1. a + Bit(b) + c + Bit(d) + Bit(e) = 1 BY <1>1 DEF Stages
  <2>2. a \in Nat /\ c \in Nat /\ e BY <1>4, <1>5 DEF Naturals
  <2> HIDE DEF a, b, c, d, e
  <2>3. a = 0 /\ ~b /\ c = 0 BY <2>1, <2>2 DEF Bit
  <2> QED BY <2>3 DEF a, b, c
<1>7. \A p \in Actors : o \notin r.own[p].owned
  <2>1. \A p \in Actors : o \in r.own[p].owned => p = w BY <1>1 DEF Owned, Child
  <2> QED BY <1>6, <2>1
<1>8. ASSUME NEW m \in Commands, m.dest \in Actors, Num(r, {}, m) = 0,
             NEW t \in Slots, NEW i \in DOMAIN r.mail[t], r.mail[t][i] = m
      PROVE  FALSE
  <2>1. Live(r, m.dest) /\ r.own[m.dest].tid = t BY <1>1, <1>8 DEF Routed, Proper
  <2>2. Box(r, m.dest) = r.mail[t] BY <2>1 DEF Box
  <2>3. Box(r, m.dest) \in Seq(Commands) BY <1>1, <1>8, BoxType
  <2>4. Count(Box(r, m.dest), {m}) \in Nat /\ Count(Box(r, m.dest), {m}) # 0
    <3> DEFINE q == Box(r, m.dest)
    <3>1. i \in DOMAIN q /\ q[i] \in {m} BY <1>8, <2>2
    <3>2. Count(q, {m}) \in Nat /\ (Count(q, {m}) = 0 <=> \A k \in DOMAIN q : q[k] \notin {m})
      BY <2>3, Places
    <3> QED BY <3>1, <3>2
  <2>5. Num(r, {}, m) = Count(Box(r, m.dest), {m}) + Bit(m \in {}) BY NumHand
  <2> QED BY <1>8, <2>4, <2>5 DEF Bit
<1>9. ASSUME NEW t \in Slots, NEW i \in DOMAIN r.mail[t]
      PROVE  r.mail[t][i] \in Commands /\ Proper(r, r.mail[t][i])
  <2>1. r.mail[t] \in Seq(Commands) BY <1>1 DEF States, Boxes
  <2> HIDE DEF w
  <2> QED BY <1>1, <2>1 DEF Routed
<1>10. ASSUME NEW t \in Slots, NEW i \in DOMAIN r.mail[t], r.mail[t][i] \in Counted(o)
       PROVE  FALSE
  <2> DEFINE m == r.mail[t][i]
  <2>1. m \in Commands /\ m.dest \in Actors BY <1>9 DEF Proper
  <2>2. Num(r, {}, m) = 0 BY <1>1, <1>3, <1>10, <2>1, CntCovers
  <2> QED BY <1>8, <2>1, <2>2
<1>11. ASSUME NEW t \in Slots, NEW i \in DOMAIN r.mail[t], r.mail[t][i].dest = o PROVE FALSE
  <2> DEFINE m == r.mail[t][i]
  <2>1. m \in Commands /\ Proper(r, m) /\ m.dest = o BY <1>9, <1>11
  <2>2. m = Cmd(m.type, m.dest, m.arg)
    <3> HIDE DEF m
    <3> QED BY <2>1 DEF Commands, Cmd
  <2>3. m.type \notin {"plug", "own", "attach", "bind"} BY <1>10, <2>1 DEF Counted
  <2>4. m.type # "term"
    <3>1. m.type = "term" => m = Term(o) BY <2>1, <2>2 DEF Proper, Term
    <3> QED BY <1>6, <1>8, <2>1, <3>1 DEF Proper
  <2>5. ASSUME NEW j \in DOMAIN r.mail[t], r.mail[t][j] = Ack(o) PROVE FALSE
    <3>1. Ack(o) \in Commands /\ Ack(o).dest \in Actors BY <1>1, VocabularyTypes
    <3> QED BY <1>3, <1>8, <2>5, <3>1
  <2>6. m.type # "term_ack"
    <3>1. m.type = "term_ack" => m = Ack(o) BY <2>1, <2>2 DEF Proper, Ack
    <3> QED BY <2>5, <3>1
  <2>7. m.type # "term_req" BY <1>1, <1>3, <1>11, <2>5 DEF Requests
  <2>8. m.type # "stop" BY <2>1, OwnershipAssumption DEF Proper
  <2> HIDE DEF m
  <2> QED BY <2>1, <2>3, <2>4, <2>6, <2>7, <2>8 DEF Proper
<1>12. ASSUME NEW t \in Slots, NEW i \in DOMAIN r.mail[t], r.mail[t][i].type = "own",
              r.mail[t][i].arg = o
       PROVE  FALSE
  <2> DEFINE m == r.mail[t][i]
  <2>1. m \in Commands /\ Proper(r, m) /\ m.type = "own" /\ m.arg = o BY <1>9, <1>12
  <2>2. m = Cmd(m.type, m.dest, m.arg)
    <3> HIDE DEF m
    <3> QED BY <2>1 DEF Commands, Cmd
  <2>3. m.dest = w BY <2>1 DEF Proper
  <2>4. m = Owns(w, o) BY <2>1, <2>2, <2>3 DEF Owns
  <2> QED BY <1>4, <1>6, <1>8, <2>1, <2>3, <2>4
<1> QED BY <1>3, <1>6, <1>7, <1>11, <1>12

\* own_t::process_destroy: the object is gone and its owner is told.
LEMMA DeleteStep ==
  ASSUME NEW r, Good(r, {}), NEW o \in Objects, Live(r, o), r.own[o].terminating,
         r.own[o].sent_seqnum = r.own[o].processed_seqnum, r.own[o].term_acks = 0,
         \A p \in Actors \ {o} : Waits(r, p), NEW w, w = r.own[o].owner,
         NEW r2, Edit(r, r2, o, Deleted)
  PROVE  /\ Good(Post(r2, Ack(w)), {}) /\ OnlyMail(r2, Post(r2, Ack(w)))
         /\ Busy(r2) /\ Beside(r, r2) /\ w # o /\ Live(r, w) /\ w \in Actors
<1> DEFINE H2 == {} \cup {Ack(w)}
<1>1. /\ r \in States /\ Kinds(r) /\ Routed(r) /\ Requests(r) /\ Stages(r, {}) /\ Owned(r)
      /\ o \in Actors /\ IsFiniteSet({}) /\ Objects \subseteq Actors /\ Sockets \subseteq Actors
      /\ Owners(r) /\ Engines(r, {}) /\ Held(r, {}) /\ EndsOK(r) /\ Balanced(r, {}) /\ Rooms(r)
      /\ ~r.failed
  BY DEF Good, Actors
<1>2. /\ r2 \in States /\ r2.own[o] = Deleted /\ \A p \in Actors : p # o => r2.own[p] = r.own[p]
  BY DEF Edit
<1>3. r2.mail = r.mail /\ r2.pipes = r.pipes /\ r2.failed = r.failed BY DEF Edit
<1>4. w \in Actors /\ Live(r, w) /\ w # o BY OwnerThere
<1>5. /\ \A t \in Slots : \A i \in DOMAIN r.mail[t] : r.mail[t][i].dest # o
      /\ \A t \in Slots : \A i \in DOMAIN r.mail[t] : r.mail[t][i].type = "own" =>
           r.mail[t][i].arg # o
      /\ \A c : ~Child(r, c, o)
      /\ \A p \in Actors : o \notin r.own[p].owned
      /\ Num(r, {}, Owns(w, o)) = 0
  BY NothingLeft
<1>6. /\ Deleted.kind = "deleted" /\ Deleted.pipes = {} /\ ~Deleted.destroyed /\ ~Deleted.reaping
      /\ ~Deleted.pending /\ ~Deleted.terminating /\ Deleted.owned = {}
  BY DEF Deleted, Unborn
<1>7. ~Live(r2, o) /\ \A p \in Actors : p # o => (Live(r2, p) <=> Live(r, p))
  BY <1>2, <1>6 DEF Live
<1>8. o \notin Sockets BY OwnershipAssumption
<1>9. \A s \in Sockets : r2.own[s] = r.own[s] BY <1>1, <1>2, <1>8
<1>10. \A m : Proper(r, m) /\ m.dest # o /\ (m.type = "own" => m.arg # o) => Proper(r2, m)
  BY <1>1, <1>2, <1>7 DEF Proper
<1>11. \A c, p : Child(r2, c, p) <=> Child(r, c, p) /\ c # o
  BY <1>1, <1>2, <1>7 DEF Child
<1>12. Kinds(r2)
  <2>1. \A c \in Objects : /\ r2.own[c].kind \in {"unborn", "listener", "session", "connecter", "deleted"}
                           /\ Live(r2, c) => r2.own[c].tid \in IoThreads
                           /\ r2.own[c].pipes = {} /\ ~r2.own[c].destroyed /\ ~r2.own[c].reaping
    <3> SUFFICES ASSUME NEW c \in Objects
                 PROVE /\ r2.own[c].kind \in {"unborn", "listener", "session", "connecter", "deleted"}
                       /\ Live(r2, c) => r2.own[c].tid \in IoThreads
                       /\ r2.own[c].pipes = {} /\ ~r2.own[c].destroyed /\ ~r2.own[c].reaping
      OBVIOUS
    <3>1. CASE c = o BY <1>2, <1>6, <1>7, <3>1
    <3>2. CASE c # o BY <1>1, <1>2, <1>7, <3>2 DEF Kinds
    <3> QED BY <3>1, <3>2
  <2>2. \A p \in Actors : /\ r2.own[p].kind = "unborn" => r2.own[p] = Unborn
                          /\ r2.own[p].kind = "deleted" => r2.own[p] = Deleted
                          /\ r2.own[p].pending => r2.own[p].kind = "session"
                          /\ r2.own[p].terminating => r2.own[p].owned = {}
    <3> SUFFICES ASSUME NEW p \in Actors
                 PROVE /\ r2.own[p].kind = "unborn" => r2.own[p] = Unborn
                       /\ r2.own[p].kind = "deleted" => r2.own[p] = Deleted
                       /\ r2.own[p].pending => r2.own[p].kind = "session"
                       /\ r2.own[p].terminating => r2.own[p].owned = {}
      OBVIOUS
    <3>1. CASE p = o BY <1>2, <1>6, <3>1
    <3>2. CASE p # o BY <1>1, <1>2, <3>2 DEF Kinds
    <3> QED BY <3>1, <3>2
  <2>3. \A s \in Sockets : /\ r2.own[s].kind \in {"unborn", "socket", "deleted"}
                           /\ r2.own[s].kind = "socket" => r2.own[s].tid = s
                           /\ r2.own[s].terminating => r2.own[s].reaping
    BY <1>1, <1>9 DEF Kinds
  <2> QED BY <2>1, <2>2, <2>3 DEF Kinds
<1>13. Owners(r2)
  <2> SUFFICES ASSUME NEW c \in Objects, r2.own[c].kind \in {"listener", "session", "connecter"}
               PROVE  /\ r2.own[c].kind = "listener" =>
                           r2.own[c].owner \in Sockets /\ r2.own[r2.own[c].owner].kind = "socket"
                      /\ r2.own[c].kind = "connecter" =>
                           r2.own[c].owner \in Objects /\ r2.own[r2.own[c].owner].kind = "session"
                      /\ r2.own[c].kind = "session" =>
                           /\ r2.own[c].socket \in Sockets /\ r2.own[r2.own[c].socket].kind = "socket"
                           /\ \/ r2.own[c].owner = r2.own[c].socket
                              \/ /\ r2.own[c].owner \in Objects
                                 /\ r2.own[r2.own[c].owner].kind = "listener"
                                 /\ r2.own[r2.own[c].owner].owner = r2.own[c].socket
    BY DEF Owners
  <2>1. c # o BY <1>2, <1>6
  <2>2. r2.own[c] = r.own[c] /\ Live(r, c) BY <1>1, <1>2, <2>1 DEF Live
  <2>3. r.own[c].owner # o BY <1>5, <2>2 DEF Child
  <2> QED BY <1>1, <1>2, <1>9, <2>2, <2>3 DEF Owners
<1>14. Routed(r2)
  <2> SUFFICES ASSUME NEW t \in Slots, NEW i \in DOMAIN r.mail[t]
               PROVE  Proper(r2, r.mail[t][i]) /\ r2.own[r.mail[t][i].dest].tid = t
    BY <1>3 DEF Routed
  <2>1. Proper(r, r.mail[t][i]) /\ r.own[r.mail[t][i].dest].tid = t BY <1>1 DEF Routed
  <2>2. r.mail[t][i].dest # o /\ r.mail[t][i].dest \in Actors BY <1>5, <2>1 DEF Proper
  <2> QED BY <1>2, <1>5, <1>10, <2>1, <2>2
<1>15. Owned(r2)
  <2> SUFFICES ASSUME NEW p \in Actors, NEW c \in r2.own[p].owned PROVE Child(r2, c, p) BY DEF Owned
  <2>1. p # o BY <1>2, <1>6
  <2>2. c \in r.own[p].owned BY <1>2, <2>1
  <2> QED BY <1>1, <1>5, <1>11, <2>2 DEF Owned
<1>16. Ack(w).dest = w /\ Ack(w) \in Commands /\ Ack(w).type = "term_ack" /\ Ack(w).arg = Null
  BY <1>4, VocabularyTypes DEF Ack, Cmd
<1>17. Proper(r2, Ack(w)) BY <1>4, <1>7, <1>16 DEF Proper
<1>18. /\ Ready(r2, H2) /\ H2 \in SUBSET Commands /\ IsFiniteSet(H2) /\ Ack(w) \notin {}
       /\ \A m : m \in H2 <=> m = Ack(w)
  <2>1. H2 = {Ack(w)} OBVIOUS
  <2>2. IsFiniteSet(H2) BY <2>1, FS_Singleton
  <2>3. Ready(r2, H2) BY <1>17, <2>1 DEF Ready
  <2> QED BY <1>16, <2>1, <2>2, <2>3
<1> HIDE DEF H2
<1>19. \A p \in Actors : p # o => Box(r2, p) = Box(r, p) BY <1>2, <1>3, <1>7 DEF Box
<1>20. \A m \in Commands : m.dest \in Actors /\ m.dest # o =>
         Num(r2, H2, m) = Num(r, {}, m) + Bit(m = Ack(w)) /\ Num(r, {}, m) \in Nat
  <2> SUFFICES ASSUME NEW m \in Commands, m.dest \in Actors, m.dest # o
               PROVE Num(r2, H2, m) = Num(r, {}, m) + Bit(m = Ack(w)) /\ Num(r, {}, m) \in Nat
    OBVIOUS
  <2> DEFINE n == Count(Box(r, m.dest), {m})
  <2>1. Num(r2, H2, m) = n + Bit(m \in H2) BY <1>19, NumHand
  <2>2. Num(r, {}, m) = n + Bit(m \in {}) BY NumHand
  <2>3. Box(r, m.dest) \in Seq(Commands) BY <1>1, BoxType
  <2>4. n \in Nat BY <2>3, Places
  <2> HIDE DEF n
  <2>5. Bit(m \in {}) = 0 /\ Bit(m \in H2) = Bit(m = Ack(w)) BY <1>18 DEF Bit
  <2>6. Bit(m = Ack(w)) \in Nat BY DEF Bit
  <2> QED BY <2>1, <2>2, <2>4, <2>5, <2>6
<1>21. /\ \A c \in Objects : c # o => /\ Num(r2, H2, Plug(c)) = Num(r, {}, Plug(c))
                                      /\ Num(r2, H2, Term(c)) = Num(r, {}, Term(c))
                                      /\ Num(r2, H2, Attach(c)) = Num(r, {}, Attach(c))
       /\ \A p \in Actors, c \in Objects : p # o =>
             /\ Num(r2, H2, Owns(p, c)) = Num(r, {}, Owns(p, c))
             /\ Num(r2, H2, Binds(p, c)) = Num(r, {}, Binds(p, c))
  <2>1. \A m \in Commands : m.dest \in Actors /\ m.dest # o /\ m # Ack(w) =>
          Num(r2, H2, m) = Num(r, {}, m)
    BY <1>20 DEF Bit
  <2> QED BY <1>1, <1>4, <2>1, Vocabulary, VocabularyTypes
<1>22. \A p \in Actors : p # o => /\ Num(r2, H2, Ack(p)) = Num(r, {}, Ack(p)) + Bit(p = w)
                                  /\ Num(r, {}, Ack(p)) \in Nat
  <2> SUFFICES ASSUME NEW p \in Actors, p # o
               PROVE  /\ Num(r2, H2, Ack(p)) = Num(r, {}, Ack(p)) + Bit(p = w)
                      /\ Num(r, {}, Ack(p)) \in Nat
    OBVIOUS
  <2>1. Ack(p) \in Commands /\ Ack(p).dest = p BY VocabularyTypes
  <2>2. Ack(p) = Ack(w) <=> p = w BY <1>4, Vocabulary
  <2> QED BY <1>20, <2>1, <2>2
<1>23. \A p \in Actors : p # o => Cnt(r2, H2, p) = Cnt(r, {}, p)
  <2> SUFFICES ASSUME NEW p \in Actors, p # o PROVE Cnt(r2, H2, p) = Cnt(r, {}, p) OBVIOUS
  <2>1. Ack(w) \notin Counted(p) BY <1>4, VocabularyCounted
  <2>2. H2 \cap Counted(p) = {} BY <1>18, <2>1
  <2>3. Cnt(r2, H2, p) = Cnt(r2, {}, p) BY <2>2, HandNone
  <2> QED BY <1>19, <2>3 DEF Cnt, Total
<1>24. Stages(r2, H2)
  <2> SUFFICES ASSUME NEW c \in Objects, Live(r2, c)
               PROVE  /\ Num(r2, H2, Plug(c)) + Bit(r2.own[c].plugged) = 1
                      /\ Num(r2, H2, Owns(r2.own[c].owner, c)) + Bit(c \in r2.own[r2.own[c].owner].owned)
                         + Num(r2, H2, Term(c)) + Bit(r2.own[c].pending) + Bit(r2.own[c].terminating) = 1
    BY DEF Stages
  <2>1. c # o /\ Live(r, c) /\ r2.own[c] = r.own[c] BY <1>1, <1>2, <1>7
  <2>2. r.own[c].owner # o /\ r.own[c].owner \in Actors BY <1>5, <2>1, OwnerThere DEF Child
  <2>3. r2.own[r.own[c].owner] = r.own[r.own[c].owner] BY <1>2, <2>2
  <2>4. /\ Num(r, {}, Plug(c)) + Bit(r.own[c].plugged) = 1
        /\ Num(r, {}, Owns(r.own[c].owner, c)) + Bit(c \in r.own[r.own[c].owner].owned)
           + Num(r, {}, Term(c)) + Bit(r.own[c].pending) + Bit(r.own[c].terminating) = 1
    BY <1>1, <2>1 DEF Stages
  <2> QED BY <1>21, <2>1, <2>2, <2>3, <2>4
<1>25. Engines(r2, H2)
  <2> SUFFICES ASSUME NEW c \in Objects, r2.own[c].kind = "session"
               PROVE  /\ Bit(r2.own[c].active /\ ~r2.own[c].plugged) + Bit(Dials(r2, c) # {})
                         + Num(r2, H2, Attach(c)) + Bit(r2.own[c].engine) <= 1
                      /\ \A k, l \in Dials(r2, c) : k = l
    BY DEF Engines
  <2>1. c # o /\ r2.own[c] = r.own[c] BY <1>1, <1>2, <1>6
  <2>2. Dials(r2, c) \subseteq Dials(r, c)
    <3>1. \A k \in Objects : r2.own[k].kind = "connecter" => r2.own[k] = r.own[k] BY <1>1, <1>2, <1>6
    <3> QED BY <3>1 DEF Dials
  <2>3. /\ Bit(r.own[c].active /\ ~r.own[c].plugged) + Bit(Dials(r, c) # {})
           + Num(r, {}, Attach(c)) + Bit(r.own[c].engine) <= 1
        /\ \A k, l \in Dials(r, c) : k = l
    BY <1>1, <2>1 DEF Engines
  <2> DEFINE n == Num(r, {}, Attach(c))
             a == r.own[c].active /\ ~r.own[c].plugged
             e == r.own[c].engine
             d == Dials(r, c) # {}
             d2 == Dials(r2, c) # {}
  <2>4. n \in Nat /\ (d2 => d) /\ Bit(a) + Bit(d) + n + Bit(e) <= 1
    <3>1. Naturals(r, {}) BY <1>1, AllNaturals
    <3> QED BY <2>2, <2>3, <3>1 DEF Naturals
  <2>5. Bit(a) + Bit(d2) + n + Bit(e) <= 1
    <3> HIDE DEF n, a, e, d, d2
    <3> QED BY <2>4 DEF Bit
  <2>6. Num(r2, H2, Attach(c)) = n BY <1>21, <2>1
  <2> QED BY <2>1, <2>2, <2>3, <2>5, <2>6
<1>26. Held(r2, H2)
  <2>1. \A s \in Sockets, c \in Objects : /\ Num(r2, H2, Binds(s, c)) = Num(r, {}, Binds(s, c))
                                          /\ Holds(r2, H2, s, c) <=> Holds(r, {}, s, c)
    BY <1>1, <1>8, <1>9, <1>21 DEF Holds
  <2> QED BY <1>1, <1>3, <1>9, <2>1 DEF Held
<1>27. EndsOK(r2)
  <2> SUFFICES ASSUME NEW c \in Objects
               PROVE
      /\ r2.own[c].kind = "unborn" => r2.pipes[c].ends = {}
      /\ 2 \in r2.pipes[c].ends => r2.own[c].kind = "session" /\ ~r2.own[c].terminating
      /\ r2.own[c].pending <=> 2 \in r2.pipes[c].ends /\ 2 \in r2.pipes[c].asked
      /\ r2.own[c].kind = "session" /\ ~r2.own[c].terminating /\ 1 \in r2.pipes[c].ends =>
           2 \in r2.pipes[c].ends
      /\ \A s \in Sockets : r2.own[s].reaping /\ c \in r2.own[s].pipes => 1 \in r2.pipes[c].asked
    BY DEF EndsOK
  <2>1. CASE c = o
    <3>1. 2 \notin r2.pipes[c].ends BY <1>1, <1>3, <2>1 DEF EndsOK
    <3> QED BY <1>1, <1>2, <1>3, <1>6, <1>9, <2>1, <3>1 DEF EndsOK
  <2>2. CASE c # o BY <1>1, <1>2, <1>3, <1>9, <2>2 DEF EndsOK
  <2> QED BY <2>1, <2>2
<1>28. Rooms(r2)
  <2>1. Unused(r2) = Unused(r)
    <3>1. \A c \in Objects : r2.own[c].kind = "unborn" <=> r.own[c].kind = "unborn"
      BY <1>1, <1>2, <1>6 DEF Live
    <3> QED BY <3>1 DEF Unused
  <2>2. Dialling(r2) \subseteq Dialling(r)
    <3>1. \A k \in Objects : r2.own[k].kind = "session" => r2.own[k] = r.own[k] BY <1>1, <1>2, <1>6
    <3> QED BY <3>1 DEF Dialling
  <2>3. Dialling(r) \subseteq Objects /\ Unused(r) \subseteq Objects BY DEF Dialling, Unused
  <2>4. IsFiniteSet(Dialling(r)) /\ IsFiniteSet(Unused(r)) BY <2>3, OwnershipAssumption, FS_Subset
  <2>5. IsFiniteSet(Dialling(r2)) /\ Cardinality(Dialling(r2)) <= Cardinality(Dialling(r))
    BY <2>2, <2>4, FS_Subset
  <2>6. /\ Cardinality(Dialling(r)) \in Nat /\ Cardinality(Dialling(r2)) \in Nat
        /\ Cardinality(Unused(r)) \in Nat
    BY <2>4, <2>5, FS_CardinalityType
  <2>7. Cardinality(Unused(r)) >= Cardinality(Dialling(r)) BY <1>1 DEF Rooms
  <2> QED BY <2>1, <2>5, <2>6, <2>7 DEF Rooms
<1>29. ASSUME NEW p \in Actors, p # o, Live(r, p)
       PROVE  /\ Cardinality(Told(r2, H2, p)) + Bit(p = w) = Cardinality(Told(r, {}, p))
              /\ Cardinality(Told(r2, H2, p)) \in Nat
  <2> DEFINE T == Told(r, {}, p)
             T2 == Told(r2, H2, p)
  <2>1. T \subseteq Objects BY DEF Told
  <2>2. IsFiniteSet(T) BY <2>1, OwnershipAssumption, FS_Subset
  <2>3. T2 = T \ {o}
    <3>1. r2.own[p].owned = r.own[p].owned BY <1>2, <1>29
    <3>2. \A c \in Objects : Num(r2, H2, Owns(p, c)) = Num(r, {}, Owns(p, c)) BY <1>21, <1>29
    <3> QED BY <1>11, <3>1, <3>2 DEF Told
  <2>4. o \in T <=> p = w
    <3>1. Child(r, o, p) <=> p = w BY DEF Child
    <3> QED BY <1>5, <3>1 DEF Told
  <2>5. /\ Cardinality(T \ {o}) = IF o \in T THEN Cardinality(T) - 1 ELSE Cardinality(T)
        /\ Cardinality(T) \in Nat /\ (o \in T => Cardinality(T) # 0)
    BY <2>2, FS_RemoveElement, FS_CardinalityType, FS_EmptySet
  <2>6. IsFiniteSet(T \ {o}) BY <2>2, FS_Subset
  <2>7. Cardinality(T \ {o}) \in Nat BY <2>6, FS_CardinalityType
  <2> HIDE DEF T
  <2>8. Cardinality(T \ {o}) + Bit(p = w) = Cardinality(T) BY <2>4, <2>5 DEF Bit
  <2> QED BY <2>3, <2>7, <2>8 DEF T
<1>30. Balanced(r2, H2)
  <2> SUFFICES ASSUME NEW p \in Actors, Live(r2, p)
               PROVE  /\ r2.own[p].sent_seqnum = r2.own[p].processed_seqnum + Cnt(r2, H2, p)
                      /\ r2.own[p].term_acks = Num(r2, H2, Ack(p)) + Cardinality(Told(r2, H2, p))
                                               + Left(r2.own[p])
                      /\ r2.own[p].destroyed => r2.own[p].terminating
                           /\ r2.own[p].sent_seqnum = r2.own[p].processed_seqnum
                           /\ r2.own[p].term_acks = 0
    BY DEF Balanced
  <2>1. p # o /\ Live(r, p) /\ r2.own[p] = r.own[p] BY <1>2, <1>7
  <2>2. /\ r.own[p].sent_seqnum = r.own[p].processed_seqnum + Cnt(r, {}, p)
        /\ r.own[p].term_acks = Num(r, {}, Ack(p)) + Cardinality(Told(r, {}, p)) + Left(r.own[p])
        /\ r.own[p].destroyed => r.own[p].terminating
             /\ r.own[p].sent_seqnum = r.own[p].processed_seqnum /\ r.own[p].term_acks = 0
    BY <1>1, <2>1 DEF Balanced
  <2>3. Left(r.own[p]) \in Nat BY <1>1, LeftNat
  <2> DEFINE a == Num(r, {}, Ack(p))
             a2 == Num(r2, H2, Ack(p))
             b == Cardinality(Told(r, {}, p))
             b2 == Cardinality(Told(r2, H2, p))
             e == Bit(p = w)
             l == Left(r.own[p])
  <2>4. a2 = a + e /\ b2 + e = b /\ a \in Nat /\ b2 \in Nat /\ l \in Nat
    BY <1>22, <1>29, <2>1, <2>3
  <2>5. e \in Nat BY DEF Bit
  <2>6. a2 + b2 + l = a + b + l
    <3> HIDE DEF a, a2, b, b2, e, l
    <3> QED BY <2>4, <2>5
  <2> QED BY <1>23, <2>1, <2>2, <2>6
<1>31. Fair(r2, H2)
  BY <1>1, <1>2, <1>3, <1>12, <1>13, <1>14, <1>15, <1>18, <1>24, <1>25, <1>26, <1>27, <1>28, <1>30
  DEF Fair
<1>32. RequestsTo(r2, Ack(w))
  <2> SUFFICES ASSUME NEW t \in Slots, NEW i \in DOMAIN r.mail[t], r.mail[t][i].type = "term_req"
               PROVE  \/ Child(r2, r.mail[t][i].arg, r.mail[t][i].dest)
                      \/ Ack(w) = Ack(r.mail[t][i].dest)
                      \/ \E j \in DOMAIN r.mail[t] : i < j /\ r.mail[t][j] = Ack(r.mail[t][i].dest)
    BY <1>3 DEF RequestsTo
  <2>1. \/ Child(r, r.mail[t][i].arg, r.mail[t][i].dest)
        \/ \E j \in DOMAIN r.mail[t] : i < j /\ r.mail[t][j] = Ack(r.mail[t][i].dest)
    BY <1>1 DEF Requests
  <2>2. Child(r, o, r.mail[t][i].dest) => r.mail[t][i].dest = w BY DEF Child
  <2> QED BY <1>11, <2>1, <2>2
<1>33. Good(Post(r2, Ack(w)), {}) /\ OnlyMail(r2, Post(r2, Ack(w)))
  <2>1. Fair(r2, {} \cup {Ack(w)}) BY <1>31 DEF H2
  <2> QED BY <1>16, <1>17, <1>18, <1>32, <2>1, PostFair
<1>34. Busy(r2)
  <2> SUFFICES ASSUME NEW p \in Actors PROVE Waits(r2, p) BY DEF Busy
  <2>1. CASE p = o BY <1>2, <1>6, <2>1 DEF Waits
  <2>2. CASE p # o
    <3>1. Waits(r, p) /\ r2.own[p] = r.own[p] BY <1>2, <2>2
    <3> QED BY <3>1 DEF Waits
  <2> QED BY <2>1, <2>2
<1>35. Beside(r, r2) BY <1>3, <1>9 DEF Beside
<1> QED BY <1>4, <1>33, <1>34, <1>35
=============================================================================
