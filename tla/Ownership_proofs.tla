---------------------------- MODULE Ownership_proofs ----------------------------
(***************************************************************************)
(* For every number of sockets, I/O threads and objects: no command        *)
(* reaches an object that is deleted, nothing outlives the context and     *)
(* zmq_ctx_term never waits for nothing.                                   *)
(***************************************************************************)
EXTENDS OwnershipSteps_proofs

(* The operators of the model. *)

\* Two states with the same parts are the same.
LEMMA StateEq ==
  ASSUME NEW r \in States, NEW r2 \in States, r2.own = r.own, r2.mail = r.mail,
         r2.pipes = r.pipes, r2.failed = r.failed
  PROVE  r2 = r
  BY DEF States

\* One object is changed, whichever of its members.
LEMMA WithEdit ==
  ASSUME NEW r \in States, NEW o \in Actors, NEW y \in Object, NEW r2,
         r2 = [r EXCEPT !.own[o] = y]
  PROVE  r2 = With(r, o, y) /\ Edit(r, r2, o, y)
<1>1. r2 = With(r, o, y) BY DEF With, States
<1> QED BY <1>1, OwnStep

\* What a thread leaves to the next step of the same command.
Done(r, r2) == Good(r2, {}) /\ Busy(r2) /\ Beside(r, r2)

\* The context sees the same, whatever the steps between.
LEMMA BesideTrans ==
  ASSUME NEW r, NEW r2, NEW r3, Beside(r, r2), Beside(r2, r3)
  PROVE  Beside(r, r3)
  BY DEF Beside
\* Posting commands shows the context nothing.
LEMMA BesideMail ==
  ASSUME NEW r, NEW r2, OnlyMail(r, r2)
  PROVE  /\ Beside(r, r2) /\ \A p : Waits(r2, p) <=> Waits(r, p)
         /\ Busy(r2) <=> Busy(r)
  BY DEF Beside, OnlyMail, Waits, Busy

\* own_t::check_term_acks: an object is deleted, and a socket marked, exactly when it
\* waits for nothing; its owner lives and is told.
LEMMA CheckAcks ==
  ASSUME NEW r, Good(r, {}), NEW o \in Actors, Live(r, o), ~r.own[o].destroyed,
         \A p \in Actors \ {o} : Waits(r, p)
  PROVE  Done(r, CheckTermAcks(r, o))
<1> DEFINE x == r.own[o]
           r2 == CheckTermAcks(r, o)
<1>1. /\ r \in States /\ Kinds(r) /\ Owners(r) /\ EndsOK(r) /\ ~r.failed /\ r.own \in [Actors -> Object]
  BY DEF Good, States
<1>2. CASE ~(x.terminating /\ x.processed_seqnum = x.sent_seqnum /\ x.term_acks = 0)
  <2>1. r2 = r BY <1>2 DEF CheckTermAcks
  <2>2. Waits(r, o) BY <1>2 DEF Waits
  <2>3. Busy(r) BY <2>2 DEF Busy
  <2>4. Beside(r, r) BY DEF Beside
  <2> QED BY <2>1, <2>3, <2>4 DEF Done
<1>3. CASE x.terminating /\ x.processed_seqnum = x.sent_seqnum /\ x.term_acks = 0
  <2>1. r2 = Destroy(r, o) BY <1>3 DEF CheckTermAcks
  <2>2. x.owned = {} BY <1>1, <1>3 DEF Kinds
  <2>3. Expect(r, x.owned = {}) = r BY <1>1, <2>2, ExpectOK
  <2>4. CASE o \in Sockets
    <3>1. x.kind = "socket" BY <1>1, <2>4 DEF Kinds, Live
    <3> DEFINE y == [x EXCEPT !.destroyed = TRUE]
    <3>2. r2 = [r EXCEPT !.own[o].destroyed = TRUE] BY <2>1, <2>3, <3>1 DEF Destroy
    <3>3. x \in Object BY <1>1
    <3>4. y \in Object BY <3>3 DEF Object
    <3>5. r2 = [r EXCEPT !.own[o] = y] BY <3>2
    <3>6. Marked(x, y)
      BY <3>3 DEF Marked, Object, SameId, SameStage, SameLink, SamePipes, SameCounts
    <3> HIDE DEF r2, y
    <3>7. Edit(r, r2, o, y) BY <1>1, <3>4, <3>5, WithEdit
    <3>8. /\ r.own[o].terminating /\ r.own[o].sent_seqnum = r.own[o].processed_seqnum
          /\ r.own[o].term_acks = 0
      BY <1>3
    <3>9. Good(r2, {}) /\ Busy(r2) /\ Beside(r, r2)
      BY <2>4, <3>6, <3>7, <3>8, MarkStep
    <3> QED BY <3>9 DEF Done, r2
  <2>5. CASE o \in Objects
    <3> DEFINE w == x.owner
               m == Ack(w)
               d == With(r, o, Deleted)
               r1 == Post(d, m)
    <3>1. x.kind # "socket" BY <1>1, <2>5 DEF Kinds
    <3>2. w \in Actors /\ Live(r, w) /\ w # o BY <2>5, OwnerThere
    <3>3. Deleted \in Object BY DEF Deleted, Unborn, Object
    <3>4. Edit(r, d, o, Deleted) BY <1>1, <3>3, OwnStep
    <3>5. /\ Good(r1, {}) /\ OnlyMail(d, r1) /\ Busy(d) /\ Beside(r, d)
      <4> HIDE DEF d, r1, m
      <4>1. /\ Good(Post(d, Ack(w)), {}) /\ OnlyMail(d, Post(d, Ack(w))) /\ Busy(d) /\ Beside(r, d)
        BY <1>3, <2>5, <3>4, DeleteStep
      <4> QED BY <4>1 DEF r1, m
    <3>6. Busy(r1) /\ Beside(r, r1)
      <4> HIDE DEF d, r1
      <4> QED BY <3>5, BesideMail, BesideTrans
    <3>7. x.kind = "session" => 2 \notin r.pipes[o].ends BY <1>1, <1>3, <2>5 DEF EndsOK
    <3> DEFINE s == [Send(r, "term_ack", w, Null) EXCEPT !.own[o] = Deleted]
    <3>8. r2 = Expect(s, x.kind = "session" => 2 \notin r.pipes[o].ends)
      BY <2>1, <2>3, <3>1 DEF Destroy
    <3>9. s = r1
      <4>1. s = [[r EXCEPT !.mail[r.own[w].tid] = Append(@, m)] EXCEPT !.own[o] = Deleted]
        BY <3>2 DEF Send, Ack
      <4>2. d.own[w] = r.own[w] /\ d.mail = r.mail BY <3>2, <3>4 DEF Edit
      <4>3. m.dest = w BY <3>2, VocabularyTypes
      <4>4. r1 = [d EXCEPT !.mail[r.own[w].tid] = Append(@, m)] BY <4>2, <4>3, ZenonT(20) DEF Post
      <4>5. d = [r EXCEPT !.own[o] = Deleted] BY <1>1 DEF With, States
      <4> HIDE DEF m, w
      <4>6. r1 = [[r EXCEPT !.own[o] = Deleted] EXCEPT !.mail[r.own[w].tid] = Append(@, m)]
        BY <4>4, <4>5
      <4> QED BY <1>1, <4>1, <4>6 DEF States
    <3>10. r1 \in States BY <3>5 DEF Good
    <3>11. r2 = r1
      <4> HIDE DEF s, r1, r2
      <4> QED BY <3>7, <3>8, <3>9, <3>10, ExpectOK
    <3> QED BY <3>5, <3>6, <3>11 DEF Done
  <2> QED BY <2>4, <2>5 DEF Actors
<1> QED BY <1>2, <1>3

\* own_t::process_seqnum: a counted command has been processed.
LEMMA Seqnums ==
  ASSUME NEW r, NEW o \in Actors, Good(r, {Seqnum(o)}), \A p \in Actors \ {o} : Waits(r, p)
  PROVE  Done(r, process_seqnum(r, o))
<1> DEFINE x == r.own[o]
           y == [x EXCEPT !.processed_seqnum = x.processed_seqnum + 1]
           r2 == [r EXCEPT !.own[o].processed_seqnum = @ + 1]
<1>1. r \in States /\ r.own \in [Actors -> Object] BY DEF Good, States
<1>2. x \in Object BY <1>1
<1>3. y \in Object BY <1>2 DEF Object
<1>4. r2 = [r EXCEPT !.own[o] = y] OBVIOUS
<1>5. Passed(x, y)
  BY <1>2 DEF Passed, Object, SameId, SameStage, SameLink, SamePipes, SameAcks
<1>6. process_seqnum(r, o) = CheckTermAcks(r2, o) BY DEF process_seqnum
<1> HIDE DEF r2, y
<1>7. Edit(r, r2, o, y) BY <1>1, <1>3, <1>4, WithEdit
<1>8. /\ Good(r2, {}) /\ (\A p \in Actors \ {o} : Waits(r2, p)) /\ Beside(r, r2)
      /\ Live(r2, o) /\ ~r2.own[o].destroyed
  BY <1>5, <1>7, SeqnumStep
<1>9. Done(r2, CheckTermAcks(r2, o)) BY <1>8, CheckAcks
<1> QED BY <1>6, <1>8, <1>9, BesideTrans DEF Done

\* own_t::unregister_term_ack for the command term_ack: the acknowledgement was waited for.
LEMMA Acks ==
  ASSUME NEW r, NEW o \in Actors, Good(r, {Ack(o)}), \A p \in Actors \ {o} : Waits(r, p)
  PROVE  Done(r, unregister_term_ack(r, o))
<1> DEFINE x == r.own[o]
           y == [x EXCEPT !.term_acks = x.term_acks - 1]
           r2 == [r EXCEPT !.own[o].term_acks = @ - 1]
<1>1. r \in States /\ Kinds(r) /\ r.own \in [Actors -> Object] /\ Ready(r, {Ack(o)}) /\ Balanced(r, {Ack(o)})
      /\ IsFiniteSet({Ack(o)})
  BY DEF Good, States
<1>2. x \in Object BY <1>1
<1>3. x.term_acks > 0
  <2>1. Ack(o) \in {Ack(o)} /\ Ack(o).dest = o /\ Ack(o) \in Commands BY VocabularyTypes
  <2>2. Live(r, o) BY <1>1, <2>1 DEF Ready, Proper
  <2> DEFINE a == Num(r, {Ack(o)}, Ack(o))
             b == Cardinality(Told(r, {Ack(o)}, o))
             l == Left(x)
  <2>3. a \in Nat /\ a > 0 BY <1>1, <2>1, NumNat
  <2>4. Told(r, {Ack(o)}, o) \subseteq Objects BY DEF Told
  <2>5. IsFiniteSet(Told(r, {Ack(o)}, o)) BY <2>4, OwnershipAssumption, FS_Subset
  <2>6. b \in Nat /\ l \in Nat BY <1>1, <2>5, FS_CardinalityType, LeftNat
  <2>7. x.term_acks = a + b + l BY <1>1, <2>2 DEF Balanced
  <2> HIDE DEF a, b, l
  <2> QED BY <2>3, <2>6, <2>7
<1>4. y \in Object BY <1>2, <1>3 DEF Object
<1>5. r2 = [r EXCEPT !.own[o] = y] OBVIOUS
<1>6. Acked(x, y)
  BY <1>2 DEF Acked, Object, SameId, SameStage, SameLink, SamePipes, SameCounts, SameEnd
<1>7. unregister_term_ack(r, o) = CheckTermAcks(Expect(r2, x.term_acks > 0), o)
  BY DEF unregister_term_ack
<1> HIDE DEF r2, y
<1>8. Edit(r, r2, o, y) BY <1>1, <1>4, <1>5, WithEdit
<1>9. /\ Good(r2, {}) /\ (\A p \in Actors \ {o} : Waits(r2, p)) /\ Beside(r, r2)
      /\ Live(r2, o) /\ ~r2.own[o].destroyed
  BY <1>6, <1>8, AckStep
<1>10. Expect(r2, x.term_acks > 0) = r2
  <2>1. r2 \in States BY <1>9 DEF Good
  <2> QED BY <1>3, <2>1, ExpectOK
<1>11. Done(r2, CheckTermAcks(r2, o)) BY <1>9, CheckAcks
<1> QED BY <1>7, <1>9, <1>10, <1>11, BesideTrans DEF Done

\* What own_t::process_term writes into the object itself.
Turned(x) == [x EXCEPT !.term_acks = x.term_acks + Cardinality(x.owned), !.owned = {},
                       !.terminating = TRUE]

\* The same in the words of the model.
LEMMA TurnedWith ==
  ASSUME NEW r \in States, NEW o \in Actors
  PROVE  [r EXCEPT !.own[o].term_acks = @ + Cardinality(r.own[o].owned), !.own[o].owned = {},
                   !.own[o].terminating = TRUE] = With(r, o, Turned(r.own[o]))
<1> DEFINE n == r.own[o].term_acks + Cardinality(r.own[o].owned)
           y1 == [r.own[o] EXCEPT !.term_acks = n]
           y2 == [y1 EXCEPT !.owned = {}]
           y3 == [y2 EXCEPT !.terminating = TRUE]
           r1 == [r EXCEPT !.own[o].term_acks = n]
           r2 == [r1 EXCEPT !.own[o].owned = {}]
           r3 == [r2 EXCEPT !.own[o].terminating = TRUE]
<1>1. /\ DOMAIN r.own = Actors /\ o \in DOMAIN r.own
      /\ r = [own |-> r.own, mail |-> r.mail, pipes |-> r.pipes, failed |-> r.failed]
  BY DEF States
<1>2. [r EXCEPT !.own[o].term_acks = @ + Cardinality(r.own[o].owned), !.own[o].owned = {},
                !.own[o].terminating = TRUE] = r3
  OBVIOUS
<1>3. Turned(r.own[o]) = y3 BY DEF Turned
<1>4. r1 = [r EXCEPT !.own = [r.own EXCEPT ![o] = y1]] OBVIOUS
<1> HIDE DEF n
<1>5. r1.own = [r.own EXCEPT ![o] = y1] /\ r1.own[o] = y1 /\ DOMAIN r1.own = Actors BY <1>1
<1>6. r2 = [r1 EXCEPT !.own = [r1.own EXCEPT ![o] = y2]] BY <1>5
<1> HIDE DEF r1, y1
<1>7. [r1.own EXCEPT ![o] = y2] = [r.own EXCEPT ![o] = y2] BY <1>1, <1>5
<1>8. r2 = [r EXCEPT !.own = [r.own EXCEPT ![o] = y2]] BY <1>1, <1>4, <1>6, <1>7
<1>9. r2.own = [r.own EXCEPT ![o] = y2] /\ r2.own[o] = y2 BY <1>1, <1>8, ZenonT(40)
<1>10. r3 = [r2 EXCEPT !.own = [r2.own EXCEPT ![o] = y3]] BY <1>9
<1> HIDE DEF r2, y2
<1>11. [r2.own EXCEPT ![o] = y3] = [r.own EXCEPT ![o] = y3] BY <1>1, <1>9
<1>12. r3 = [r EXCEPT !.own = [r.own EXCEPT ![o] = y3]] BY <1>1, <1>8, <1>10, <1>11
<1> HIDE DEF r3
<1> QED BY <1>2, <1>3, <1>12 DEF With

\* own_t::process_term: the objects that are owned are told, once the object is marked.
LEMMA OwnTerm ==
  ASSUME NEW r \in States, NEW o \in Actors, Live(r, o), ~r.own[o].terminating, ~r.own[o].destroyed,
         NEW D, D = r.own[o].owned, \A c \in D : Live(r, c),
         NEW r2, r2 = With(r, o, Turned(r.own[o])),
         Good(r2, Terms(D)), \A p \in Actors \ {o} : Waits(r2, p)
  PROVE  Done(r2, OwnProcessTerm(r, o))
<1> DEFINE x == r.own[o]
           y == Turned(x)
           X(q, t) == {Cmd("term", c, Null) : c \in {d \in D : Live(q, d) /\ q.own[d].tid = t}}
           F(q) == [t \in DOMAIN q.mail |-> q.mail[t] \o SetToSeq(X(q, t))]
           r3 == SendTerms(r2, D)
<1>1. r.own \in [Actors -> Object] BY DEF States
<1>2. x \in Object /\ D \in SUBSET Objects /\ Objects \subseteq Actors BY <1>1 DEF Object, Actors
<1>3. /\ y.kind = x.kind /\ y.tid = x.tid /\ y.destroyed = x.destroyed BY <1>2 DEF Turned, Object
<1>4. y \in Object
  <2>1. IsFiniteSet(D) BY <1>2, OwnershipAssumption, FS_Subset
  <2>2. Cardinality(x.owned) \in Nat BY <2>1, FS_CardinalityType
  <2> DEFINE n == x.term_acks + Cardinality(x.owned)
  <2>3. x.term_acks \in Nat BY <1>2 DEF Object
  <2>4. n \in Nat BY <2>2, <2>3
  <2>5. y = [x EXCEPT !.term_acks = n, !.owned = {}, !.terminating = TRUE] BY DEF Turned
  <2> HIDE DEF n, y
  <2> QED BY <1>2, <2>4, <2>5, ZenonT(20) DEF Object
<1>5. Edit(r, r2, o, y) BY <1>4, OwnStep
<1>6. \A p \in Actors : /\ Live(r2, p) <=> Live(r, p)
                        /\ r2.own[p].tid = r.own[p].tid
                        /\ r2.own[p].destroyed = r.own[p].destroyed
  <2> HIDE DEF y
  <2> QED BY <1>3, <1>5 DEF Edit, Live
<1>7. Good(r3, {}) /\ OnlyMail(r2, r3)
  <2>1. \A c \in D : Live(r2, c) BY <1>2, <1>6
  <2> QED BY <1>2, <2>1, PostTerms
<1>8. Live(r3, o) /\ ~r3.own[o].destroyed /\ \A p \in Actors \ {o} : Waits(r3, p)
  <2>1. r3.own = r2.own BY <1>7 DEF OnlyMail
  <2> HIDE DEF r3
  <2> QED BY <1>6, <2>1 DEF Live, Waits
<1>9. Done(r3, CheckTermAcks(r3, o))
  <2> HIDE DEF r3
  <2> QED BY <1>7, <1>8, CheckAcks
<1> DEFINE s == [SendTerms(r, D) EXCEPT
                   !.own[o].term_acks = @ + Cardinality(D), !.own[o].owned = {},
                   !.own[o].terminating = TRUE]
<1>10. OwnProcessTerm(r, o) = CheckTermAcks(Expect(s, ~x.terminating), o)
  BY DEF OwnProcessTerm
<1>11. s = r3
  <2>1. \A t : X(r2, t) = X(r, t)
    <3>1. \A t : {d \in D : Live(r2, d) /\ r2.own[d].tid = t} = {d \in D : Live(r, d) /\ r.own[d].tid = t}
      BY <1>2, <1>6
    <3> QED BY <3>1
  <2>2. r2.mail = r.mail BY <1>5 DEF Edit
  <2>3. F(r2) = F(r)
    <3> HIDE DEF X
    <3> QED BY <2>1, <2>2
  <2>4. r2 \in States BY <1>5 DEF Edit
  <2>5. SendTerms(r, D) = Expect([r EXCEPT !.mail = F(r)], \A c \in D : Live(r, c))
    BY DEF SendTerms
  <2>6. SendTerms(r2, D) = Expect([r2 EXCEPT !.mail = F(r2)], \A c \in D : Live(r2, c))
    BY DEF SendTerms
  <2> HIDE DEF X, F, y
  <2>7. \A c \in D : Live(r2, c) BY <1>2, <1>6
  <2> DEFINE Q == SendTerms(r, D)
  <2>8. [r EXCEPT !.mail = F(r)] \in States /\ [r2 EXCEPT !.mail = F(r)] \in States
    <3>1. Good(r3, {}) BY <1>7
    <3>2. r3.mail = F(r) /\ r3.mail \in [Boxes -> Seq(Commands)]
      BY <2>3, <2>4, <2>6, <3>1, ZenonT(20) DEF Good, States, Expect
    <3> HIDE DEF r3
    <3>3. F(r) \in [Boxes -> Seq(Commands)] BY <3>2
    <3> QED BY <2>4, <3>3, WithMail
  <2>9. Q = [r EXCEPT !.mail = F(r)]
    <3> HIDE DEF Q
    <3> QED BY <2>5, <2>8, ExpectOK DEF Q
  <2>10. r3 = [r2 EXCEPT !.mail = F(r)]
    <3> HIDE DEF r3
    <3> QED BY <2>3, <2>6, <2>7, <2>8, ExpectOK DEF r3
  <2>11. Q \in States /\ Q.own = r.own /\ Q.mail = F(r) /\ Q.pipes = r.pipes /\ Q.failed = r.failed
    BY <2>8, <2>9 DEF States
  <2>12. /\ r3 \in States /\ r3.own = r2.own /\ r3.mail = F(r) /\ r3.pipes = r.pipes
         /\ r3.failed = r.failed
    BY <1>5, <2>4, <2>8, <2>10 DEF States, Edit
  <2> HIDE DEF Q, r3
  <2>13. s = [Q EXCEPT !.own[o].term_acks = @ + Cardinality(Q.own[o].owned), !.own[o].owned = {},
                       !.own[o].terminating = TRUE]
    BY <2>11 DEF Q
  <2> HIDE DEF s
  <2>14. s = With(Q, o, y) BY <2>11, <2>13, TurnedWith, ZenonT(20) DEF y
  <2>15. Edit(Q, s, o, y) BY <1>4, <2>11, <2>14, OwnStep
  <2>16. s.own = r2.own
    <3>1. r2.own = [r.own EXCEPT ![o] = y] BY DEF With, States, y
    <3>2. s.own = [Q.own EXCEPT ![o] = y] BY <2>11, <2>14 DEF With, States
    <3> QED BY <2>11, <3>1, <3>2
  <2>17. s \in States /\ s.mail = F(r) /\ s.pipes = r.pipes /\ s.failed = r.failed
    BY <2>11, <2>15 DEF Edit
  <2> QED BY <2>12, <2>16, <2>17, StateEq
<1>12. Expect(s, ~x.terminating) = s
  <2>1. r3 \in States BY <1>7 DEF Good
  <2> HIDE DEF s, r3
  <2> QED BY <1>11, <2>1, ExpectOK
<1>13. Beside(r2, r3) BY <1>7, BesideMail
<1> HIDE DEF s, r3
<1> QED BY <1>9, <1>10, <1>11, <1>12, <1>13, BesideTrans DEF Done

\* An end of a pipe is deleted.
LEMMA EndedPipes ==
  ASSUME NEW r \in States, NEW c \in Objects, NEW e \in {1, 2}
  PROVE  /\ OnlyPipes(r, [r EXCEPT !.pipes[c].ends = @ \ {e}])
         /\ Ended(r, [r EXCEPT !.pipes[c].ends = @ \ {e}], c, e)
<1> DEFINE r2 == [r EXCEPT !.pipes[c].ends = @ \ {e}]
           f == [r.pipes EXCEPT ![c].ends = r.pipes[c].ends \ {e}]
<1>1. r.pipes \in [Objects -> PipeState] BY DEF States
<1>2. f \in [Objects -> PipeState] BY <1>1 DEF PipeState
<1>3. r2 = [r EXCEPT !.pipes = f] OBVIOUS
<1>4. \A d \in Objects : /\ f[d].asked = r.pipes[d].asked
                         /\ f[d].ends = IF d = c THEN r.pipes[d].ends \ {e} ELSE r.pipes[d].ends
  BY <1>1 DEF PipeState
<1> HIDE DEF f, r2
<1>5. r2 \in States /\ r2.pipes = f /\ r2.own = r.own /\ r2.mail = r.mail /\ r2.failed = r.failed
  BY <1>2, <1>3, WithPipes
<1>6. OnlyPipes(r, r2) /\ Ended(r, r2, c, e) BY <1>4, <1>5 DEF OnlyPipes, Ended
<1> QED BY <1>6 DEF r2

\* The object that changes, when the pipes have changed as well.
LEMMA WithToo ==
  ASSUME NEW r \in States, NEW q, OnlyPipes(r, q), NEW o \in Actors, NEW y \in Object, NEW r2,
         r2 = With(q, o, y)
  PROVE  EditToo(r, r2, o, y) /\ r2.pipes = q.pipes
<1>1. q \in States /\ q.own = r.own /\ q.mail = r.mail /\ q.failed = r.failed BY DEF OnlyPipes
<1>2. Edit(q, r2, o, y) BY <1>1, OwnStep
<1> QED BY <1>1, <1>2 DEF Edit, EditToo

\* A change of what has just been changed.
LEMMA WithTwice ==
  ASSUME NEW r \in States, NEW o \in Actors, NEW y \in Object, NEW z
  PROVE  With(With(r, o, y), o, z) = With(r, o, z)
<1> DEFINE r2 == With(r, o, y)
<1>1. /\ DOMAIN r.own = Actors /\ o \in DOMAIN r.own
      /\ r = [own |-> r.own, mail |-> r.mail, pipes |-> r.pipes, failed |-> r.failed]
  BY DEF States
<1>2. r2 = [own |-> [r.own EXCEPT ![o] = y], mail |-> r.mail, pipes |-> r.pipes, failed |-> r.failed]
  BY <1>1 DEF With
<1>3. With(r, o, z) = [own |-> [r.own EXCEPT ![o] = z], mail |-> r.mail, pipes |-> r.pipes,
                       failed |-> r.failed]
  BY <1>1 DEF With
<1> HIDE DEF r2
<1>4. With(r2, o, z) = [own |-> [r2.own EXCEPT ![o] = z], mail |-> r2.mail, pipes |-> r2.pipes,
                        failed |-> r2.failed]
  BY <1>2 DEF With
<1>5. [r2.own EXCEPT ![o] = z] = [r.own EXCEPT ![o] = z] BY <1>1, <1>2
<1> QED BY <1>2, <1>3, <1>4, <1>5 DEF r2

\* The objects that an object owns live.
LEMMA OwnedLive ==
  ASSUME NEW r, NEW H, Good(r, H), NEW o \in Actors
  PROVE  /\ \A c \in r.own[o].owned : Live(r, c)
         /\ ~r.own[o].terminating /\ Live(r, o) => ~r.own[o].destroyed
<1>1. \A c \in r.own[o].owned : Live(r, c) BY DEF Good, Owned, Child
<1>2. ~r.own[o].terminating /\ Live(r, o) => ~r.own[o].destroyed BY DEF Good, Balanced
<1> QED BY <1>1, <1>2

\* What process_term writes, as the steps above expect it.
LEMMA TurnedTerminating ==
  ASSUME NEW x \in Object, NEW x0 \in Object, NEW o \in Actors,
         SameId(x, x0), SameLink(x, x0), SameCounts(x, x0), x0.destroyed = x.destroyed,
         x0.pipes = x.pipes, x0.owned = x.owned, x0.pending = FALSE, x0.reaping = (o \in Sockets),
         x0.term_acks = x.term_acks + (IF o \in Sockets THEN Cardinality(x.pipes) ELSE 0)
  PROVE  Terminating(x, Turned(x0), o) /\ Turned(x0) \in Object
<1> DEFINE y == Turned(x0)
           n == Cardinality(x.owned)
           k == IF o \in Sockets THEN Cardinality(x.pipes) ELSE 0
<1>1. x.term_acks \in Nat /\ x.owned \subseteq Objects /\ x.pipes \subseteq Objects /\ x0.term_acks \in Nat
  BY DEF Object
<1>2. IsFiniteSet(x.owned) /\ IsFiniteSet(x.pipes) BY <1>1, OwnershipAssumption, FS_Subset
<1>3. n \in Nat /\ k \in Nat BY <1>2, FS_CardinalityType
<1>4. y = [x0 EXCEPT !.term_acks = x0.term_acks + n, !.owned = {}, !.terminating = TRUE]
  BY DEF Turned
<1>5. x0.term_acks = x.term_acks + k OBVIOUS
<1> HIDE DEF n, k, y
<1>6. x0.term_acks + n \in Nat BY <1>1, <1>3
<1>7. y \in Object BY <1>4, <1>6, ZenonT(20) DEF Object
<1>8. y.term_acks = x.term_acks + n + k
  <2>1. y.term_acks = x0.term_acks + n BY <1>4 DEF Object
  <2> QED BY <1>1, <1>3, <1>5, <2>1
<1>9. /\ SameId(x, y) /\ SameLink(x, y) /\ SameCounts(x, y)
      /\ y.destroyed = x.destroyed /\ y.pipes = x.pipes
      /\ y.terminating = TRUE /\ y.owned = {} /\ y.pending = FALSE
      /\ y.reaping = (o \in Sockets)
  BY <1>4 DEF Object, SameId, SameLink, SameCounts
<1> QED BY <1>7, <1>8, <1>9 DEF Terminating, y, n, k

\* own_t::process_term of an object without a pipe.
LEMMA ObjectTerms ==
  ASSUME NEW r, NEW o \in Objects, Good(r, {Term(o)}), Busy(r), 2 \notin r.pipes[o].ends
  PROVE  Done(r, OwnProcessTerm(r, o))
<1> DEFINE x == r.own[o]
           y == Turned(x)
           r2 == With(r, o, y)
<1>1. r \in States /\ r.own \in [Actors -> Object] /\ Kinds(r) /\ EndsOK(r) /\ o \in Actors
  BY DEF Good, States, Actors
<1>2. x \in Object BY <1>1
<1>3. ~x.reaping /\ ~x.pending /\ o \notin Sockets BY <1>1, OwnershipAssumption DEF Kinds, EndsOK
<1>4. Terminating(x, y, o) /\ y \in Object
  <2>1. x.term_acks \in Nat /\ x.pending = FALSE /\ x.reaping = FALSE BY <1>2, <1>3 DEF Object
  <2>2. /\ SameId(x, x) /\ SameLink(x, x) /\ SameCounts(x, x) /\ x.destroyed = x.destroyed
        /\ x.pipes = x.pipes /\ x.owned = x.owned
    BY DEF SameId, SameLink, SameCounts
  <2>5. (o \in Sockets) = FALSE BY <1>3
  <2>3. x.reaping = (o \in Sockets) BY <2>1, <2>5
  <2>4. x.term_acks = x.term_acks + (IF o \in Sockets THEN Cardinality(x.pipes) ELSE 0)
    BY <1>3, <2>1
  <2> HIDE DEF x
  <2> QED BY <1>1, <1>2, <2>1, <2>2, <2>3, <2>4, TurnedTerminating
<1> HIDE DEF y
<1>5. OnlyPipes(r, r) BY <1>1 DEF OnlyPipes
<1>6. EditToo(r, r2, o, y) /\ r2.pipes = r.pipes BY <1>1, <1>4, <1>5, WithToo
<1> HIDE DEF r2
<1>7. /\ Good(r2, Terms(x.owned)) /\ (\A p \in Actors \ {o} : Waits(r2, p))
      /\ Beside(r, r2) /\ Live(r, o) /\ ~x.terminating
  BY <1>4, <1>6, ObjectTerm
<1>8. ~x.destroyed /\ \A c \in x.owned : Live(r, c) BY <1>1, <1>7, OwnedLive
<1>9. Done(r2, OwnProcessTerm(r, o)) BY <1>1, <1>7, <1>8, OwnTerm DEF r2, y
<1> QED BY <1>7, <1>9, BesideTrans DEF Done

\* session_base_t::pipe_terminated of a session whose own termination waited for its pipe.
LEMMA PendedTerms ==
  ASSUME NEW r, NEW o \in Objects, Good(r, {}), Busy(r), r.own[o].pending,
         NEW q, OnlyPipes(r, q), Ended(r, q, o, 2)
  PROVE  Done(r, OwnProcessTerm([q EXCEPT !.own[o].pending = FALSE], o))
<1> DEFINE x == r.own[o]
           x0 == [x EXCEPT !.pending = FALSE]
           r0 == [q EXCEPT !.own[o].pending = FALSE]
           y == Turned(x0)
           r2 == With(r0, o, y)
<1>1. r \in States /\ r.own \in [Actors -> Object] /\ Kinds(r) /\ o \in Actors
  BY DEF Good, States, Actors
<1>2. q \in States /\ q.own = r.own /\ q.mail = r.mail /\ q.failed = r.failed BY DEF OnlyPipes
<1>3. x \in Object BY <1>1
<1>4. x0 \in Object BY <1>3 DEF Object
<1>5. r0 = [q EXCEPT !.own[o] = x0] BY <1>2
<1>6. ~x.reaping /\ o \notin Sockets BY <1>1, OwnershipAssumption DEF Kinds
<1>7. Terminating(x, y, o) /\ y \in Object
  <2>1. /\ SameId(x, x0) /\ SameLink(x, x0) /\ SameCounts(x, x0) /\ x0.destroyed = x.destroyed
        /\ x0.pipes = x.pipes /\ x0.owned = x.owned /\ x0.pending = FALSE /\ x0.reaping = x.reaping
        /\ x0.term_acks = x.term_acks /\ x.term_acks \in Nat /\ x.reaping = FALSE
    BY <1>3, <1>6 DEF SameId, SameLink, SameCounts, Object
  <2> HIDE DEF x0
  <2>4. (o \in Sockets) = FALSE BY <1>6
  <2>2. x0.reaping = (o \in Sockets) BY <2>1, <2>4
  <2>3. x0.term_acks = x.term_acks + (IF o \in Sockets THEN Cardinality(x.pipes) ELSE 0)
    BY <1>6, <2>1
  <2> HIDE DEF x
  <2> QED BY <1>1, <1>3, <1>4, <2>1, <2>2, <2>3, TurnedTerminating
<1> HIDE DEF r0
<1>8. r0 = With(q, o, x0) /\ Edit(q, r0, o, x0)
  <2> HIDE DEF x0
  <2> QED BY <1>1, <1>2, <1>4, <1>5, WithEdit
<1>9. r2 = With(q, o, y)
  <2> HIDE DEF x0, y
  <2> QED BY <1>1, <1>2, <1>4, <1>8, WithTwice
<1>10. r0 \in States /\ r0.own[o] = x0 /\ \A p \in Actors : p # o => r0.own[p] = r.own[p]
  BY <1>2, <1>8, ZenonT(40) DEF Edit
<1>11. EditToo(r, r2, o, y) /\ r2.pipes = q.pipes
  <2> HIDE DEF x0, y, r2
  <2> QED BY <1>1, <1>7, <1>9, WithToo
<1> HIDE DEF r2
<1>12. Ended(r, r2, o, 2) BY <1>11 DEF Ended
<1>13. /\ Good(r2, Terms(x.owned)) /\ (\A p \in Actors \ {o} : Waits(r2, p))
       /\ Beside(r, r2) /\ Live(r, o) /\ ~x.terminating
  <2> HIDE DEF x0, y
  <2> QED BY <1>7, <1>11, <1>12, PendingTerm
<1>14. /\ ~x.destroyed /\ \A c \in x.owned : Live(r, c) /\ c \in Actors
  <2>1. x.owned \subseteq Actors BY <1>3 DEF Object, Actors
  <2> QED BY <1>1, <1>13, <2>1, OwnedLive
<1>15. /\ x0.kind = x.kind /\ x0.terminating = x.terminating /\ x0.destroyed = x.destroyed
       /\ x0.owned = x.owned
  BY <1>3 DEF Object
<1> HIDE DEF x0
<1>16. \A p \in Actors : Live(r0, p) <=> Live(r, p) BY <1>10, <1>15 DEF Live
<1>17. Done(r2, OwnProcessTerm(r0, o))
  <2>1. /\ Live(r0, o) /\ ~r0.own[o].terminating /\ ~r0.own[o].destroyed /\ x.owned = r0.own[o].owned
        /\ \A c \in x.owned : Live(r0, c)
    BY <1>1, <1>10, <1>13, <1>14, <1>15, <1>16
  <2>2. r2 = With(r0, o, Turned(r0.own[o])) BY <1>10 DEF r2, y
  <2> QED BY <1>1, <1>10, <1>13, <2>1, <2>2, OwnTerm
<1>18. Done(r, OwnProcessTerm(r0, o)) BY <1>13, <1>17, BesideTrans DEF Done
<1> QED BY <1>18 DEF r0

\* Which pipes are asked to terminate depends on the pipes alone.
LEMMA AskSame ==
  ASSUME NEW r \in States, NEW r2 \in States, r2.pipes = r.pipes, NEW C, NEW e \in {1, 2}
  PROVE  AskPipes(r2, C, e).pipes = AskPipes(r, C, e).pipes
<1> DEFINE q == AskPipes(r, C, e)
           q2 == AskPipes(r2, C, e)
<1>1. q \in States /\ Asked(r, q, C, e) /\ q2 \in States /\ Asked(r2, q2, C, e) BY AskedPipes
<1> HIDE DEF q, q2
<1>2. q.pipes \in [Objects -> PipeState] /\ q2.pipes \in [Objects -> PipeState] BY <1>1 DEF States
<1>3. \A d \in Objects : q2.pipes[d].asked = q.pipes[d].asked /\ q2.pipes[d].ends = q.pipes[d].ends
  BY <1>1, ZenonT(40) DEF Asked
<1>4. \A d \in Objects : q2.pipes[d] = q.pipes[d]
  <2> SUFFICES ASSUME NEW d \in Objects PROVE q2.pipes[d] = q.pipes[d] OBVIOUS
  <2>1. q2.pipes[d] \in PipeState /\ q.pipes[d] \in PipeState BY <1>2
  <2>2. q2.pipes[d].asked = q.pipes[d].asked /\ q2.pipes[d].ends = q.pipes[d].ends BY <1>3
  <2> QED BY <2>1, <2>2 DEF PipeState
<1>5. q2.pipes = q.pipes BY <1>2, <1>4
<1> QED BY <1>5 DEF q, q2

\* A socket changes, in a state whose pipes change as well: the order makes no difference.
LEMMA AskWith ==
  ASSUME NEW r \in States, NEW o \in Actors, NEW y \in Object, NEW C, NEW e \in {1, 2}
  PROVE  AskPipes(With(r, o, y), C, e) = With(AskPipes(r, C, e), o, y)
<1> DEFINE w == With(r, o, y)
           q == AskPipes(r, C, e)
           a == AskPipes(w, C, e)
           b == With(q, o, y)
<1>1. Edit(r, w, o, y) /\ w.own = [r.own EXCEPT ![o] = y] BY OwnStep DEF With, States
<1> HIDE DEF w
<1>2. w \in States /\ w.pipes = r.pipes /\ w.mail = r.mail /\ w.failed = r.failed BY <1>1 DEF Edit
<1>3. q \in States /\ q.own = r.own /\ q.mail = r.mail /\ q.failed = r.failed BY AskedPipes
<1>4. a \in States /\ a.own = w.own /\ a.mail = w.mail /\ a.failed = w.failed BY <1>2, AskedPipes
<1>5. a.pipes = q.pipes BY <1>2, AskSame
<1> HIDE DEF q, a
<1>6. Edit(q, b, o, y) /\ b.own = [q.own EXCEPT ![o] = y] BY <1>3, OwnStep DEF With, States
<1> HIDE DEF b
<1>7. b \in States /\ b.pipes = q.pipes /\ b.mail = q.mail /\ b.failed = q.failed BY <1>6 DEF Edit
<1>8. a = b BY <1>1, <1>2, <1>3, <1>4, <1>5, <1>6, <1>7, StateEq
<1> QED BY <1>8 DEF a, b, w, q

\* What the reaper does to a socket, as the context sees it.
Begun(r, r2, s) ==
    /\ r2.mail["reaper"] = r.mail["reaper"] /\ r2.mail["term"] = r.mail["term"]
    /\ \A u \in Sockets : r2.own[u].kind = r.own[u].kind
    /\ \A u \in Sockets \ {s} : /\ r2.own[u].reaping = r.own[u].reaping
                                /\ r2.own[u].terminating = r.own[u].terminating
    /\ r2.own[s].reaping /\ r2.own[s].terminating

\* socket_base_t::process_term, called when the reaper takes the socket.
LEMMA SocketTerms ==
  ASSUME NEW r, NEW s \in Sockets, Good(r, {}), Busy(r), Live(r, s), ~r.own[s].reaping,
         NEW res, res = SocketProcessTerm([r EXCEPT !.own[s].reaping = TRUE], s)
  PROVE  Good(res, {}) /\ Busy(res) /\ Begun(r, res, s)
<1> DEFINE x == r.own[s]
           x1 == [x EXCEPT !.reaping = TRUE]
           n == Cardinality(x.pipes)
           x0 == [x1 EXCEPT !.term_acks = x.term_acks + n]
           r1 == [r EXCEPT !.own[s].reaping = TRUE]
           q == AskPipes(r, x.pipes, 1)
           q1 == AskPipes(r1, x.pipes, 1)
           r0 == [q1 EXCEPT !.own[s].term_acks = @ + n]
           y == Turned(x0)
           r2 == With(r0, s, y)
<1>1. r \in States /\ r.own \in [Actors -> Object] /\ Kinds(r) /\ s \in Actors
  BY DEF Good, States, Actors
<1>2. x \in Object BY <1>1
<1>3. x1 \in Object /\ x1.term_acks = x.term_acks /\ x1.pipes = x.pipes BY <1>2 DEF Object
<1>4. x.term_acks \in Nat /\ n \in Nat
  <2>1. x.pipes \subseteq Objects BY <1>2 DEF Object
  <2>2. IsFiniteSet(x.pipes) BY <2>1, OwnershipAssumption, FS_Subset
  <2> QED BY <1>2, <2>2, FS_CardinalityType DEF Object
<1> HIDE DEF n
<1>5. x0 \in Object
  <2>1. x.term_acks + n \in Nat BY <1>4
  <2> QED BY <1>3, <2>1 DEF Object
<1>6. ~x.pending /\ x.kind = "socket" BY <1>1 DEF Kinds, Live
<1>7. Terminating(x, y, s) /\ y \in Object
  <2>1. /\ SameId(x, x0) /\ SameLink(x, x0) /\ SameCounts(x, x0) /\ x0.destroyed = x.destroyed
        /\ x0.pipes = x.pipes /\ x0.owned = x.owned /\ x0.pending = FALSE /\ x0.reaping = TRUE
        /\ x0.term_acks = x.term_acks + n
    BY <1>2, <1>6 DEF SameId, SameLink, SameCounts, Object
  <2> HIDE DEF x0
  <2>2. (s \in Sockets) = TRUE OBVIOUS
  <2>3. x0.reaping = (s \in Sockets) BY <2>1, <2>2
  <2>4. x0.term_acks = x.term_acks + (IF s \in Sockets THEN Cardinality(x.pipes) ELSE 0)
    BY <2>1 DEF n
  <2> HIDE DEF x
  <2> QED BY <1>1, <1>2, <1>5, <2>1, <2>3, <2>4, TurnedTerminating
<1>8. r1 = With(r, s, x1)
  <2>1. r1 = [r EXCEPT !.own[s] = x1] OBVIOUS
  <2> HIDE DEF r1, x1
  <2> QED BY <1>1, <1>3, <2>1, WithEdit
<1>9. /\ res = OwnProcessTerm([AskPipes(r1, r1.own[s].pipes, 1) EXCEPT
                                 !.own[s].term_acks = @ + Cardinality(r1.own[s].pipes)], s)
  BY DEF SocketProcessTerm
<1>10. r1.own[s] = x1 BY <1>1, <1>8 DEF With, States
<1>11. res = OwnProcessTerm(r0, s)
  <2> HIDE DEF r1, x1
  <2> QED BY <1>3, <1>9, <1>10 DEF n
<1>12. q \in States /\ OnlyPipes(r, q) /\ Asked(r, q, x.pipes, 1) BY <1>1, AskedPipes DEF OnlyPipes
<1>13. q1 = With(q, s, x1) BY <1>1, <1>3, <1>8, AskWith
<1> HIDE DEF r1, q, q1
<1>14. q1 \in States /\ q1.own[s] = x1
  <2> HIDE DEF x1
  <2> QED BY <1>1, <1>3, <1>12, <1>13, OwnStep DEF Edit
<1>15. r0 = With(q1, s, x0)
  <2>1. r0 = [q1 EXCEPT !.own[s] = [q1.own[s] EXCEPT !.term_acks = q1.own[s].term_acks + n]] OBVIOUS
  <2> HIDE DEF r0, x1
  <2>2. [q1.own[s] EXCEPT !.term_acks = q1.own[s].term_acks + n] = x0 BY <1>3, <1>14
  <2> HIDE DEF x0
  <2> QED BY <1>1, <1>5, <1>14, <2>1, <2>2, WithEdit
<1>16. r0 = With(q, s, x0)
  <2> HIDE DEF r0, x1, x0
  <2> QED BY <1>1, <1>3, <1>5, <1>12, <1>13, <1>15, WithTwice
<1> HIDE DEF r0
<1>17. Edit(q, r0, s, x0)
  <2> HIDE DEF x0
  <2> QED BY <1>1, <1>5, <1>12, <1>16, OwnStep
<1>18. r2 = With(q, s, y)
  <2> HIDE DEF x0, y
  <2> QED BY <1>1, <1>5, <1>12, <1>16, WithTwice
<1>19. EditToo(r, r2, s, y) /\ r2.pipes = q.pipes
  <2> HIDE DEF x0, y, r2
  <2> QED BY <1>1, <1>7, <1>12, <1>18, WithToo
<1>20. r0 \in States /\ r0.own[s] = x0 /\ \A p \in Actors : p # s => r0.own[p] = r.own[p]
  BY <1>12, <1>17 DEF Edit, OnlyPipes
<1> HIDE DEF r2
<1>21. Asked(r, r2, x.pipes, 1) BY <1>12, <1>19 DEF Asked
<1>22. /\ Good(r2, Terms(x.owned)) /\ (\A p \in Actors \ {s} : Waits(r2, p)) /\ ~x.terminating
  <2> HIDE DEF x0, y
  <2> QED BY <1>7, <1>19, <1>21, SocketTerm
<1>23. /\ ~x.destroyed /\ \A c \in x.owned : Live(r, c) /\ c \in Actors
  <2>1. x.owned \subseteq Actors BY <1>2 DEF Object, Actors
  <2> QED BY <1>1, <1>22, <2>1, OwnedLive
<1>24. /\ x0.kind = x.kind /\ x0.terminating = x.terminating /\ x0.destroyed = x.destroyed
       /\ x0.owned = x.owned
  BY <1>2 DEF Object
<1> HIDE DEF x0
<1>25. \A p \in Actors : Live(r0, p) <=> Live(r, p) BY <1>20, <1>24 DEF Live
<1>26. Done(r2, OwnProcessTerm(r0, s))
  <2>1. /\ Live(r0, s) /\ ~r0.own[s].terminating /\ ~r0.own[s].destroyed /\ x.owned = r0.own[s].owned
        /\ \A c \in x.owned : Live(r0, c)
    BY <1>1, <1>20, <1>22, <1>23, <1>24, <1>25
  <2>2. r2 = With(r0, s, Turned(r0.own[s])) BY <1>20 DEF r2, y
  <2> QED BY <1>1, <1>20, <1>22, <2>1, <2>2, OwnTerm
<1>27. Good(res, {}) /\ Busy(res) /\ Beside(r2, res) BY <1>11, <1>26 DEF Done
<1>28. Begun(r, r2, s)
  <2>1. y.reaping /\ y.terminating /\ y.kind = x.kind BY <1>7 DEF Terminating, SameId
  <2>2. r2.own[s] = y /\ r2.mail = r.mail /\ \A u \in Sockets : u # s => r2.own[u] = r.own[u]
    BY <1>19 DEF EditToo, Actors
  <2> HIDE DEF y
  <2> QED BY <2>1, <2>2 DEF Begun
<1>29. Begun(r, res, s) BY <1>27, <1>28, ZenonT(40) DEF Begun, Beside
<1> QED BY <1>27, <1>29

\* A change of two objects, in either order.
LEMMA WithSwap ==
  ASSUME NEW r \in States, NEW o \in Actors, NEW p \in Actors, o # p,
         NEW y \in Object, NEW z \in Object
  PROVE  With(With(r, o, y), p, z) = With(With(r, p, z), o, y)
<1> DEFINE a1 == With(r, o, y)
           a == With(a1, p, z)
           b1 == With(r, p, z)
           b == With(b1, o, y)
<1>1. Edit(r, a1, o, y) /\ Edit(r, b1, p, z) BY OwnStep
<1>2. a1 \in States /\ b1 \in States BY <1>1 DEF Edit
<1> HIDE DEF a1, b1
<1>3. Edit(a1, a, p, z) /\ Edit(b1, b, o, y) BY <1>2, OwnStep
<1> HIDE DEF a, b
<1>4. a \in States /\ b \in States BY <1>3 DEF Edit
<1>5. a.mail = b.mail /\ a.pipes = b.pipes /\ a.failed = b.failed BY <1>1, <1>3 DEF Edit
<1>6. \A q \in Actors : a.own[q] = b.own[q] BY <1>1, <1>3 DEF Edit
<1>7. a.own = b.own
  <2>1. a.own \in [Actors -> Object] /\ b.own \in [Actors -> Object] BY <1>4 DEF States
  <2> QED BY <1>6, <2>1
<1>8. a = b BY <1>4, <1>5, <1>7, StateEq
<1> QED BY <1>8 DEF a, a1, b, b1

\* Two objects change.
LEMMA WithBoth ==
  ASSUME NEW r \in States, NEW o \in Actors, NEW p \in Actors, o # p,
         NEW y \in Object, NEW z \in Object
  PROVE  Edit2(r, With(With(r, o, y), p, z), o, y, p, z)
<1> DEFINE a1 == With(r, o, y)
           a == With(a1, p, z)
<1>1. Edit(r, a1, o, y) BY OwnStep
<1>2. a1 \in States BY <1>1 DEF Edit
<1> HIDE DEF a1
<1>3. Edit(a1, a, p, z) BY <1>2, OwnStep
<1> HIDE DEF a
<1>4. Edit2(r, a, o, y, p, z) BY <1>1, <1>3 DEF Edit, Edit2
<1> QED BY <1>4 DEF a, a1

\* object_t::send_command to an object that lives.
LEMMA SendPost ==
  ASSUME NEW r, NEW type, NEW dest, NEW arg, Live(r, dest)
  PROVE  Send(r, type, dest, arg) = Post(r, Cmd(type, dest, arg))
  BY DEF Send, Post, Cmd

\* What a command that is posted leaves alone.
LEMMA PostParts ==
  ASSUME NEW r \in States, Kinds(r), NEW m \in Commands, m.dest \in Actors, Live(r, m.dest)
  PROVE  /\ Post(r, m) \in States /\ Post(r, m).own = r.own /\ Post(r, m).pipes = r.pipes
         /\ Post(r, m).failed = r.failed
         /\ Post(r, m).mail = [r.mail EXCEPT ![r.own[m.dest].tid] = Append(@, m)]
<1> DEFINE t == r.own[m.dest].tid
           f == [r.mail EXCEPT ![t] = Append(@, m)]
<1>1. t \in Boxes BY BoxType DEF Boxes
<1>2. r.mail \in [Boxes -> Seq(Commands)] BY DEF States
<1>3. r.mail[t] \in Seq(Commands) BY <1>1, <1>2
<1>4. f \in [Boxes -> Seq(Commands)] BY <1>1, <1>2, <1>3
<1>5. Post(r, m) = [r EXCEPT !.mail = f] BY DEF Post
<1> HIDE DEF f
<1>6. /\ [r EXCEPT !.mail = f] \in States /\ [r EXCEPT !.mail = f].mail = f
      /\ [r EXCEPT !.mail = f].own = r.own /\ [r EXCEPT !.mail = f].pipes = r.pipes
      /\ [r EXCEPT !.mail = f].failed = r.failed
  BY <1>4, WithMail
<1> QED BY <1>5, <1>6 DEF f

\* A command is posted before or after an object changes that stays in its thread.
LEMMA PostWith ==
  ASSUME NEW r \in States, Kinds(r), NEW m \in Commands, m.dest \in Actors, Live(r, m.dest),
         NEW o \in Actors, NEW y \in Object, Kinds(With(r, o, y)),
         m.dest = o => y.tid = r.own[o].tid /\ y.kind = r.own[o].kind
  PROVE  With(Post(r, m), o, y) = Post(With(r, o, y), m)
<1> DEFINE a1 == Post(r, m)
           a == With(a1, o, y)
           b1 == With(r, o, y)
           b == Post(b1, m)
<1>1. /\ a1 \in States /\ a1.own = r.own /\ a1.pipes = r.pipes /\ a1.failed = r.failed
      /\ a1.mail = [r.mail EXCEPT ![r.own[m.dest].tid] = Append(@, m)]
  BY PostParts
<1>2. Edit(r, b1, o, y) BY OwnStep
<1> HIDE DEF a1
<1>3. Edit(a1, a, o, y) BY <1>1, OwnStep
<1>4. Kinds(b1) OBVIOUS
<1> HIDE DEF b1, a
<1>5. b1 \in States /\ Live(b1, m.dest) /\ b1.own[m.dest].tid = r.own[m.dest].tid
  BY <1>2 DEF Edit, Live
<1>6. /\ b \in States /\ b.own = b1.own /\ b.pipes = b1.pipes /\ b.failed = b1.failed
      /\ b.mail = [b1.mail EXCEPT ![b1.own[m.dest].tid] = Append(@, m)]
  BY <1>4, <1>5, PostParts, ZenonT(20)
<1> HIDE DEF b
<1>7. a \in States /\ a.pipes = b.pipes /\ a.failed = b.failed
  BY <1>1, <1>2, <1>3, <1>6 DEF Edit
<1>8. a.mail = b.mail
  <2>1. a.mail = a1.mail /\ b1.mail = r.mail BY <1>2, <1>3 DEF Edit
  <2> QED BY <1>1, <1>5, <1>6, <2>1
<1>9. a.own = b.own
  <2>1. a.own \in [Actors -> Object] /\ b.own \in [Actors -> Object] BY <1>6, <1>7 DEF States
  <2>2. a1.own = r.own /\ b.own = b1.own BY <1>1, <1>6
  <2>3. b1.own[o] = y /\ \A q \in Actors : q # o => b1.own[q] = r.own[q] BY <1>2 DEF Edit
  <2>4. a.own[o] = y /\ \A q \in Actors : q # o => a.own[q] = a1.own[q] BY <1>3 DEF Edit
  <2>5. \A q \in Actors : a.own[q] = b.own[q] BY <2>2, <2>3, <2>4
  <2> QED BY <2>1, <2>5
<1>10. a = b BY <1>6, <1>7, <1>8, <1>9, StateEq
<1> QED BY <1>10 DEF a, a1, b, b1

\* session_base_t::process_term: the pipe is terminated first.
LEMMA SessionTerms ==
  ASSUME NEW r, NEW c \in Objects, Good(r, {Term(c)}), Busy(r)
  PROVE  Done(r, SessionProcessTerm(r, c))
<1>1. r \in States /\ r.own \in [Actors -> Object] /\ Kinds(r) /\ c \in Actors
  BY DEF Good, States, Actors
<1>2. CASE 2 \notin r.pipes[c].ends
  BY <1>2, ObjectTerms DEF SessionProcessTerm
<1>3. CASE 2 \in r.pipes[c].ends
  <2> DEFINE x == r.own[c]
             y == [x EXCEPT !.pending = TRUE]
             q == AskPipes(r, {c}, 2)
             r2 == [q EXCEPT !.own[c].pending = TRUE]
  <2>1. SessionProcessTerm(r, c) = Expect(r2, ~x.pending) BY <1>3 DEF SessionProcessTerm, AskPipe
  <2>2. q \in States /\ OnlyPipes(r, q) /\ Asked(r, q, {c}, 2) /\ q.own = r.own
    BY <1>1, AskedPipes DEF OnlyPipes
  <2> HIDE DEF q
  <2>3. x \in Object BY <1>1
  <2>4. y \in Object BY <2>3 DEF Object
  <2>5. r2 = [q EXCEPT !.own[c] = y] BY <2>2
  <2>6. Pended(x, y) BY <2>3 DEF Pended, Object, SameId, SameLink, SameAcks, SameCounts
  <2> HIDE DEF r2, y
  <2>7. r2 = With(q, c, y) BY <1>1, <2>2, <2>4, <2>5, WithEdit
  <2>8. EditToo(r, r2, c, y) /\ r2.pipes = q.pipes BY <1>1, <2>2, <2>4, <2>7, WithToo
  <2>9. Asked(r, r2, {c}, 2) BY <2>2, <2>8 DEF Asked
  <2>10. Good(r2, {}) /\ Busy(r2) /\ Beside(r, r2) /\ ~x.pending BY <1>3, <2>6, <2>8, <2>9, PendStep
  <2>11. r2 \in States BY <2>10 DEF Good
  <2>12. Expect(r2, ~x.pending) = r2 BY <2>10, <2>11, ExpectOK
  <2> QED BY <2>1, <2>10, <2>12 DEF Done
<1> QED BY <1>2, <1>3

\* own_t::process_term_req and own_t::term_child.
LEMMA TermReqs ==
  ASSUME NEW r, Good(r, {}), Busy(r), NEW o \in Actors, NEW c
  PROVE  Done(r, process_term_req(r, o, c))
<1>1. r \in States /\ r.own \in [Actors -> Object] /\ Kinds(r) /\ Owned(r)
  BY DEF Good, States
<1>2. CASE r.own[o].terminating \/ c \notin r.own[o].owned
  <2>1. process_term_req(r, o, c) = r BY <1>2 DEF process_term_req
  <2>2. Beside(r, r) BY DEF Beside
  <2> QED BY <2>1, <2>2 DEF Done
<1>3. CASE ~r.own[o].terminating /\ c \in r.own[o].owned
  <2> DEFINE x == r.own[o]
             y == [x EXCEPT !.owned = x.owned \ {c}, !.term_acks = x.term_acks + 1]
             r2 == [r EXCEPT !.own[o].owned = @ \ {c}, !.own[o].term_acks = @ + 1]
  <2>1. process_term_req(r, o, c) = Send(r2, "term", c, Null) BY <1>3 DEF process_term_req
  <2>2. x \in Object BY <1>1
  <2>3. c \in Objects /\ Live(r, c) /\ c \in Actors BY <1>1, <1>3 DEF Owned, Child, Actors
  <2>4. y \in Object
    <3> DEFINE n == x.term_acks + 1
               D == x.owned \ {c}
    <3>1. n \in Nat /\ D \in SUBSET Objects BY <2>2 DEF Object
    <3>2. y = [x EXCEPT !.owned = D, !.term_acks = n] OBVIOUS
    <3> HIDE DEF n, D, y
    <3> QED BY <2>2, <3>1, <3>2 DEF Object
  <2>5. r2 = [r EXCEPT !.own[o] = y] BY <1>1 DEF States
  <2>6. Telling(x, y, c)
    BY <2>2 DEF Telling, Object, SameId, SamePipes, SameLink, SameCounts, SameEnd
  <2> HIDE DEF r2, y
  <2>7. Edit(r, r2, o, y) BY <1>1, <2>4, <2>5, WithEdit
  <2>8. Good(r2, {} \cup {Term(c)}) /\ Busy(r2) /\ Beside(r, r2)
    <3>1. Good(r2, {Term(c)}) /\ Busy(r2) /\ Beside(r, r2) BY <1>3, <2>3, <2>6, <2>7, TellStep
    <3>2. {} \cup {Term(c)} = {Term(c)} OBVIOUS
    <3> QED BY <3>1, <3>2
  <2>9. Live(r2, c)
    <3>1. r2.own[c].kind = r.own[c].kind BY <2>3, <2>6, <2>7 DEF Edit, Telling, SameId
    <3> QED BY <2>3, <3>1 DEF Live
  <2>10. Term(c) \in Commands /\ Proper(r2, Term(c)) /\ Term(c).type = "term" /\ Term(c) \notin {}
    BY <2>3, <2>9, VocabularyTypes DEF Proper, Term, Cmd
  <2>11. Good(Post(r2, Term(c)), {}) /\ OnlyMail(r2, Post(r2, Term(c))) BY <2>8, <2>10, PostGood
  <2>12. Send(r2, "term", c, Null) = Post(r2, Term(c)) BY <2>9, SendPost DEF Term
  <2> QED BY <2>1, <2>8, <2>11, <2>12, BesideMail, BesideTrans DEF Done
<1> QED BY <1>2, <1>3

\* The command own: the child is owned, or told to go when its owner is going.
LEMMA OwnCmds ==
  ASSUME NEW r, NEW o \in Actors, NEW c \in Objects, Good(r, {Owns(o, c)}), Busy(r)
  PROVE  Done(r, process_seqnum(process_own(r, o, c), o))
<1> DEFINE x == r.own[o]
<1>1. r \in States /\ r.own \in [Actors -> Object] /\ Kinds(r) /\ Ready(r, {Owns(o, c)}) /\ c \in Actors
  BY DEF Good, States, Actors
<1>2. x \in Object BY <1>1
<1>3. Live(r, c)
  <2>1. Owns(o, c).type = "own" /\ Owns(o, c).arg = c /\ Owns(o, c).dest = o BY DEF Owns, Cmd
  <2>2. Owns(o, c) # Seqnum(o) BY Vocabulary
  <2> QED BY <1>1, <2>1, <2>2 DEF Ready, Proper
<1>4. CASE x.terminating
  <2> DEFINE y == [x EXCEPT !.term_acks = x.term_acks + 1]
             r2 == [r EXCEPT !.own[o].term_acks = @ + 1]
             P == Post(r2, Term(c))
  <2>1. process_own(r, o, c) = Send(r2, "term", c, Null) BY <1>4 DEF process_own
  <2>2. y \in Object BY <1>2 DEF Object
  <2>3. r2 = [r EXCEPT !.own[o] = y] OBVIOUS
  <2>4. Telling(x, y, c)
    <3>1. x.owned = x.owned \ {c} BY <1>1, <1>4 DEF Kinds
    <3> QED BY <1>2, <3>1 DEF Telling, Object, SameId, SamePipes, SameLink, SameCounts, SameEnd
  <2> HIDE DEF r2, y
  <2>5. Edit(r, r2, o, y) BY <1>1, <2>2, <2>3, WithEdit
  <2>6. Good(r2, {Seqnum(o)} \cup {Term(c)}) /\ Busy(r2) /\ Beside(r, r2)
    <3>1. Good(r2, {Seqnum(o), Term(c)}) /\ Busy(r2) /\ Beside(r, r2) BY <2>4, <2>5, TellStep
    <3>2. {Seqnum(o)} \cup {Term(c)} = {Seqnum(o), Term(c)} OBVIOUS
    <3> QED BY <3>1, <3>2
  <2>7. Live(r2, c)
    <3>1. r2.own[c].kind = r.own[c].kind BY <1>1, <2>4, <2>5 DEF Edit, Telling, SameId
    <3> QED BY <1>3, <3>1 DEF Live
  <2>8. Term(c) \in Commands /\ Proper(r2, Term(c)) /\ Term(c).type = "term"
    BY <1>1, <2>7, VocabularyTypes DEF Proper, Term, Cmd
  <2>9. Term(c) \notin {Seqnum(o)} BY <1>1, Vocabulary
  <2>10. Good(P, {Seqnum(o)}) /\ OnlyMail(r2, P)
    BY <2>6, <2>8, <2>9, PostGood
  <2>11. process_own(r, o, c) = P BY <2>1, <2>7, SendPost DEF Term
  <2> HIDE DEF P
  <2>12. Busy(P) /\ Beside(r, P) BY <2>6, <2>10, BesideMail, BesideTrans
  <2>13. Done(P, process_seqnum(P, o)) BY <2>10, <2>12, Seqnums DEF Busy
  <2> QED BY <2>11, <2>12, <2>13, BesideTrans DEF Done
<1>5. CASE ~x.terminating
  <2> DEFINE y == [x EXCEPT !.owned = x.owned \cup {c}]
             r2 == [r EXCEPT !.own[o].owned = @ \cup {c}]
  <2>1. process_own(r, o, c) = r2 BY <1>5 DEF process_own
  <2>2. y \in Object BY <1>2 DEF Object
  <2>3. r2 = [r EXCEPT !.own[o] = y] OBVIOUS
  <2>4. Adopted(x, y, c)
    BY <1>2 DEF Adopted, Object, SameId, SamePipes, SameLink, SameCounts, SameEnd
  <2> HIDE DEF r2, y
  <2>5. Edit(r, r2, o, y) BY <1>1, <2>2, <2>3, WithEdit
  <2>6. Good(r2, {Seqnum(o)}) /\ Busy(r2) /\ Beside(r, r2) BY <1>5, <2>4, <2>5, AdoptStep
  <2>7. Done(r2, process_seqnum(r2, o)) BY <2>6, Seqnums DEF Busy
  <2> QED BY <2>1, <2>6, <2>7, BesideTrans DEF Done
<1> QED BY <1>4, <1>5

\* The command bind: the socket has the pipe, and terminates it when it is going.
LEMMA BindCmds ==
  ASSUME NEW r, NEW s \in Sockets, NEW c \in Objects, Good(r, {Binds(s, c)}), Busy(r),
         r.own[s].reaping => r.own[s].terminating
  PROVE  Done(r, process_seqnum(process_bind(r, s, c), s))
<1> DEFINE x == r.own[s]
           z == [x EXCEPT !.pipes = x.pipes \cup {c}]
           t == [r EXCEPT !.own[s].pipes = @ \cup {c}]
           r2 == process_bind(r, s, c)
<1>1. r \in States /\ r.own \in [Actors -> Object] /\ Kinds(r) /\ s \in Actors
  BY DEF Good, States, Actors
<1>2. x \in Object BY <1>1
<1>3. z \in Object /\ z.pipes = x.pipes \cup {c} /\ z.term_acks = x.term_acks BY <1>2 DEF Object
<1>4. x.reaping <=> x.terminating BY <1>1 DEF Kinds
<1>5. t = With(r, s, z)
  <2>1. t = [r EXCEPT !.own[s] = z] OBVIOUS
  <2> HIDE DEF t, z
  <2> QED BY <1>1, <1>3, <2>1, WithEdit
<1>6. \E y : /\ EditToo(r, r2, s, y) /\ Piped(x, y, c)
             /\ Asked(r, r2, IF x.reaping THEN {c} ELSE {}, 1)
  <2>1. CASE ~x.terminating
    <3>1. r2 = t BY <2>1 DEF process_bind
    <3>2. Edit(r, r2, s, z)
      <4> HIDE DEF z, t
      <4> QED BY <1>1, <1>3, <1>5, <3>1, OwnStep
    <3> HIDE DEF r2
    <3>3. EditToo(r, r2, s, z) /\ r2.pipes = r.pipes BY <3>2 DEF Edit, EditToo
    <3>4. Piped(x, z, c)
      BY <1>2, <1>4, <2>1 DEF Piped, Object, SameId, SameStage, SameLink, SameCounts, SameEnd
    <3>5. Asked(r, r2, {}, 1) BY <3>3 DEF Asked
    <3>6. Asked(r, r2, IF x.reaping THEN {c} ELSE {}, 1) BY <1>4, <2>1, <3>5
    <3> QED BY <3>3, <3>4, <3>6
  <2>2. CASE x.terminating
    <3> DEFINE y == [z EXCEPT !.term_acks = x.term_acks + 1]
               u == [t EXCEPT !.own[s].term_acks = @ + 1]
               q == AskPipes(r, {c}, 1)
    <3>1. r2 = AskPipes(u, {c}, 1) BY <2>2 DEF process_bind, AskPipe
    <3>2. y \in Object
      <4> DEFINE n == x.term_acks + 1
      <4>1. n \in Nat BY <1>2 DEF Object
      <4>2. y = [z EXCEPT !.term_acks = n] OBVIOUS
      <4> HIDE DEF n, z, y
      <4> QED BY <1>3, <4>1, <4>2 DEF Object
    <3>3. u = With(r, s, y)
      <4>1. Edit(r, t, s, z)
        <5> HIDE DEF z, t
        <5> QED BY <1>1, <1>3, <1>5, OwnStep
      <4> HIDE DEF t
      <4>2. t \in States /\ t.own[s] = z BY <4>1 DEF Edit
      <4>3. u = [t EXCEPT !.own[s] = [t.own[s] EXCEPT !.term_acks = t.own[s].term_acks + 1]] OBVIOUS
      <4> HIDE DEF u, z
      <4>4. [t.own[s] EXCEPT !.term_acks = t.own[s].term_acks + 1] = y BY <1>3, <4>2
      <4> HIDE DEF y
      <4>5. u = With(t, s, y) BY <1>1, <3>2, <4>2, <4>3, <4>4, WithEdit
      <4> QED BY <1>1, <1>3, <1>5, <3>2, <4>5, WithTwice
    <3>4. r2 = With(q, s, y)
      <4> HIDE DEF y, r2, u
      <4> QED BY <1>1, <3>1, <3>2, <3>3, AskWith
    <3>5. OnlyPipes(r, q) /\ Asked(r, q, {c}, 1) BY <1>1, AskedPipes DEF OnlyPipes
    <3>6. Piped(x, y, c)
      BY <1>2, <1>4, <2>2 DEF Piped, Object, SameId, SameStage, SameLink, SameCounts, SameEnd
    <3> HIDE DEF q, y, r2
    <3>7. EditToo(r, r2, s, y) /\ r2.pipes = q.pipes BY <1>1, <3>2, <3>4, <3>5, WithToo
    <3>8. Asked(r, r2, {c}, 1) BY <3>5, <3>7 DEF Asked
    <3>9. Asked(r, r2, IF x.reaping THEN {c} ELSE {}, 1) BY <1>4, <2>2, <3>8
    <3> QED BY <3>6, <3>7, <3>9
  <2> QED BY <2>1, <2>2
<1>7. PICK y : /\ EditToo(r, r2, s, y) /\ Piped(x, y, c)
               /\ Asked(r, r2, IF x.reaping THEN {c} ELSE {}, 1)
  BY <1>6
<1> HIDE DEF r2
<1>8. Good(r2, {Seqnum(s)}) /\ (\A p \in Actors \ {s} : Waits(r, p) => Waits(r2, p)) /\ Beside(r, r2)
  BY <1>7, BindStep
<1>9. \A p \in Actors \ {s} : Waits(r2, p) BY <1>8 DEF Busy
<1>10. Done(r2, process_seqnum(r2, s)) BY <1>1, <1>8, <1>9, Seqnums
<1>11. Done(r, process_seqnum(r2, s)) BY <1>8, <1>10, BesideTrans DEF Done
<1> QED BY <1>11 DEF r2

\* Sending one command changes the number of no other (object_t::send_command).
LEMMA PostNum ==
  ASSUME NEW r \in States, Kinds(r), NEW m \in Commands, m.dest \in Actors, Live(r, m.dest),
         NEW H, NEW n \in Commands, n.dest \in Actors, n # m
  PROVE  Num(Post(r, m), H, n) = Num(r, H, n)
<1> DEFINE r2 == Post(r, m)
           d == n.dest
<1>1. /\ r2 \in States /\ r2.own = r.own
      /\ r2.mail = [r.mail EXCEPT ![r.own[m.dest].tid] = Append(r.mail[r.own[m.dest].tid], m)]
  BY PostParts, ZenonT(20)
<1>2. r.own[m.dest].tid \in Slots BY BoxType
<1>3. r.mail \in [Boxes -> Seq(Commands)] /\ Slots \subseteq Boxes BY DEF States, Boxes
<1> HIDE DEF r2
<1>4. Count(Box(r2, d), {n}) = Count(Box(r, d), {n})
  <2>1. CASE ~Live(r, d)
    <3>1. Box(r2, d) = Box(r, d) BY <1>1, <2>1 DEF Box, Live
    <3> QED BY <3>1
  <2>2. CASE Live(r, d)
    <3>1. r.own[d].tid \in Slots /\ Box(r, d) = r.mail[r.own[d].tid] BY <2>2, BoxType
    <3>2. Box(r2, d) = r2.mail[r.own[d].tid] BY <1>1, <2>2 DEF Box, Live
    <3>3. CASE r.own[d].tid # r.own[m.dest].tid
      <4>1. Box(r2, d) = Box(r, d) BY <1>1, <1>3, <3>1, <3>2, <3>3
      <4> QED BY <4>1
    <3>4. CASE r.own[d].tid = r.own[m.dest].tid
      <4>1. Box(r2, d) = Append(Box(r, d), m) BY <1>1, <1>3, <3>1, <3>2, <3>4, ZenonT(40)
      <4>2. Box(r, d) \in Seq(Commands) BY <1>3, <3>1
      <4> DEFINE b == Box(r, d)
      <4>3. b \in Seq(Commands) BY <4>2
      <4> HIDE DEF b
      <4>4. Count(Append(b, m), {n}) = Count(b, {n}) + Bit(m \in {n}) BY <4>3, CountAppend
      <4>5. Bit(m \in {n}) = 0 /\ Count(b, {n}) \in Nat BY <4>3, Places DEF Bit
      <4> QED BY <4>1, <4>4, <4>5 DEF b
    <3> QED BY <3>3, <3>4
  <2> QED BY <2>1, <2>2
<1>5. Num(r2, H, n) = Num(r, H, n) BY <1>4 DEF Num, Total
<1> QED BY <1>5 DEF r2

\* A command for an object that is born now cannot have been on its way.
LEMMA NoneYet ==
  ASSUME NEW r, NEW H, Good(r, H), NEW k \in Objects, r.own[k].kind = "unborn", NEW r2 \in States,
         Kinds(r2), r2.mail = r.mail, NEW K, Attach(k) \notin K
  PROVE  Num(r2, K, Attach(k)) = 0
<1>1. r \in States /\ Routed(r) BY DEF Good
<1>2. k \in Actors /\ Attach(k).dest = k BY VocabularyTypes DEF Actors
<1>3. Box(r2, k) \in Seq(Commands) BY <1>2, BoxType
<1>4. Count(Box(r2, k), {Attach(k)}) = 0
  <2>1. ASSUME NEW i \in DOMAIN Box(r2, k), Box(r2, k)[i] = Attach(k) PROVE FALSE
    <3>1. CASE ~Live(r2, k) BY <2>1, <3>1 DEF Box
    <3>2. CASE Live(r2, k)
      <4>1. r2.own[k].tid \in Slots /\ Box(r2, k) = r.mail[r2.own[k].tid] BY <1>2, <3>2, BoxType
      <4>2. Proper(r, Attach(k)) BY <1>1, <2>1, <4>1 DEF Routed
      <4> QED BY <1>2, <4>2 DEF Proper, Live
    <3> QED BY <3>1, <3>2
  <2> DEFINE b == Box(r2, k)
             a == Attach(k)
  <2>2. b \in Seq(Commands) /\ \A i \in DOMAIN b : b[i] \notin {a} BY <1>3, <2>1
  <2> HIDE DEF a, b
  <2>3. Count(b, {a}) = 0 BY <2>2, Places
  <2> QED BY <2>3 DEF a, b
<1>5. Num(r2, K, Attach(k)) = Count(Box(r2, k), {Attach(k)}) + Bit(Attach(k) \in K) BY <1>2, NumHand
<1> QED BY <1>4, <1>5 DEF Bit

\* an object that has been sent one counted command
Once(x) == [x EXCEPT !.sent_seqnum = 1]

\* The kinds of the objects are a matter of each object alone.
LEMMA KindsMixed ==
  ASSUME NEW r, NEW r2, NEW a, Kinds(r), Kinds(r2),
         \A p \in Actors : a.own[p] = r.own[p] \/ a.own[p] = r2.own[p]
  PROVE  Kinds(a)
<1>1. ASSUME NEW s \in Sockets
      PROVE  /\ a.own[s].kind \in {"unborn", "socket", "deleted"}
             /\ a.own[s].kind = "socket" => a.own[s].tid = s
             /\ a.own[s].terminating => a.own[s].reaping
  <2>1. a.own[s] = r.own[s] \/ a.own[s] = r2.own[s] BY DEF Actors
  <2> QED BY <2>1 DEF Kinds
<1>2. ASSUME NEW c \in Objects
      PROVE  /\ a.own[c].kind \in {"unborn", "listener", "session", "connecter", "deleted"}
             /\ Live(a, c) => a.own[c].tid \in IoThreads
             /\ a.own[c].pipes = {} /\ ~a.own[c].destroyed /\ ~a.own[c].reaping
  <2>1. a.own[c] = r.own[c] \/ a.own[c] = r2.own[c] BY DEF Actors
  <2> QED BY <2>1 DEF Kinds, Live
<1>3. ASSUME NEW o \in Actors
      PROVE  /\ a.own[o].kind = "unborn" => a.own[o] = Unborn
             /\ a.own[o].kind = "deleted" => a.own[o] = Deleted
             /\ a.own[o].pending => a.own[o].kind = "session"
             /\ a.own[o].terminating => a.own[o].owned = {}
  <2>1. a.own[o] = r.own[o] \/ a.own[o] = r2.own[o] OBVIOUS
  <2> QED BY <2>1 DEF Kinds
<1> QED BY <1>1, <1>2, <1>3 DEF Kinds

\* own_t::launch_child as a whole: the new object and its owner both have a counted command
\* on its way, so that neither is deleted before it has taken it.
LEMMA Launched ==
  ASSUME NEW r, NEW H, Good(r, H), Busy(r), NEW k \in Objects, r.own[k].kind = "unborn",
         NEW w \in Actors, Live(r, w), ~r.own[w].destroyed, NEW x \in Object, x.owner = w,
         x.sent_seqnum = 0, NEW y \in Object, y = Once(x),
         Newborn(w, y), Related(r, w, y), y.kind = "connecter" => Idle(r, H, w),
         Cardinality(Unused(r))
           >= Cardinality(Dialling(r)) + 1 + Bit(y.kind = "session" /\ y.active),
         NEW res, res = LaunchChild(r, k, x)
  PROVE  /\ Good(res, H) /\ Busy(res) /\ Beside(r, res) /\ res.pipes = r.pipes /\ res.own[k] = y
         /\ w # k /\ SentOne(r.own[w], res.own[w])
         /\ res.own[w].endpoints = r.own[w].endpoints
         /\ \A p \in Actors : p # k /\ p # w => res.own[p] = r.own[p]
         /\ y.kind = "session" /\ ~y.active => Idle(res, H, k)
<1> DEFINE xw == r.own[w]
           n == xw.sent_seqnum + 1
           z == [xw EXCEPT !.sent_seqnum = n]
           a == With(r, k, y)
           r2 == With(a, w, z)
<1>1. /\ r \in States /\ r.own \in [Actors -> Object] /\ Kinds(r) /\ Owners(r) /\ k \in Actors
      /\ r.mail \in [Boxes -> Seq(Commands)]
  BY DEF Good, States, Actors
<1>2. w # k BY DEF Live
<1>3. xw \in Object /\ n \in Nat BY <1>1 DEF Object
<1>4. z \in Object /\ SentOne(xw, z) /\ z.endpoints = xw.endpoints
  <2> HIDE DEF n
  <2>1. z \in Object BY <1>3 DEF Object
  <2>2. z.sent_seqnum = n BY <1>3 DEF Object
  <2>3. /\ SameId(xw, z) /\ SamePipes(xw, z) /\ SameAcks(xw, z) /\ SameLink(xw, z)
        /\ z.processed_seqnum = xw.processed_seqnum /\ z.endpoints = xw.endpoints
    BY <1>3 DEF Object, SameId, SamePipes, SameAcks, SameLink
  <2>4. z.sent_seqnum = xw.sent_seqnum + 1 BY <2>2 DEF n
  <2> QED BY <2>1, <2>3, <2>4 DEF SentOne
<1> HIDE DEF n, z
<1>5. Edit(r, a, k, y) BY <1>1, OwnStep
<1>6. Edit2(r, r2, k, y, w, z) BY <1>1, <1>2, <1>4, WithBoth
<1>7. /\ Good(r2, H \cup {Plug(k), Owns(w, k)}) /\ Busy(r2) /\ Beside(r, r2)
      /\ Plug(k) \notin H /\ Owns(w, k) \notin H \cup {Plug(k)}
  <2> HIDE DEF r2
  <2> QED BY <1>4, <1>6, LaunchStep, ZenonT(40)
<1>8. Plug(k) \in Commands /\ Owns(w, k) \in Commands /\ Plug(k).dest = k /\ Owns(w, k).dest = w
  BY <1>1, VocabularyTypes
<1>9. a \in States /\ Kinds(a) /\ Live(a, k) /\ a.own[w] = xw
  <2>1. a \in States /\ a.own[k] = y /\ \A p \in Actors : p # k => a.own[p] = r.own[p]
    BY <1>5 DEF Edit
  <2>2. \A p \in Actors : p # w => a.own[p] = r2.own[p] BY <2>1, <1>6 DEF Edit2
  <2>3. Live(a, k) BY <2>1 DEF Live, Newborn
  <2>4. Kinds(r2) BY <1>7 DEF Good
  <2> HIDE DEF a, r2
  <2>5. a.own[w] = r.own[w] BY <1>2, <2>1
  <2>6. Kinds(a)
    <3>1. \A p \in Actors : a.own[p] = r.own[p] \/ a.own[p] = r2.own[p] BY <2>2, <2>5
    <3> QED BY <1>1, <2>4, <3>1, KindsMixed
  <2> QED BY <2>1, <2>3, <2>5, <2>6
<1>10. r2 \in States /\ Kinds(r2) /\ r2.own[k] = y /\ r2.own[w] = z /\ r2.pipes = r.pipes /\ r2.mail = r.mail
       /\ \A p \in Actors : p # k /\ p # w => r2.own[p] = r.own[p]
  BY <1>6, <1>7 DEF Good, Edit2
<1>11. Live(r2, k) /\ Live(r2, w)
  BY <1>4, <1>10 DEF Live, Newborn, SentOne, SameId
<1> DEFINE p1 == Post(r2, Plug(k))
           p2 == Post(p1, Owns(w, k))
<1>12. Good(p1, H \cup {Owns(w, k)}) /\ OnlyMail(r2, p1) /\ p1 \in States
  <2> HIDE DEF r2
  <2>1. Plug(k) \notin H \cup {Owns(w, k)} BY <1>7
  <2>2. Good(r2, (H \cup {Owns(w, k)}) \cup {Plug(k)})
    <3>1. (H \cup {Owns(w, k)}) \cup {Plug(k)} = H \cup {Plug(k), Owns(w, k)} OBVIOUS
    <3> QED BY <1>7, <3>1
  <2>3. Proper(r2, Plug(k)) BY <1>1, <1>11 DEF Proper, Plug, Cmd
  <2>4. Plug(k).type # "term_req" BY DEF Plug, Cmd
  <2>5. Good(p1, H \cup {Owns(w, k)}) /\ OnlyMail(r2, p1) BY <1>8, <2>1, <2>2, <2>3, <2>4, PostGood
  <2> QED BY <2>5 DEF Good
<1>13. p1.own = r2.own /\ p1.pipes = r2.pipes BY <1>12 DEF OnlyMail
<1>14. Good(p2, H) /\ OnlyMail(p1, p2)
  <2> HIDE DEF r2, p1
  <2>1. Proper(p1, Owns(w, k))
    <3>1. p1.own[k].owner = w /\ Live(p1, k) /\ Live(p1, w) BY <1>10, <1>11, <1>13 DEF Newborn, Live
    <3> QED BY <3>1 DEF Proper, Owns, Cmd
  <2>2. Owns(w, k).type # "term_req" BY DEF Owns, Cmd
  <2> QED BY <1>7, <1>8, <1>12, <2>1, <2>2, PostGood
<1>15. LaunchChild(r, k, x) = p2
  <2> DEFINE r0 == [r EXCEPT !.own[k] = x]
             b == [r0 EXCEPT !.own[k].sent_seqnum = @ + 1]
  <2>1. r0 = With(r, k, x) /\ Edit(r, r0, k, x)
    <3>1. r0 = [r EXCEPT !.own[k] = x] OBVIOUS
    <3> HIDE DEF r0
    <3> QED BY <1>1, <3>1, WithEdit
  <2>2. r0 \in States /\ r0.own[k] = x BY <2>1 DEF Edit
  <2>3. b = [r0 EXCEPT !.own[k] = [r0.own[k] EXCEPT !.sent_seqnum = r0.own[k].sent_seqnum + 1]]
    OBVIOUS
  <2>4. LaunchChild(r, k, x) = SendCounted(Send(b, "plug", k, Null), "own", w, k)
    BY DEF LaunchChild, SendCounted
  <2> HIDE DEF r0, b
  <2>5. [r0.own[k] EXCEPT !.sent_seqnum = r0.own[k].sent_seqnum + 1] = y BY <2>2 DEF Once
  <2>6. b = With(r0, k, y)
    <3> DEFINE v == [r0.own[k] EXCEPT !.sent_seqnum = r0.own[k].sent_seqnum + 1]
    <3>1. v = y BY <2>5
    <3>2. b = [r0 EXCEPT !.own[k] = v] BY <2>3
    <3> HIDE DEF v
    <3>3. v \in Object BY <3>1
    <3>4. r0 \in States /\ k \in Actors BY <1>1, <2>2
    <3>5. b = With(r0, k, v) BY <3>2, <3>3, <3>4, WithEdit
    <3> QED BY <3>1, <3>5
  <2>7. b = a BY <1>1, <2>1, <2>6, WithTwice
  <2>8. Send(b, "plug", k, Null) = Post(a, Plug(k)) BY <1>9, <2>7, SendPost DEF Plug
  <2> DEFINE q == Post(a, Plug(k))
             c == [q EXCEPT !.own[w].sent_seqnum = @ + 1]
  <2>9. q \in States /\ q.own = a.own
    <3> HIDE DEF a
    <3> QED BY <1>1, <1>8, <1>9, PostParts, ZenonT(40)
  <2>10. SendCounted(q, "own", w, k) = Send(c, "own", w, k) BY DEF SendCounted
  <2>11. c = [q EXCEPT !.own[w] = [q.own[w] EXCEPT !.sent_seqnum = q.own[w].sent_seqnum + 1]]
    OBVIOUS
  <2> HIDE DEF c, q
  <2>12. [q.own[w] EXCEPT !.sent_seqnum = q.own[w].sent_seqnum + 1] = z BY <1>9, <2>9 DEF n, z
  <2>13. c = With(q, w, z) BY <1>4, <2>9, <2>11, <2>12, WithEdit
  <2>14. With(q, w, z) = Post(r2, Plug(k))
    <3>1. Kinds(With(a, w, z)) BY <1>10
    <3>2. Plug(k).dest # w BY <1>2, <1>8
    <3>3. Live(a, Plug(k).dest) /\ Plug(k).dest \in Actors BY <1>1, <1>8, <1>9
    <3> HIDE DEF a
    <3> QED BY <1>4, <1>8, <1>9, <3>1, <3>2, <3>3, PostWith DEF q
  <2>15. Live(p1, w) BY <1>11, <1>13 DEF Live
  <2>16. Send(p1, "own", w, k) = p2
    <3> HIDE DEF p1
    <3> QED BY <2>15, SendPost DEF Owns
  <2> HIDE DEF r2, p2, a
  <2>17. SendCounted(q, "own", w, k) = p2 BY <2>10, <2>13, <2>14, <2>16
  <2> QED BY <2>4, <2>8, <2>17 DEF q
<1>16. res = p2 BY <1>15
<1> HIDE DEF r2, p1, p2
<1>17. res.own = r2.own /\ res.pipes = r.pipes BY <1>10, <1>13, <1>14, <1>16 DEF OnlyMail
<1>18. Busy(res) /\ Beside(r, res)
  <2>1. Busy(p1) /\ Beside(r2, p1) BY <1>7, <1>12, BesideMail
  <2>2. Busy(p2) /\ Beside(p1, p2) BY <1>14, <2>1, BesideMail
  <2>3. Beside(r, p1) BY <1>7, <2>1, BesideTrans
  <2> QED BY <1>16, <2>2, <2>3, BesideTrans
<1>19. y.kind = "session" /\ ~y.active => Idle(res, H, k)
  <2> SUFFICES ASSUME y.kind = "session", ~y.active PROVE Idle(res, H, k) OBVIOUS
  <2>1. Attach(k) \notin H
    <3>1. Num(r, H, Attach(k)) = 0 BY Strangers
    <3>2. Attach(k) \in Commands /\ Attach(k).dest \in Actors BY <1>1, VocabularyTypes
    <3> QED BY <1>1, <3>1, <3>2, NumNat
  <2>2. Num(r2, H, Attach(k)) = 0 BY <1>10, <2>1, NoneYet
  <2>3. Attach(k) \in Commands /\ Attach(k).dest \in Actors BY <1>1, VocabularyTypes
  <2>4. Attach(k) # Plug(k) /\ Attach(k) # Owns(w, k) BY <1>1, Vocabulary
  <2>5. Num(p1, H, Attach(k)) = 0 BY <1>1, <1>8, <1>10, <1>11, <2>2, <2>3, <2>4, PostNum DEF p1
  <2>6. Num(p2, H, Attach(k)) = 0
    <3>1. Kinds(p1) /\ Live(p1, w) BY <1>11, <1>12, <1>13 DEF Good, Live
    <3> QED BY <1>8, <1>12, <2>3, <2>4, <2>5, <3>1, PostNum DEF p2
  <2>7. Dials(res, k) = {}
    <3> SUFFICES ASSUME NEW d \in Dials(res, k) PROVE FALSE OBVIOUS
    <3>1. d \in Objects /\ res.own[d].kind = "connecter" /\ res.own[d].owner = k BY DEF Dials
    <3>2. d # k /\ d \in Actors BY <1>10, <1>17, <3>1 DEF Actors
    <3>3. SameId(r.own[d], res.own[d])
      BY <1>4, <1>10, <1>17, <3>2 DEF SameId, SentOne
    <3>4. Child(r, d, k) BY <3>1, <3>3 DEF Child, Live, SameId
    <3> QED BY <3>4, Strangers
  <2>8. ~res.own[k].engine /\ ~res.own[k].active BY <1>10, <1>17 DEF Newborn
  <2> QED BY <1>16, <2>6, <2>7, <2>8 DEF Idle
<1>20. Good(res, H) BY <1>14, <1>16
<1>21. res.own[k] = y /\ SentOne(r.own[w], res.own[w]) /\ res.own[w].endpoints = r.own[w].endpoints
  BY <1>4, <1>10, <1>17
<1> QED BY <1>2, <1>10, <1>17, <1>18, <1>19, <1>20, <1>21

\* What the constructors of the listeners, the sessions and the connecters leave behind, once the
\* command plug has been counted.
LEMMA Borns ==
  ASSUME NEW w \in Actors, NEW t \in IoThreads, NEW x, NEW y, y = Once(x),
         \/ x = Listener(t, w) \/ x = Connecter(t, w)
         \/ \E s \in Sockets, f \in BOOLEAN : x = Session(t, w, s, f)
  PROVE  /\ x \in Object /\ y \in Object /\ x.owner = w /\ x.sent_seqnum = 0 /\ Newborn(w, y)
         /\ x = Listener(t, w) => y.kind = "listener"
         /\ x = Connecter(t, w) => y.kind = "connecter"
         /\ \A s, f : x = Session(t, w, s, f) => y.kind = "session" /\ y.socket = s /\ y.active = f
         /\ y.endpoints = {}
<1> DEFINE Blank == /\ x.kind \in {"listener", "session", "connecter"} /\ x.tid = t /\ x.owner = w
                    /\ x.owned = {} /\ x.pipes = {} /\ x.sent_seqnum = 0 /\ x.processed_seqnum = 0
                    /\ x.term_acks = 0 /\ ~x.terminating /\ ~x.reaping /\ ~x.destroyed /\ ~x.pending
                    /\ ~x.engine /\ ~x.plugged /\ ~x.connected /\ x.endpoints = {}
           kl == Listener(t, w).kind = "listener"
           kc == Connecter(t, w).kind = "connecter"
           ks == \A s, f : /\ Session(t, w, s, f).kind = "session" /\ Session(t, w, s, f).socket = s
                           /\ Session(t, w, s, f).active = f
<1>1. t \in Slots BY DEF Slots
<1>2. x \in Object /\ Blank
  <2>1. CASE x = Listener(t, w)
    <3>1. x \in Object BY <1>1, <2>1 DEF Listener, Own, Unborn, Object
    <3>2. Blank BY <2>1 DEF Listener, Own, Unborn
    <3> QED BY <3>1, <3>2
  <2>2. CASE x = Connecter(t, w)
    <3>1. x \in Object BY <1>1, <2>2 DEF Connecter, Own, Unborn, Object
    <3>2. Blank BY <2>2 DEF Connecter, Own, Unborn
    <3> QED BY <3>1, <3>2
  <2>3. ASSUME NEW s \in Sockets, NEW f \in BOOLEAN, x = Session(t, w, s, f) PROVE x \in Object /\ Blank
    <3>1. x \in Object BY <1>1, <2>3, ZenonT(20) DEF Session, Own, Unborn, Object
    <3>2. Blank BY <2>3 DEF Session, Own, Unborn
    <3> QED BY <3>1, <3>2
  <2> QED BY <2>1, <2>2, <2>3
<1>3. kl /\ kc /\ ks BY DEF Listener, Connecter, Session, Own, Unborn
<1>4. y \in Object BY <1>2 DEF Object, Once
<1>5. /\ y.kind = x.kind /\ y.socket = x.socket /\ y.active = x.active /\ y.endpoints = x.endpoints
      /\ y.sent_seqnum = 1
  BY <1>2 DEF Object, Once
<1>6. Newborn(w, y) BY <1>2 DEF Object, Newborn, Once
<1>7. /\ x = Listener(t, w) => y.kind = "listener"
      /\ x = Connecter(t, w) => y.kind = "connecter"
      /\ \A s, f : x = Session(t, w, s, f) => y.kind = "session" /\ y.socket = s /\ y.active = f
  BY <1>3, <1>5
<1> QED BY <1>2, <1>4, <1>5, <1>6, <1>7

\* The object that the next constructor runs on has not been used, and is one of those that the
\* sessions still to be plugged leave.
LEMMA FreshUnused ==
  ASSUME NEW r, Kinds(r), r.own = own
  PROVE  /\ Free = Unused(r) /\ Kept = Dialling(r)
         /\ Unused(r) # {} => Fresh \in Objects /\ r.own[Fresh].kind = "unborn"
<1>1. Unborn.kind = "unborn" BY DEF Unborn
<1>2. \A o \in Objects : own[o] = Unborn <=> r.own[o].kind = "unborn" BY <1>1 DEF Kinds, Actors
<1>3. Free = Unused(r) BY <1>2 DEF Free, Unused
<1>4. Kept = Dialling(r) BY DEF Kept, Dialling
<1>5. Unused(r) # {} => Fresh \in Unused(r)
  <2> HIDE DEF Free, Unused
  <2> QED BY <1>3 DEF Fresh
<1> QED BY <1>3, <1>4, <1>5 DEF Unused

\* process_plug, with the connecter that a connecting session starts (start_connecting), and the
\* check that follows every counted command.
LEMMA PlugCmds ==
  ASSUME NEW r, NEW o \in Objects, Good(r, {Plug(o)}), Busy(r), r.own = own, NEW t \in IoThreads
  PROVE  Done(r, process_seqnum(process_plug(r, o, t), o))
<1> DEFINE x == r.own[o]
           y == [x EXCEPT !.plugged = TRUE]
           r1 == [r EXCEPT !.own[o].plugged = TRUE]
<1>1. /\ r \in States /\ r.own \in [Actors -> Object] /\ Kinds(r) /\ o \in Actors /\ Routed(r)
      /\ Engines(r, {Plug(o)}) /\ Rooms(r) /\ Ready(r, {Plug(o)})
  BY DEF Good, States, Actors
<1>2. x \in Object BY <1>1
<1>3. y \in Object /\ SetPlugged(x, y)
  <2>1. y \in Object BY <1>2 DEF Object
  <2>2. SetPlugged(x, y) BY <1>2 DEF Object, SetPlugged, SameId, SamePipes, SameAcks
  <2> QED BY <2>1, <2>2
<1>4. Edit(r, r1, o, y)
  <2>1. r1 = [r EXCEPT !.own[o] = y] OBVIOUS
  <2> HIDE DEF r1, y
  <2> QED BY <1>1, <1>3, <2>1, WithEdit
<1>5. process_plug(r, o, t) = IF x.kind = "session" /\ x.active THEN StartConnecting(r1, o, t) ELSE r1
  BY DEF process_plug
<1> HIDE DEF r1, y
<1>6. Good(r1, {Seqnum(o)}) /\ Busy(r1) /\ Beside(r, r1) /\ ~x.plugged BY <1>3, <1>4, PlugStep
<1>7. CASE ~(x.kind = "session" /\ x.active)
  <2>1. process_plug(r, o, t) = r1 BY <1>5, <1>7
  <2>2. Done(r1, process_seqnum(r1, o)) BY <1>1, <1>6, Seqnums DEF Busy
  <2> QED BY <1>6, <2>1, <2>2, BesideTrans DEF Done
<1>8. CASE x.kind = "session" /\ x.active
  <2> DEFINE k == Fresh
             c == Connecter(t, o)
             d == Once(c)
             res == LaunchChild(r1, k, c)
  <2>1. process_plug(r, o, t) = res BY <1>5, <1>8 DEF StartConnecting
  <2>2. /\ r1 \in States /\ r1.own[o] = y /\ r1.mail = r.mail
        /\ \A p \in Actors : p # o => r1.own[p] = r.own[p]
    BY <1>4 DEF Edit
  <2>3. SameId(x, y) /\ y.plugged /\ y.engine = x.engine BY <1>3 DEF SetPlugged
  <2>4. Kinds(r1) BY <1>6 DEF Good
  <2>5. Live(r1, o) /\ ~r1.own[o].destroyed /\ r1.own[o].kind = "session"
    BY <1>8, <2>2, <2>3, <2>4 DEF Live, SameId, Kinds
  <2>6. Idle(r1, {Seqnum(o)}, o)
    <3>1. Num(r, {Plug(o)}, Attach(o)) \in Nat
      BY <1>1, NumNat, VocabularyTypes
    <3>2. /\ Dials(r, o) = {} /\ Num(r, {Plug(o)}, Attach(o)) = 0 /\ ~x.engine
      <4>1. Bit(x.active /\ ~x.plugged) = 1 BY <1>6, <1>8 DEF Bit
      <4>2. Bit(Dials(r, o) # {}) \in Nat /\ Bit(x.engine) \in Nat BY DEF Bit
      <4>3. Bit(x.active /\ ~x.plugged) + Bit(Dials(r, o) # {})
              + Num(r, {Plug(o)}, Attach(o)) + Bit(x.engine) <= 1
        BY <1>1, <1>8 DEF Engines
      <4>4. Bit(Dials(r, o) # {}) = 0 /\ Num(r, {Plug(o)}, Attach(o)) = 0 /\ Bit(x.engine) = 0
        BY <3>1, <4>1, <4>2, <4>3
      <4> QED BY <4>4 DEF Bit
    <3>3. Dials(r1, o) = Dials(r, o)
      <4>1. \A p \in Objects : /\ r1.own[p].kind = r.own[p].kind /\ r1.own[p].owner = r.own[p].owner
                               /\ r1.own[p].connected = r.own[p].connected
        <5>1. y.connected = x.connected BY <1>3 DEF SetPlugged
        <5> QED BY <2>2, <2>3, <5>1 DEF SameId, Actors
      <4> QED BY <4>1 DEF Dials
    <3>4. Num(r1, {Seqnum(o)}, Attach(o)) = 0
      <4>1. Stay(r, r1) BY <2>2, <2>3 DEF Stay, Live, SameId
      <4>2. Moved(r, {Plug(o)}, r1, {Seqnum(o)}) BY <1>1, <2>2, <2>4, <4>1, Moves
      <4>3. Attach(o) \notin {Plug(o)} /\ Attach(o) \notin {Seqnum(o)} BY <1>1, Vocabulary
      <4>4. Num(r1, {Seqnum(o)}, Attach(o)) = Num(r, {Plug(o)}, Attach(o))
              - Bit(Attach(o) \in {Plug(o)}) + Bit(Attach(o) \in {Seqnum(o)})
        BY <4>2 DEF Moved
      <4>5. Bit(Attach(o) \in {Plug(o)}) = 0 /\ Bit(Attach(o) \in {Seqnum(o)}) = 0 BY <4>3 DEF Bit
      <4> QED BY <3>2, <4>4, <4>5
    <3> QED BY <2>2, <2>3, <3>2, <3>3, <3>4 DEF Idle
  <2>7. /\ Cardinality(Unused(r1)) >= Cardinality(Dialling(r1)) + 1
        /\ Cardinality(Unused(r1)) \in Nat /\ Cardinality(Dialling(r1)) \in Nat
        /\ Unused(r) # {}
    <3>1. Unused(r1) = Unused(r)
      <4>1. \A p \in Objects : r1.own[p].kind = r.own[p].kind BY <2>2, <2>3 DEF SameId, Actors
      <4> QED BY <4>1 DEF Unused
    <3>2. Dialling(r1) = Dialling(r) \ {o} /\ o \in Dialling(r)
      <4>1. \A p \in Objects : p # o => r1.own[p] = r.own[p] BY <2>2 DEF Actors
      <4>2. r1.own[o].plugged BY <2>2, <2>3
      <4> QED BY <1>6, <1>8, <4>1, <4>2 DEF Dialling
    <3>3. IsFiniteSet(Dialling(r)) /\ IsFiniteSet(Unused(r))
      BY OwnershipAssumption, FS_Subset DEF Dialling, Unused
    <3>4. Cardinality(Dialling(r1)) = Cardinality(Dialling(r)) - 1 /\ Cardinality(Dialling(r)) \in Nat
          /\ Cardinality(Dialling(r1)) \in Nat
      BY <3>2, <3>3, FS_RemoveElement, FS_CardinalityType
    <3>5. Cardinality(Unused(r)) >= Cardinality(Dialling(r)) /\ Cardinality(Unused(r)) \in Nat
      BY <1>1, <3>3, FS_CardinalityType DEF Rooms
    <3>6. Unused(r) # {}
      <4>1. Cardinality(Unused(r)) >= 1 BY <3>4, <3>5
      <4> QED BY <4>1, FS_EmptySet
    <3> QED BY <3>1, <3>4, <3>5, <3>6
  <2>8. k \in Objects /\ r.own[k].kind = "unborn" BY <1>1, <2>7, FreshUnused
  <2>9. r1.own[k].kind = "unborn"
    BY <2>2, <2>3, <2>8 DEF SameId, Actors
  <2>11. /\ c \in Object /\ d \in Object /\ c.owner = o /\ c.sent_seqnum = 0 /\ Newborn(o, d)
         /\ d.kind = "connecter"
    <3>1. c = Connecter(t, o) OBVIOUS
    <3>2. d = Once(c) OBVIOUS
    <3>3. o \in Actors BY <1>1
    <3> HIDE DEF c, d
    <3>4. \/ c = Listener(t, o) \/ c = Connecter(t, o)
          \/ \E s \in Sockets, f \in BOOLEAN : c = Session(t, o, s, f)
      BY <3>1
    <3>5. c \in Object /\ d \in Object BY <3>2, <3>3, <3>4, Borns
    <3>6. c.owner = o /\ c.sent_seqnum = 0 /\ Newborn(o, d) BY <3>2, <3>3, <3>4, Borns
    <3>7. d.kind = "connecter" BY <3>1, <3>2, <3>3, <3>4, Borns
    <3> QED BY <3>5, <3>6, <3>7
  <2>12. Related(r1, o, d) BY <2>5, <2>11 DEF Related
  <2>13. Cardinality(Unused(r1))
           >= Cardinality(Dialling(r1)) + 1 + Bit(d.kind = "session" /\ d.active)
    <3>1. Bit(d.kind = "session" /\ d.active) = 0 BY <2>11 DEF Bit
    <3> QED BY <2>7, <3>1
  <2>14. d = Once(c) /\ res = LaunchChild(r1, k, c) OBVIOUS
  <2> HIDE DEF k, c, d, res
  <2>15. Good(res, {Seqnum(o)}) /\ Busy(res) /\ Beside(r1, res)
    BY <1>1, <1>6, <2>5, <2>6, <2>8, <2>9, <2>11, <2>12, <2>13, <2>14, Launched
  <2>16. Done(res, process_seqnum(res, o)) BY <1>1, <2>15, Seqnums DEF Busy
  <2>17. Beside(r, res) BY <1>6, <2>15, BesideTrans
  <2> QED BY <2>1, <2>16, <2>17, BesideTrans DEF Done
<1> QED BY <1>7, <1>8

\* session_base_t::process_attach: the engine is taken, a session without a pipe makes one and
\* binds it to its socket, and the check of the counted command follows.
LEMMA AttachCmds ==
  ASSUME NEW r, NEW c \in Objects, Good(r, {Attach(c)}), Busy(r)
  PROVE  Done(r, process_seqnum(process_attach(r, c), c))
<1> DEFINE x == r.own[c]
           y == [x EXCEPT !.engine = TRUE]
           e == With(r, c, y)
           p == process_attach(r, c)
<1>1. /\ r \in States /\ r.own \in [Actors -> Object] /\ Kinds(r) /\ c \in Actors
      /\ r.pipes \in [Objects -> PipeState]
  BY DEF Good, States, Actors
<1>2. x \in Object BY <1>1
<1>3. y \in Object /\ Hooked(x, y)
  <2>1. y \in Object BY <1>2 DEF Object
  <2>2. Hooked(x, y)
    BY <1>2 DEF Object, Hooked, Linked, SameId, SameStage, SamePipes, SameAcks, SameCounts
  <2> QED BY <2>1, <2>2
<1>4. \A u \in States : u.own[c] = x => [u EXCEPT !.own[c].engine = TRUE] = With(u, c, y)
  <2> SUFFICES ASSUME NEW u \in States, u.own[c] = x
               PROVE  [u EXCEPT !.own[c].engine = TRUE] = With(u, c, y)
    OBVIOUS
  <2>1. [u EXCEPT !.own[c].engine = TRUE] = [u EXCEPT !.own[c] = [u.own[c] EXCEPT !.engine = TRUE]]
    OBVIOUS
  <2> DEFINE v == [u EXCEPT !.own[c].engine = TRUE]
  <2>2. v = [u EXCEPT !.own[c] = y] BY <2>1
  <2> HIDE DEF y, v
  <2>3. v = With(u, c, y) BY <1>1, <1>3, <2>2, WithEdit
  <2> QED BY <2>3 DEF v
<1> HIDE DEF y
<1>5. Edit(r, e, c, y) BY <1>1, <1>3, OwnStep
<1> HIDE DEF e
<1>6. /\ Good(e, {Seqnum(c)}) /\ (\A q \in Actors : Waits(r, q) => Waits(e, q)) /\ Beside(r, e)
      /\ ~x.engine /\ x.kind = "session"
  BY <1>3, <1>5, AttachStep
<1>7. Busy(e) BY <1>6 DEF Busy
<1>8. CASE 2 \in r.pipes[c].ends \/ x.terminating
  <2>1. p = Expect([r EXCEPT !.own[c].engine = TRUE], ~x.engine) BY <1>8 DEF process_attach
  <2>2. [r EXCEPT !.own[c].engine = TRUE] = e BY <1>1, <1>4 DEF e
  <2>3. e \in States BY <1>6 DEF Good
  <2> HIDE DEF p, x
  <2>4. Expect(e, ~x.engine) = e BY <1>6, <2>3, ExpectOK
  <2>5. p = e BY <2>1, <2>2, <2>4
  <2>6. Done(e, process_seqnum(e, c)) BY <1>1, <1>6, <1>7, Seqnums DEF Busy
  <2>7. Done(r, process_seqnum(p, c)) BY <1>6, <2>5, <2>6, BesideTrans DEF Done
  <2> QED BY <2>7 DEF p
<1>9. CASE ~(2 \in r.pipes[c].ends \/ x.terminating)
  <2> DEFINE s == x.socket
             xs == r.own[s]
             n == xs.sent_seqnum + 1
             z == [xs EXCEPT !.sent_seqnum = n]
             m == Binds(s, c)
             g == [r EXCEPT !.pipes[c] = NewPipe]
             u == With(g, s, z)
             r2 == With(u, c, y)
             res == Post(r2, m)
  <2>1. s \in Sockets /\ Live(r, s) BY <1>6, SocketThere
  <2>2. s \in Actors /\ s # c BY <2>1, OwnershipAssumption DEF Actors
  <2>3. xs \in Object /\ n \in Nat BY <1>1, <2>2 DEF Object
  <2>4. z \in Object /\ SentOne(xs, z)
    <3> HIDE DEF n
    <3>1. z \in Object BY <2>3 DEF Object
    <3>2. z.sent_seqnum = n BY <2>3 DEF Object
    <3>3. /\ SameId(xs, z) /\ SamePipes(xs, z) /\ SameAcks(xs, z) /\ SameLink(xs, z)
          /\ z.processed_seqnum = xs.processed_seqnum
      BY <2>3 DEF Object, SameId, SamePipes, SameAcks, SameLink
    <3>4. z.sent_seqnum = xs.sent_seqnum + 1 BY <3>2 DEF n
    <3> QED BY <3>1, <3>3, <3>4 DEF SentOne
  <2>5. OnlyPipes(r, g) /\ Made(r, g, c)
    <3> DEFINE f == [r.pipes EXCEPT ![c] = NewPipe]
    <3>1. NewPipe \in PipeState BY DEF NewPipe, PipeState
    <3>2. f \in [Objects -> PipeState] /\ f[c] = NewPipe /\ \A d \in Objects : d # c => f[d] = r.pipes[d]
      BY <1>1, <3>1
    <3>3. g = [r EXCEPT !.pipes = f] OBVIOUS
    <3> HIDE DEF f, g
    <3> QED BY <1>1, <3>2, <3>3, WithPipes DEF OnlyPipes, Made
  <2> HIDE DEF n, z, g
  <2>6. g \in States /\ g.own = r.own /\ g.mail = r.mail /\ g.failed = r.failed BY <2>5 DEF OnlyPipes
  <2>7. Edit2(g, r2, s, z, c, y) BY <1>1, <1>3, <2>2, <2>4, <2>6, WithBoth
  <2>8. Edit(g, u, s, z) BY <2>2, <2>4, <2>6, OwnStep
  <2>9. EditToo(e, r2, s, z) /\ Made(e, r2, c) /\ e.pipes = r.pipes /\ e.own[c] = y /\ e.own[s] = xs
    <3> HIDE DEF r2, u
    <3>1. e.own[s] = xs /\ e.own[c] = y /\ e.pipes = r.pipes BY <1>5, <2>2 DEF Edit
    <3>2. r2.own[s] = z /\ r2.own[c] = y BY <2>7 DEF Edit2
    <3>3. \A q \in Actors : q # s => r2.own[q] = e.own[q]
      BY <1>5, <2>6, <2>7, <3>1, <3>2 DEF Edit, Edit2
    <3>4. r2 \in States /\ r2.mail = e.mail /\ r2.failed = e.failed
      BY <1>5, <2>6, <2>7 DEF Edit, Edit2
    <3>5. Made(e, r2, c) BY <2>5, <2>7, <3>1 DEF Made, Edit2
    <3> QED BY <3>1, <3>2, <3>3, <3>4, <3>5 DEF EditToo
  <2>10. /\ Good(r2, {Seqnum(c)} \cup {m}) /\ m \notin {Seqnum(c)}
         /\ (\A q \in Actors : Waits(e, q) => Waits(r2, q)) /\ Beside(e, r2)
         /\ 1 \notin e.pipes[c].ends /\ Proper(r2, m)
    <3>1. e.own[c].kind = "session" /\ ~e.own[c].terminating /\ s = e.own[c].socket
      BY <1>3, <1>6, <1>9, <2>9 DEF Hooked, Linked, SameId, SameStage
    <3>2. 2 \notin e.pipes[c].ends BY <1>9, <2>9
    <3>3. SentOne(e.own[s], z) BY <2>4, <2>9
    <3>4. Good(e, {Seqnum(c)}) BY <1>6
    <3>5. EditToo(e, r2, s, z) /\ Made(e, r2, c) BY <2>9
    <3>6. Makes(e, {Seqnum(c)}, c, s, r2, z) BY <3>1, <3>2, <3>3, <3>4, <3>5 DEF Makes
    <3> HIDE DEF r2, s, u, x, xs
    <3> QED BY <3>6, MakePipeStep
  <2>11. m \in Commands /\ m.dest = s /\ m.type = "bind"
    BY <2>2, VocabularyTypes DEF Binds, Cmd
  <2>12. Good(res, {Seqnum(c)}) /\ OnlyMail(r2, res)
    <3> HIDE DEF r2, m
    <3> QED BY <2>10, <2>11, PostGood
  <2>13. p = res
    <3> DEFINE q == SendCounted(Expect(g, 1 \notin r.pipes[c].ends), "bind", s, c)
    <3>1. p = Expect([q EXCEPT !.own[c].engine = TRUE], ~x.engine) BY <1>9 DEF process_attach, g
    <3>2. Expect(g, 1 \notin r.pipes[c].ends) = g
      <4>1. 1 \notin r.pipes[c].ends BY <2>9, <2>10
      <4> QED BY <2>6, <4>1, ExpectOK
    <3>3. [g EXCEPT !.own[s].sent_seqnum = @ + 1] = u
      <4> DEFINE v == [g EXCEPT !.own[s].sent_seqnum = @ + 1]
      <4>1. v = [g EXCEPT !.own[s] = [g.own[s] EXCEPT !.sent_seqnum = g.own[s].sent_seqnum + 1]]
        OBVIOUS
      <4>2. [g.own[s] EXCEPT !.sent_seqnum = g.own[s].sent_seqnum + 1] = z BY <2>6 DEF z, n
      <4>3. v = [g EXCEPT !.own[s] = z] BY <4>1, <4>2
      <4> HIDE DEF v, s
      <4>4. v = With(g, s, z) BY <2>2, <2>4, <2>6, <4>3, WithEdit
      <4> QED BY <4>4 DEF v
    <3>4. u \in States /\ u.own[s] = z /\ u.own[c] = x BY <1>1, <2>2, <2>6, <2>8 DEF Edit
    <3>5. Live(u, s) BY <2>1, <2>4, <3>4 DEF Live, SentOne, SameId
    <3>6. Kinds(r2) /\ Kinds(u) /\ r2 \in States
      <4>1. Kinds(r2) /\ r2 \in States BY <2>10 DEF Good
      <4>2. \A d \in Actors : u.own[d] = r.own[d] \/ u.own[d] = r2.own[d]
        <5> HIDE DEF u, r2
        <5> QED BY <2>6, <2>7, <2>8 DEF Edit, Edit2
      <4> HIDE DEF u, r2
      <4> QED BY <1>1, <4>1, <4>2, KindsMixed
    <3>7. q = Post(u, m)
      <4>1. q = Send(u, "bind", s, c) BY <3>2, <3>3, ZenonT(20) DEF SendCounted
      <4> HIDE DEF u, q, s
      <4> QED BY <3>5, <4>1, SendPost DEF m, Binds
    <3>8. Post(u, m) \in States /\ Post(u, m).own = u.own
      <4> HIDE DEF u, m, s
      <4> QED BY <2>2, <2>11, <3>4, <3>5, <3>6, PostParts
    <3>9. [q EXCEPT !.own[c].engine = TRUE] = With(Post(u, m), c, y)
      <4> HIDE DEF u, m, q, x
      <4> QED BY <1>4, <3>4, <3>7, <3>8
    <3>10. With(Post(u, m), c, y) = res
      <4>1. m.dest # c BY <2>2, <2>11
      <4> HIDE DEF u, m, s
      <4> QED BY <1>1, <1>3, <2>2, <2>11, <3>4, <3>5, <3>6, <4>1, PostWith
    <3>11. res \in States BY <2>12 DEF Good
    <3> HIDE DEF res, q, p, x
    <3>12. Expect(res, ~x.engine) = res BY <1>6, <3>11, ExpectOK
    <3> QED BY <3>1, <3>9, <3>10, <3>12
  <2> HIDE DEF res, r2, p
  <2>14. Busy(res) /\ Beside(r, res)
    <3>1. Busy(r2) BY <1>7, <2>10 DEF Busy
    <3>2. Busy(res) /\ Beside(r2, res) BY <2>12, <3>1, BesideMail
    <3>3. Beside(r, r2) BY <1>6, <2>10, BesideTrans
    <3> QED BY <3>2, <3>3, BesideTrans
  <2>15. Done(res, process_seqnum(res, c)) BY <1>1, <2>12, <2>14, Seqnums DEF Busy
  <2>16. Done(r, process_seqnum(p, c)) BY <2>13, <2>14, <2>15, BesideTrans DEF Done
  <2> QED BY <2>16 DEF p
<1> QED BY <1>8, <1>9

\* A command is its type, its destination and its argument.
LEMMA Parts ==
  ASSUME NEW m \in Commands
  PROVE  m = Cmd(m.type, m.dest, m.arg)
BY DEF Commands, Cmd

\* process_stop of a socket: it learns that the context terminates.
LEMMA StopCmds ==
  ASSUME NEW r, Good(r, {}), Busy(r), NEW s \in Sockets, Live(r, s)
  PROVE  Done(r, [r EXCEPT !.own[s].ctx_terminated = TRUE])
<1> DEFINE x == r.own[s]
           y == [x EXCEPT !.ctx_terminated = TRUE]
           r2 == [r EXCEPT !.own[s].ctx_terminated = TRUE]
<1>1. r \in States /\ r.own \in [Actors -> Object] /\ s \in Actors BY DEF Good, States, Actors
<1>2. x \in Object BY <1>1
<1>3. y \in Object /\ Aside(x, y)
  <2>1. y \in Object BY <1>2 DEF Object
  <2>2. Aside(x, y)
    BY <1>2 DEF Object, Aside, SameId, SameStage, SameLink, SamePipes, SameAcks, SameCounts
  <2> QED BY <2>1, <2>2
<1>4. r2 = [r EXCEPT !.own[s] = y] OBVIOUS
<1> HIDE DEF y, r2
<1>5. Edit(r, r2, s, y) BY <1>1, <1>3, <1>4, WithEdit
<1>6. Good(r2, {}) /\ (\A p \in Actors : Waits(r, p) => Waits(r2, p)) /\ Beside(r, r2)
  BY <1>1, <1>3, <1>5, AsideStep
<1> QED BY <1>6 DEF Done, Busy, r2

\* object_t::process_command: whatever the command, the object that takes it is there, no
\* assertion fails, and all that the counts say stays true.
LEMMA Processed ==
  ASSUME NEW r, NEW m \in Commands, Good(r, {m}), Proper(r, m), Busy(r), r.own = own,
         NEW t \in IoThreads, \A s \in Sockets : r.own[s].reaping => r.own[s].terminating
  PROVE  Done(r, process_command(r, m, t))
<1> DEFINE o == m.dest
           a == m.arg
           res == process_command(r, m, t)
<1>1. m = Cmd(m.type, o, a) BY Parts
<1>2. o \in Actors /\ Live(r, o) BY DEF Proper
<1>3. m.type \in {"plug", "own", "attach", "bind", "term", "term_req", "term_ack", "stop"}
  BY DEF Proper
<1>4. CASE m.type = "plug"
  <2>1. o \in Objects /\ m = Plug(o) BY <1>1, <1>4 DEF Proper, Plug
  <2>2. res = process_seqnum(process_plug(r, o, t), o) BY <1>4 DEF process_command
  <2> HIDE DEF res, o
  <2>3. Done(r, res) BY <2>1, <2>2, PlugCmds
  <2> QED BY <2>3 DEF res
<1>5. CASE m.type = "own"
  <2>1. a \in Objects /\ m = Owns(o, a) BY <1>1, <1>5 DEF Proper, Owns
  <2>2. res = process_seqnum(process_own(r, o, a), o) BY <1>5 DEF process_command
  <2> HIDE DEF res, o, a
  <2>3. Done(r, res) BY <1>2, <2>1, <2>2, OwnCmds
  <2> QED BY <2>3 DEF res
<1>6. CASE m.type = "attach"
  <2>1. o \in Objects /\ m = Attach(o) BY <1>1, <1>6 DEF Proper, Attach
  <2>2. res = process_seqnum(process_attach(r, o), o) BY <1>6 DEF process_command
  <2> HIDE DEF res, o
  <2>3. Done(r, res) BY <2>1, <2>2, AttachCmds
  <2> QED BY <2>3 DEF res
<1>7. CASE m.type = "bind"
  <2>1. o \in Sockets /\ a \in Objects /\ m = Binds(o, a) BY <1>1, <1>7 DEF Proper, Binds
  <2>2. res = process_seqnum(process_bind(r, o, a), o) BY <1>7 DEF process_command
  <2>3. r.own[o].reaping => r.own[o].terminating BY <2>1
  <2> HIDE DEF res, o, a
  <2>4. Done(r, res) BY <2>1, <2>2, <2>3, BindCmds
  <2> QED BY <2>4 DEF res
<1>8. CASE m.type = "term"
  <2>1. o \in Objects /\ m = Term(o) BY <1>1, <1>8 DEF Proper, Term
  <2>2. CASE r.own[o].kind = "session"
    <3>1. res = SessionProcessTerm(r, o) BY <1>8, <2>2 DEF process_command
    <3> HIDE DEF res, o
    <3>2. Done(r, res) BY <2>1, <3>1, SessionTerms
    <3> QED BY <3>2 DEF res
  <2>3. CASE r.own[o].kind # "session"
    <3>1. res = OwnProcessTerm(r, o) BY <1>8, <2>3 DEF process_command
    <3>2. 2 \notin r.pipes[o].ends BY <2>1, <2>3 DEF Good, EndsOK
    <3> HIDE DEF res, o
    <3>3. Done(r, res) BY <2>1, <3>1, <3>2, ObjectTerms
    <3> QED BY <3>3 DEF res
  <2> QED BY <2>2, <2>3
<1>9. CASE m.type = "term_req"
  <2>1. Good(r, {}) BY <1>9, DropLoose
  <2>2. res = process_term_req(r, o, a) BY <1>9 DEF process_command
  <2> HIDE DEF res, o, a
  <2>3. Done(r, res) BY <1>2, <2>1, <2>2, TermReqs
  <2> QED BY <2>3 DEF res
<1>10. CASE m.type = "term_ack"
  <2>1. m = Ack(o) BY <1>1, <1>10 DEF Proper, Ack
  <2>2. res = unregister_term_ack(r, o) BY <1>10 DEF process_command
  <2>3. \A p \in Actors \ {o} : Waits(r, p) BY DEF Busy
  <2> HIDE DEF res, o
  <2>4. Done(r, res) BY <1>2, <2>1, <2>2, <2>3, Acks
  <2> QED BY <2>4 DEF res
<1>11. CASE m.type = "stop"
  <2>1. Good(r, {}) BY <1>11, DropLoose
  <2>2. o \in Sockets BY <1>11 DEF Proper
  <2>3. res = [r EXCEPT !.own[o].ctx_terminated = TRUE] BY <1>11 DEF process_command
  <2> HIDE DEF res, o
  <2>4. Done(r, res) BY <1>2, <2>1, <2>2, <2>3, StopCmds
  <2> QED BY <2>4 DEF res
<1> QED BY <1>3, <1>4, <1>5, <1>6, <1>7, <1>8, <1>9, <1>10, <1>11
-----------------------------------------------------------------------------
(***************************************************************************)
(* The actions: each is a chain of the steps above, from a state in which  *)
(* nothing is in hand to the next one.                                     *)
(***************************************************************************)
LEMMA StateParts ==
  State.own = own /\ State.mail = mail /\ State.pipes = pipes /\ State.failed = failed
BY DEF State

\* The state after a step is the record that the step has worked out.
LEMMA NextState ==
  ASSUME NEW r \in States, Update(r)
  PROVE  State' = r
BY DEF State, States, Update

\* A step of an object leaves the sockets of the context, its reaper and its terminating thread
\* as they are.
LEMMA BesideContext ==
  ASSUME Context, NEW r, Local(r), Beside(State, r)
  PROVE  Context'
<1>1. /\ own' = r.own /\ mail' = r.mail /\ sockets' = sockets /\ terminating' = terminating
      /\ term' = term /\ reaper' = reaper /\ closed' = closed
  BY DEF Local, Update, ctxVars
<1>2. mail'["reaper"] = mail["reaper"] /\ mail'["term"] = mail["term"]
  BY <1>1, StateParts DEF Beside
<1>3. \A s \in Sockets : /\ own'[s].kind = own[s].kind /\ own'[s].reaping = own[s].reaping
                         /\ own'[s].terminating = own[s].terminating
  BY <1>1, StateParts DEF Beside
<1>4. sockets \subseteq Sockets BY DEF Context
<1>5. Reaping' = Reaping BY <1>1, <1>3, <1>4 DEF Reaping
<1>6. sockets' = {s \in Sockets : own'[s].kind = "socket"} BY <1>1, <1>3 DEF Context
<1>7. /\ closed' \subseteq Sockets /\ \A s \in closed' : own'[s].kind # "unborn"
      /\ \A s \in Sockets : own'[s].reaping => s \in closed' /\ own'[s].terminating
  BY <1>1, <1>3 DEF Context
<1>8. \A s \in sockets' :
        Count(mail'["reaper"], {Reap(s)}) = Bit(s \in closed' /\ ~own'[s].reaping)
  BY <1>1, <1>2, <1>3, <1>4 DEF Context
<1>9. /\ \A i \in DOMAIN mail'["reaper"] :
           mail'["reaper"][i] \in {Reap(s) : s \in sockets'} \cup {ReapedCmd, StopCmd}
      /\ reaper' \in [sockets : Nat, terminating : BOOLEAN, stopped : BOOLEAN]
      /\ reaper'.sockets = Cardinality(Reaping') + Count(mail'["reaper"], {ReapedCmd})
      /\ Count(mail'["reaper"], {StopCmd}) + Bit(reaper'.terminating)
           = Bit(terminating' /\ sockets' = {})
      /\ Len(mail'["term"]) + Bit(term' = "deleted")
           = Bit(reaper'.terminating /\ reaper'.sockets = 0)
      /\ term' \in {"idle", "waiting", "deleted"} /\ terminating' \in BOOLEAN
      /\ term' # "idle" => terminating'
  BY <1>1, <1>2, <1>5 DEF Context
<1> QED BY <1>6, <1>7, <1>8, <1>9 DEF Context

\* What every step of an object comes to.
LEMMA LocalInv ==
  ASSUME IInv, NEW r, Local(r), Done(State, r)
  PROVE  IInv'
<1>1. Good(r, {}) /\ Busy(r) /\ Beside(State, r) BY DEF Done
<1>2. State' = r BY <1>1, NextState DEF Good, Local
<1>3. Good(State', {}) /\ Busy(State') BY <1>1, <1>2
<1>4. Context' BY <1>1, BesideContext DEF IInv
<1> QED BY <1>3, <1>4 DEF IInv

\* What the invariant says of a socket that the application still uses.
LEMMA Usable ==
  ASSUME IInv, NEW s \in sockets, s \notin closed
  PROVE  /\ s \in Sockets /\ s \in Actors /\ Live(State, s) /\ ~State.own[s].destroyed
         /\ ~State.own[s].reaping /\ State.own[s].kind = "socket"
<1>1. s \in Sockets /\ own[s].kind = "socket" /\ ~own[s].reaping BY DEF IInv, Context
<1>2. Live(State, s) BY <1>1, StateParts DEF Live
<1>3. Kinds(State) /\ Balanced(State, {}) BY DEF IInv, Good
<1>4. State.own[s].destroyed => State.own[s].reaping
  BY <1>1, <1>2, <1>3 DEF Kinds, Balanced, Actors
<1> QED BY <1>1, <1>2, <1>4, StateParts DEF Actors

\* There is room for a new object.
LEMMA Enough ==
  ASSUME IInv, NEW n \in {1, 2}, Available(n)
  PROVE  /\ Cardinality(Unused(State)) \in Nat /\ Cardinality(Dialling(State)) \in Nat
         /\ Cardinality(Unused(State)) >= n + Cardinality(Dialling(State))
         /\ Fresh \in Objects /\ State.own[Fresh].kind = "unborn"
<1>1. Kinds(State) /\ State.own = own BY StateParts DEF IInv, Good
<1>2. IsFiniteSet(Unused(State)) /\ IsFiniteSet(Dialling(State))
  BY OwnershipAssumption, FS_Subset DEF Unused, Dialling
<1>3. Cardinality(Unused(State)) \in Nat /\ Cardinality(Dialling(State)) \in Nat
  BY <1>2, FS_CardinalityType
<1>4. Cardinality(Unused(State)) >= n + Cardinality(Dialling(State))
  BY <1>1, FreshUnused DEF Available
<1>5. Cardinality(Unused(State)) # 0 BY <1>3, <1>4
<1>6. Unused(State) # {} BY <1>5, FS_EmptySet
<1>7. Fresh \in Objects /\ State.own[Fresh].kind = "unborn" BY <1>1, <1>6, FreshUnused
<1> QED BY <1>3, <1>4, <1>7

\* ProcessCommand: a thread takes a command from its mailbox.
LEMMA ProcessCommandInv ==
  ASSUME IInv, NEW slot \in Slots, NEW t \in IoThreads, ProcessCommand(slot, t)
  PROVE  IInv'
<1> DEFINE S == State
           m == Head(mail[slot])
           r == Take(State, slot)
           res == process_command(r, m, t)
<1>1. Good(S, {}) /\ Busy(S) BY DEF IInv
<1>2. S.mail[slot] # << >> /\ Head(S.mail[slot]) = m /\ S.own = own
  BY StateParts DEF ProcessCommand
<1>3. Local(IF Live(r, m.dest) THEN res ELSE Expect(r, FALSE)) BY DEF ProcessCommand
<1> HIDE DEF S
<1>4. /\ Good(Take(S, slot), {Head(S.mail[slot])}) /\ OnlyMail(S, Take(S, slot))
      /\ Head(S.mail[slot]) \in Commands /\ Proper(Take(S, slot), Head(S.mail[slot]))
  BY <1>1, <1>2, TakeGood
<1>5. Good(r, {m}) /\ OnlyMail(S, r) /\ m \in Commands /\ Proper(r, m) BY <1>2, <1>4 DEF S
<1> HIDE DEF m, r
<1>6. Busy(r) /\ Beside(S, r) /\ r.own = own BY <1>1, <1>2, <1>5, BesideMail DEF OnlyMail
<1>7. \A s \in Sockets : r.own[s].reaping => r.own[s].terminating BY <1>6 DEF IInv, Context
<1>8. Done(r, res) BY <1>5, <1>6, <1>7, Processed
<1>9. Live(r, m.dest) BY <1>5 DEF Proper
<1> HIDE DEF res
<1>10. Local(res) BY <1>3, <1>9 DEF res
<1>11. Done(S, res) BY <1>6, <1>8, BesideTrans DEF Done
<1> QED BY <1>10, <1>11, LocalInv DEF S

\* x is what w may launch: a socket its listeners and sessions, a listener its sessions and a
\* session its connecter; a connecting session needs room for its connecter too
Fits(r, H, w, t, x, n) ==
    \/ x = Listener(t, w) /\ r.own[w].kind = "socket" /\ w \in Sockets
    \/ x = Connecter(t, w) /\ r.own[w].kind = "session" /\ w \in Objects /\ Idle(r, H, w)
    \/ \E s \in Sockets, f \in BOOLEAN :
         /\ x = Session(t, w, s, f) /\ r.own[s].kind = "socket" /\ (f => n = 2)
         /\ w = s \/ (w \in Objects /\ r.own[w].kind = "listener" /\ r.own[w].owner = s)

Launches(r, H, k, w, t, x, n, res) ==
    /\ Good(r, H) /\ Busy(r) /\ r.own[k].kind = "unborn" /\ Live(r, w) /\ ~r.own[w].destroyed
    /\ Cardinality(Unused(r)) \in Nat /\ Cardinality(Dialling(r)) \in Nat
    /\ Cardinality(Unused(r)) >= n + Cardinality(Dialling(r))
    /\ Fits(r, H, w, t, x, n) /\ res = LaunchChild(r, k, x)

LaunchOK(r, H, k, w, t, x, res) ==
    /\ Good(res, H) /\ Busy(res) /\ Beside(r, res) /\ res.pipes = r.pipes
    /\ res.own[k] = Once(x) /\ Newborn(w, Once(x))
    /\ w # k /\ SentOne(r.own[w], res.own[w]) /\ res.own[w].endpoints = r.own[w].endpoints
    /\ \A p \in Actors : p # k /\ p # w => res.own[p] = r.own[p]
    /\ \A s : x = Session(t, w, s, FALSE) => Idle(res, H, k)
    /\ \A s, f : x = Session(t, w, s, f) => Once(x).kind = "session"

\* An object is launched by the socket s, or by the listener or the session that owns it.
LEMMA LaunchedBy ==
  ASSUME NEW r, NEW H, NEW k \in Objects, NEW w \in Actors, NEW t \in IoThreads, NEW x,
         NEW n \in {1, 2}, NEW res, Launches(r, H, k, w, t, x, n, res)
  PROVE  LaunchOK(r, H, k, w, t, x, res)
<1> SUFFICES ASSUME Good(r, H), Busy(r), r.own[k].kind = "unborn", Live(r, w), ~r.own[w].destroyed,
                    Cardinality(Unused(r)) \in Nat, Cardinality(Dialling(r)) \in Nat,
                    Cardinality(Unused(r)) >= n + Cardinality(Dialling(r)),
                    Fits(r, H, w, t, x, n), res = LaunchChild(r, k, x)
             PROVE  LaunchOK(r, H, k, w, t, x, res)
  BY DEF Launches
<1> DEFINE y == Once(x)
<1>1. y = Once(x) OBVIOUS
<1>2. \/ x = Listener(t, w) \/ x = Connecter(t, w)
      \/ \E s \in Sockets, f \in BOOLEAN : x = Session(t, w, s, f)
  BY DEF Fits
<1> HIDE DEF y
<1>3. /\ x \in Object /\ y \in Object /\ x.owner = w /\ x.sent_seqnum = 0 /\ Newborn(w, y)
      /\ x = Listener(t, w) => y.kind = "listener"
      /\ x = Connecter(t, w) => y.kind = "connecter"
      /\ \A s, f : x = Session(t, w, s, f) => y.kind = "session" /\ y.socket = s /\ y.active = f
  BY <1>1, <1>2, Borns
<1>4. Related(r, w, y) BY <1>3 DEF Related, Fits
<1>5. y.kind = "connecter" => Idle(r, H, w) BY <1>3 DEF Fits
<1>6. y.kind = "session" /\ y.active => n = 2 BY <1>3, ZenonT(40) DEF Fits
<1>7. Cardinality(Unused(r)) >= Cardinality(Dialling(r)) + 1 + Bit(y.kind = "session" /\ y.active)
  BY <1>6 DEF Bit
<1>8. /\ Good(res, H) /\ Busy(res) /\ Beside(r, res) /\ res.pipes = r.pipes /\ res.own[k] = y
      /\ w # k /\ SentOne(r.own[w], res.own[w]) /\ res.own[w].endpoints = r.own[w].endpoints
      /\ \A p \in Actors : p # k /\ p # w => res.own[p] = r.own[p]
      /\ y.kind = "session" /\ ~y.active => Idle(res, H, k)
  BY <1>1, <1>3, <1>4, <1>5, <1>7, Launched
<1>9. \A s : x = Session(t, w, s, FALSE) => Idle(res, H, k)
  <2> SUFFICES ASSUME NEW s, x = Session(t, w, s, FALSE) PROVE Idle(res, H, k) OBVIOUS
  <2>1. y.kind = "session" /\ y.active = FALSE BY <1>3
  <2>2. ~y.active BY <2>1
  <2> QED BY <1>8, <2>1, <2>2
<1>10. \A s, f : x = Session(t, w, s, f) => Once(x).kind = "session" BY <1>1, <1>3
<1> QED BY <1>1, <1>3, <1>8, <1>9, <1>10 DEF LaunchOK

\* socket_base_t::bind of a network endpoint: the listener is launched and remembered.
LEMMA BindInv ==
  ASSUME IInv, NEW s \in Sockets, Bind(s)
  PROVE  IInv'
<1> DEFINE S == State
           k == Fresh
<1>1. Good(S, {}) /\ Busy(S) BY DEF IInv
<1>2. s \in sockets /\ s \notin closed /\ Available(1) BY DEF Bind, Calls
<1>3. /\ s \in Actors /\ Live(S, s) /\ ~S.own[s].destroyed /\ S.own[s].kind = "socket"
  BY <1>2, Usable
<1>4. /\ Cardinality(Unused(S)) \in Nat /\ Cardinality(Dialling(S)) \in Nat
      /\ Cardinality(Unused(S)) >= 1 + Cardinality(Dialling(S))
      /\ k \in Objects /\ S.own[k].kind = "unborn"
  BY <1>2, Enough
<1>5. PICK t \in IoThreads :
        Local([LaunchChild(State, Fresh, Listener(t, s)) EXCEPT !.own[s].endpoints = @ \cup {Fresh}])
  BY DEF Bind, choose_io_thread
<1> DEFINE x == Listener(t, s)
           res == LaunchChild(S, k, x)
           v == res.own[s]
           y == [v EXCEPT !.endpoints = v.endpoints \cup {k}]
           r2 == [res EXCEPT !.own[s].endpoints = @ \cup {k}]
<1>6. Local(r2) BY <1>5
<1>7. r2 = [res EXCEPT !.own[s] = y] OBVIOUS
<1>8. x = Listener(t, s) /\ res = LaunchChild(S, k, x) OBVIOUS
<1> HIDE DEF S, k, x, res, r2
<1>17. Fits(S, {}, s, t, x, 1) BY <1>3, <1>8 DEF Fits
<1>18. Launches(S, {}, k, s, t, x, 1, res) BY <1>1, <1>3, <1>4, <1>8, <1>17 DEF Launches
<1>9. Good(res, {}) /\ Busy(res) /\ Beside(S, res) BY <1>3, <1>4, <1>18, LaunchedBy DEF LaunchOK
<1>10. res \in States /\ res.own \in [Actors -> Object] BY <1>9 DEF Good, States
<1>11. v \in Object BY <1>3, <1>10
<1>12. y \in Object /\ Aside(v, y)
  <2>1. y \in Object BY <1>4, <1>11 DEF Object
  <2>2. Aside(v, y)
    BY <1>11 DEF Object, Aside, SameId, SameStage, SameLink, SamePipes, SameAcks, SameCounts
  <2> QED BY <2>1, <2>2
<1> HIDE DEF y
<1>13. Edit(res, r2, s, y) BY <1>3, <1>7, <1>10, <1>12, WithEdit
<1>14. Live(res, s) BY <1>3, <1>9 DEF Beside, Live
<1>15. Good(r2, {}) /\ (\A p \in Actors : Waits(res, p) => Waits(r2, p)) /\ Beside(res, r2)
  BY <1>3, <1>9, <1>12, <1>13, <1>14, AsideStep
<1>16. Done(S, r2) BY <1>9, <1>15, BesideTrans DEF Done, Busy
<1> QED BY <1>6, <1>16, LocalInv DEF S

\* socket_base_t::connect to a network endpoint: the session is launched with its pipe.
LEMMA ConnectInv ==
  ASSUME IInv, NEW s \in Sockets, Connect(s)
  PROVE  IInv'
<1> DEFINE S == State
           k == Fresh
<1>1. Good(S, {}) /\ Busy(S) BY DEF IInv
<1>2. s \in sockets /\ s \notin closed /\ Available(2) BY DEF Connect, Calls
<1>3. /\ s \in Actors /\ Live(S, s) /\ ~S.own[s].destroyed /\ S.own[s].kind = "socket"
      /\ ~S.own[s].reaping
  BY <1>2, Usable
<1>4. /\ Cardinality(Unused(S)) \in Nat /\ Cardinality(Dialling(S)) \in Nat
      /\ Cardinality(Unused(S)) >= 2 + Cardinality(Dialling(S))
      /\ k \in Objects /\ S.own[k].kind = "unborn"
  BY <1>2, Enough
<1>5. PICK t \in IoThreads :
        Local([LaunchChild(State, Fresh, Session(t, s, s, TRUE)) EXCEPT
                 !.own[s].endpoints = @ \cup {Fresh}, !.own[s].pipes = @ \cup {Fresh},
                 !.pipes[Fresh] = NewPipe])
  BY DEF Connect, choose_io_thread
<1> DEFINE x == Session(t, s, s, TRUE)
           res == LaunchChild(S, k, x)
           v == res.own[s]
           y == [v EXCEPT !.endpoints = v.endpoints \cup {k}, !.pipes = v.pipes \cup {k}]
           f == [res.pipes EXCEPT ![k] = NewPipe]
           r2 == [res EXCEPT !.own[s].endpoints = @ \cup {k}, !.own[s].pipes = @ \cup {k},
                             !.pipes[k] = NewPipe]
<1>6. Local(r2) BY <1>5
<1>7. x = Session(t, s, s, TRUE) /\ res = LaunchChild(S, k, x) OBVIOUS
<1> HIDE DEF S, k, x, res, r2
<1>8. /\ Good(res, {}) /\ Busy(res) /\ Beside(S, res) /\ res.pipes = S.pipes
      /\ res.own[k] = Once(x) /\ Newborn(s, Once(x)) /\ Once(x).kind = "session"
  <2>1. Fits(S, {}, s, t, x, 2) BY <1>3, <1>7 DEF Fits
  <2>2. Launches(S, {}, k, s, t, x, 2, res) BY <1>1, <1>3, <1>4, <1>7, <2>1 DEF Launches
  <2>3. /\ Good(res, {}) /\ Busy(res) /\ Beside(S, res) /\ res.pipes = S.pipes
        /\ res.own[k] = Once(x) /\ Newborn(s, Once(x))
        /\ \A u, g : x = Session(t, s, u, g) => Once(x).kind = "session"
    <3>1. LaunchOK(S, {}, k, s, t, x, res) BY <1>3, <1>4, <2>2, LaunchedBy
    <3> QED BY <3>1 DEF LaunchOK
  <2> QED BY <1>7, <2>3
<1>9. /\ res \in States /\ res.own \in [Actors -> Object] /\ res.pipes \in [Objects -> PipeState]
  BY <1>8 DEF Good, States
<1>10. v \in Object BY <1>3, <1>9
<1>11. y \in Object /\ Opened(v, y, k)
  <2>1. y \in Object BY <1>4, <1>10 DEF Object
  <2>2. Opened(v, y, k)
    BY <1>4, <1>10 DEF Object, Opened, SameId, SameStage, SameLink, SameCounts, SameEnd
  <2> QED BY <2>1, <2>2
<1>12. EditToo(res, r2, s, y) /\ Made(res, r2, k)
  <2> DEFINE q == [res EXCEPT !.pipes = f]
  <2>1. NewPipe \in PipeState BY DEF NewPipe, PipeState
  <2>2. f \in [Objects -> PipeState] /\ f[k] = NewPipe /\ \A d \in Objects : d # k => f[d] = res.pipes[d]
    BY <1>4, <1>9, <2>1
  <2>3. r2 = With(q, s, y)
    <3>1. r2 = [res EXCEPT !.own = [res.own EXCEPT ![s] = y], !.pipes = f] BY <1>9, <1>10 DEF r2
    <3> HIDE DEF f, y, r2
    <3>2. q.own = res.own BY <1>9
    <3> QED BY <1>9, <3>1, <3>2 DEF With
  <2>4. q = [res EXCEPT !.pipes = f] OBVIOUS
  <2> HIDE DEF f, y, q
  <2>5. OnlyPipes(res, q) /\ q.pipes = f BY <1>9, <2>2, <2>4, WithPipes DEF OnlyPipes
  <2>6. EditToo(res, r2, s, y) /\ r2.pipes = q.pipes BY <1>3, <1>9, <1>11, <2>3, <2>5, WithToo
  <2>7. Made(res, r2, k) BY <2>2, <2>5, <2>6 DEF Made
  <2> QED BY <2>6, <2>7
<1> HIDE DEF y, f
<1>13. Live(res, s) /\ ~res.own[s].reaping BY <1>3, <1>8 DEF Beside, Live
<1>14. res.own[k].kind = "session" /\ ~res.own[k].terminating BY <1>8 DEF Newborn
<1>15. res.pipes[k].ends = {} BY <1>1, <1>4, <1>8 DEF Good, EndsOK
<1>16. Good(r2, {}) /\ (\A p \in Actors : Waits(res, p) => Waits(r2, p)) /\ Beside(res, r2)
  BY <1>4, <1>8, <1>11, <1>12, <1>13, <1>14, <1>15, OpenPipeStep
<1>17. Done(S, r2) BY <1>8, <1>16, BesideTrans DEF Done, Busy
<1> QED BY <1>6, <1>17, LocalInv DEF S

\* socket_base_t::term_endpoint: the pipe of the endpoint is asked to end, and so is its object.
LEMMA TermEndpointInv ==
  ASSUME IInv, NEW s \in Sockets, NEW c \in Objects, TermEndpoint(s, c)
  PROVE  IInv'
<1> DEFINE S == State
           q == AskPipes(S, {c}, 1)
           res == process_term_req(q, s, c)
           v == res.own[s]
           y == [v EXCEPT !.endpoints = v.endpoints \ {c}]
           r2 == [res EXCEPT !.own[s].endpoints = @ \ {c}]
<1>1. Good(S, {}) /\ Busy(S) BY DEF IInv
<1>2. s \in sockets /\ s \notin closed BY DEF TermEndpoint, Calls
<1>3. s \in Actors /\ Live(S, s) BY <1>2, Usable
<1>4. Local(r2) BY DEF TermEndpoint, AskPipe
<1>5. r2 = [res EXCEPT !.own[s] = y] OBVIOUS
<1> HIDE DEF S, r2
<1>6. OnlyPipes(S, q) /\ Asked(S, q, {c}, 1) BY <1>1, AskedPipes DEF OnlyPipes, Good
<1> HIDE DEF q
<1>7. Good(q, {}) /\ (\A p \in Actors : Waits(S, p) => Waits(q, p)) /\ Beside(S, q)
  BY <1>1, <1>6, AskStep
<1>8. Busy(q) BY <1>1, <1>7 DEF Busy
<1>9. Done(q, res) BY <1>3, <1>7, <1>8, TermReqs
<1> HIDE DEF res
<1>10. Good(res, {}) /\ Busy(res) /\ Beside(S, res) BY <1>7, <1>9, BesideTrans DEF Done
<1>11. res \in States /\ res.own \in [Actors -> Object] BY <1>10 DEF Good, States
<1>12. v \in Object BY <1>3, <1>11
<1>13. y \in Object /\ Aside(v, y)
  <2>1. y \in Object BY <1>12 DEF Object
  <2>2. Aside(v, y)
    BY <1>12 DEF Object, Aside, SameId, SameStage, SameLink, SamePipes, SameAcks, SameCounts
  <2> QED BY <2>1, <2>2
<1> HIDE DEF y
<1>14. Edit(res, r2, s, y) BY <1>3, <1>5, <1>11, <1>13, WithEdit
<1>15. Live(res, s) BY <1>3, <1>10 DEF Beside, Live
<1>16. Good(r2, {}) /\ (\A p \in Actors : Waits(res, p) => Waits(r2, p)) /\ Beside(res, r2)
  BY <1>3, <1>10, <1>13, <1>14, <1>15, AsideStep
<1>17. Done(S, r2) BY <1>10, <1>16, BesideTrans DEF Done, Busy
<1> QED BY <1>4, <1>17, LocalInv DEF S

\* object_t::send_attach: the session is kept alive by the count until the engine reaches it.
LEMMA AttachSent ==
  ASSUME NEW r, NEW H, Good(r, H), Busy(r), NEW c \in Objects, r.own[c].kind = "session",
         Idle(r, H, c), NEW res, res = SendCounted(r, "attach", c, Null)
  PROVE  /\ Good(res, H) /\ Busy(res) /\ Beside(r, res)
         /\ \A p \in Actors : p # c => res.own[p] = r.own[p]
<1> DEFINE x == r.own[c]
           n == x.sent_seqnum + 1
           y == [x EXCEPT !.sent_seqnum = n]
           q == [r EXCEPT !.own[c].sent_seqnum = @ + 1]
<1>1. r \in States /\ r.own \in [Actors -> Object] /\ c \in Actors BY DEF Good, States, Actors
<1>2. x \in Object /\ n \in Nat BY <1>1 DEF Object
<1>3. y \in Object /\ SentOne(x, y)
  <2> HIDE DEF n
  <2>1. y \in Object BY <1>2 DEF Object
  <2>2. y.sent_seqnum = n BY <1>2 DEF Object
  <2>3. /\ SameId(x, y) /\ SamePipes(x, y) /\ SameAcks(x, y) /\ SameLink(x, y)
        /\ y.processed_seqnum = x.processed_seqnum
    BY <1>2 DEF Object, SameId, SamePipes, SameAcks, SameLink
  <2>4. y.sent_seqnum = x.sent_seqnum + 1 BY <2>2 DEF n
  <2> QED BY <2>1, <2>3, <2>4 DEF SentOne
<1>4. q = [r EXCEPT !.own[c] = y] OBVIOUS
<1>5. res = Send(q, "attach", c, Null) BY DEF SendCounted
<1> HIDE DEF y, q
<1>6. Edit(r, q, c, y) BY <1>1, <1>3, <1>4, WithEdit
<1>7. Attaches(r, H, c, q, y) BY <1>3, <1>6 DEF Attaches
<1>8. /\ Good(q, H \cup {Attach(c)}) /\ Attach(c) \notin H
      /\ (\A p \in Actors : Waits(r, p) => Waits(q, p)) /\ Beside(r, q) /\ Proper(q, Attach(c))
  BY <1>7, SendAttachStep
<1>9. Attach(c) \in Commands /\ Attach(c).dest = c /\ Attach(c).type # "term_req"
  BY <1>1, VocabularyTypes DEF Attach, Cmd
<1>10. Live(q, c) BY <1>8, <1>9 DEF Proper
<1>11. res = Post(q, Attach(c)) BY <1>5, <1>10, SendPost DEF Attach
<1> DEFINE p2 == Post(q, Attach(c))
           m == Attach(c)
<1>12. Good(p2, H) /\ OnlyMail(q, p2)
  <2>1. m \in Commands /\ m \notin H /\ Proper(q, m) /\ Good(q, H \cup {m}) /\ m.type # "term_req"
    BY <1>8, <1>9
  <2> HIDE DEF m
  <2>2. Good(Post(q, m), H) /\ OnlyMail(q, Post(q, m)) BY <2>1, PostGood
  <2> QED BY <2>2 DEF m
<1> HIDE DEF p2
<1>13. Busy(q) BY <1>8 DEF Busy
<1>14. Busy(p2) /\ Beside(q, p2) BY <1>12, <1>13, BesideMail
<1>15. Beside(r, p2) BY <1>8, <1>14, BesideTrans
<1>16. \A p \in Actors : p # c => p2.own[p] = r.own[p] BY <1>6, <1>12 DEF Edit, OnlyMail
<1>17. res = p2 BY <1>11 DEF p2
<1> QED BY <1>12, <1>14, <1>15, <1>16, <1>17

\* own_t::terminate: the owner is asked, which is there as long as the object is.
LEMMA Terminates ==
  ASSUME NEW r, Good(r, {}), Busy(r), NEW o \in Objects, Live(r, o)
  PROVE  Done(r, Terminate(r, o))
<1> DEFINE w == r.own[o].owner
           m == Cmd("term_req", w, o)
           res == Terminate(r, o)
           p2 == Post(r, m)
<1>1. w \in Actors /\ Live(r, w) BY OwnerThere
<1>2. CASE r.own[o].terminating
  <2>1. res = r BY <1>2 DEF Terminate
  <2>2. Beside(r, r) BY DEF Beside
  <2> QED BY <2>1, <2>2 DEF Done
<1>3. CASE ~r.own[o].terminating
  <2>1. res = Send(r, "term_req", w, o) BY <1>3 DEF Terminate
  <2>2. m.type = "term_req" /\ m.dest = w /\ m.arg = o BY DEF Cmd
  <2>3. m \in Commands
    <3>1. "term_req" \in Types /\ o \in Actors BY DEF Types, Actors
    <3> QED BY <1>1, <3>1 DEF Commands, Cmd
  <2>4. Child(r, m.arg, m.dest) BY <2>2 DEF Child
  <2>5. Proper(r, m) BY <1>1, <2>2 DEF Proper
  <2>6. res = Post(r, m)
    <3> HIDE DEF res, w
    <3> QED BY <1>1, <2>1, SendPost
  <2> HIDE DEF m, res
  <2>7. Good(r, {} \cup {m}) BY <2>2, <2>3, <2>5, AddLoose
  <2>8. m \notin {} OBVIOUS
  <2>9. Good(p2, {}) /\ OnlyMail(r, p2) BY <2>3, <2>4, <2>5, <2>7, <2>8, PostGood
  <2> HIDE DEF p2
  <2>10. Busy(p2) /\ Beside(r, p2) BY <2>9, BesideMail
  <2>11. Done(r, res) BY <2>6, <2>9, <2>10 DEF Done, p2
  <2> QED BY <2>11 DEF res
<1> QED BY <1>2, <1>3

\* tcp_listener_t::in_event: a connection is accepted while the listener may be asked to end.
LEMMA AcceptInv ==
  ASSUME IInv, NEW l \in Objects, NEW t \in IoThreads, Accept(l, t)
  PROVE  IInv'
<1> DEFINE S == State
           k == Fresh
           s == own[l].owner
           x == Session(t, l, s, FALSE)
           q == LaunchChild(S, k, x)
           res == SendCounted(q, "attach", k, Null)
<1>1. Good(S, {}) /\ Busy(S) BY DEF IInv
<1>2. own[l].kind = "listener" /\ Available(1) /\ Local(res) BY DEF Accept
<1>3. S.own = own BY StateParts
<1>4. /\ Cardinality(Unused(S)) \in Nat /\ Cardinality(Dialling(S)) \in Nat
      /\ Cardinality(Unused(S)) >= 1 + Cardinality(Dialling(S))
      /\ k \in Objects /\ S.own[k].kind = "unborn"
  BY <1>2, Enough
<1>5. x = Session(t, l, s, FALSE) /\ q = LaunchChild(S, k, x) OBVIOUS
<1> HIDE DEF S, k, x, q, res
<1>6. l \in Actors /\ Live(S, l) /\ S.own[l].kind = "listener" /\ ~S.own[l].destroyed
  BY <1>1, <1>2, <1>3 DEF Actors, Live, Good, Kinds
<1>7. s \in Sockets /\ S.own[s].kind = "socket" /\ s = S.own[l].owner
  BY <1>1, <1>2, <1>3 DEF Good, Owners
<1> HIDE DEF s
<1>8. Fits(S, {}, l, t, x, 1) BY <1>5, <1>6, <1>7 DEF Fits
<1>9. Launches(S, {}, k, l, t, x, 1, q) BY <1>1, <1>4, <1>5, <1>6, <1>8 DEF Launches
<1>10. LaunchOK(S, {}, k, l, t, x, q) BY <1>4, <1>6, <1>9, LaunchedBy
<1>11. /\ Good(q, {}) /\ Busy(q) /\ Beside(S, q) /\ q.own[k] = Once(x)
       /\ Once(x).kind = "session" /\ Idle(q, {}, k)
  BY <1>5, <1>10 DEF LaunchOK
<1>12. Good(res, {}) /\ Busy(res) /\ Beside(q, res) BY <1>4, <1>11, AttachSent DEF res
<1>13. Done(S, res) BY <1>11, <1>12, BesideTrans DEF Done
<1> QED BY <1>2, <1>13, LocalInv DEF S

\* tcp_connecter_t::out_event: the session is given its engine and the connecter asks to end,
\* whatever the owners have been told meanwhile.
LEMMA ConnectedInv ==
  ASSUME IInv, NEW o \in Objects, Connected(o)
  PROVE  IInv'
<1> DEFINE S == State
           x == S.own[o]
           y == [x EXCEPT !.connected = TRUE]
           w == own[o].owner
           q == [S EXCEPT !.own[o].connected = TRUE]
           u == SendCounted(q, "attach", w, Null)
           res == Terminate(u, o)
<1>1. Good(S, {}) /\ Busy(S) BY DEF IInv
<1>2. S.own = own BY StateParts
<1>3. x.kind = "connecter" /\ ~x.connected /\ w = x.owner BY <1>2 DEF Connected
<1>4. Local(res) BY DEF Connected
<1>5. q = [S EXCEPT !.own[o] = y] OBVIOUS
<1> HIDE DEF S, q, w
<1>6. S \in States /\ S.own \in [Actors -> Object] /\ o \in Actors BY <1>1 DEF Good, States, Actors
<1>7. x \in Object BY <1>6
<1>8. y \in Object /\ Dialled(x, y)
  <2>1. y \in Object BY <1>7 DEF Object
  <2>2. Dialled(x, y)
    BY <1>7 DEF Object, Dialled, Linked, SameId, SameStage, SamePipes, SameAcks, SameCounts
  <2> QED BY <2>1, <2>2
<1> HIDE DEF y
<1>9. Edit(S, q, o, y) BY <1>5, <1>6, <1>8, WithEdit
<1>10. /\ Good(q, {}) /\ (\A p \in Actors : Waits(S, p) => Waits(q, p)) /\ Beside(S, q)
       /\ x.owner \in Objects /\ S.own[x.owner].kind = "session" /\ Idle(q, {}, x.owner)
  BY <1>1, <1>3, <1>8, <1>9, DialledStep
<1>11. w \in Objects /\ w # o /\ q.own[w].kind = "session" /\ Idle(q, {}, w) /\ Live(q, o)
  <2>1. w \in Objects /\ w # o BY <1>3, <1>10
  <2>2. q.own[w] = S.own[w] BY <1>9, <2>1 DEF Edit, Actors
  <2>3. Live(q, o) BY <1>3, <1>8, <1>9 DEF Edit, Live, Dialled, Linked, SameId
  <2> QED BY <1>3, <1>10, <2>1, <2>2, <2>3
<1>12. Busy(q) BY <1>1, <1>10 DEF Busy
<1>13. /\ Good(u, {}) /\ Busy(u) /\ Beside(q, u)
       /\ \A p \in Actors : p # w => u.own[p] = q.own[p]
  BY <1>10, <1>11, <1>12, AttachSent
<1> HIDE DEF u
<1>14. Live(u, o) BY <1>6, <1>11, <1>13 DEF Live
<1>15. Done(u, res) BY <1>13, <1>14, Terminates
<1> HIDE DEF res
<1>16. Beside(S, u) BY <1>10, <1>13, BesideTrans
<1>17. Done(S, res) BY <1>15, <1>16, BesideTrans DEF Done
<1> QED BY <1>4, <1>17, LocalInv DEF S

\* session_base_t::engine_error: a connecting session dials again, the others ask to end.
LEMMA EngineErrorInv ==
  ASSUME IInv, NEW c \in Objects, NEW t \in IoThreads, NEW e, EngineError(c, e, t)
  PROVE  IInv'
<1> DEFINE S == State
           x == S.own[c]
           y == [x EXCEPT !.engine = FALSE]
           k == Fresh
           q == [S EXCEPT !.own[c].engine = FALSE]
           v == Connecter(t, c)
           res == LaunchChild(q, k, v)
<1>1. Good(S, {}) /\ Busy(S) BY DEF IInv
<1>2. S.own = own BY StateParts
<1>3. x.kind = "session" /\ x.engine BY <1>2 DEF EngineError
<1>4. (Available(1) /\ Local(res)) \/ Local(Terminate(q, c)) BY DEF EngineError, StartConnecting
<1>5. q = [S EXCEPT !.own[c] = y] OBVIOUS
<1>6. Available(1) => /\ Cardinality(Unused(S)) \in Nat /\ Cardinality(Dialling(S)) \in Nat
                      /\ Cardinality(Unused(S)) >= 1 + Cardinality(Dialling(S))
                      /\ k \in Objects /\ S.own[k].kind = "unborn"
  BY Enough
<1> HIDE DEF S, q, k
<1>7. S \in States /\ S.own \in [Actors -> Object] /\ c \in Actors BY <1>1 DEF Good, States, Actors
<1>8. x \in Object BY <1>7
<1>9. y \in Object /\ Unhooked(x, y)
  <2>1. y \in Object BY <1>8 DEF Object
  <2>2. Unhooked(x, y)
    BY <1>8 DEF Object, Unhooked, Linked, SameId, SameStage, SamePipes, SameAcks, SameCounts
  <2> QED BY <2>1, <2>2
<1> HIDE DEF y
<1>10. Edit(S, q, c, y) BY <1>5, <1>7, <1>9, WithEdit
<1>11. /\ Good(q, {}) /\ (\A p \in Actors : Waits(S, p) => Waits(q, p)) /\ Beside(S, q)
       /\ Idle(q, {}, c)
  BY <1>1, <1>3, <1>9, <1>10, EngineOffStep
<1>12. Busy(q) BY <1>1, <1>11 DEF Busy
<1>13. q.own[c] = y /\ \A p \in Actors : p # c => q.own[p] = S.own[p] BY <1>10 DEF Edit
<1>14. y.kind = "session" /\ y.active = x.active /\ y.plugged = x.plugged
  BY <1>3, <1>9 DEF Unhooked, Linked, SameId, SameStage
<1>15. Live(q, c) /\ ~q.own[c].destroyed /\ q.own[c].kind = "session"
  BY <1>11, <1>13, <1>14 DEF Live, Good, Kinds
<1>16. CASE Local(Terminate(q, c))
  <2> DEFINE z == Terminate(q, c)
  <2>1. Done(q, z) BY <1>11, <1>12, <1>15, Terminates
  <2>2. Local(z) BY <1>16
  <2> HIDE DEF z
  <2>3. Done(S, z) BY <1>11, <2>1, BesideTrans DEF Done
  <2> QED BY <2>2, <2>3, LocalInv DEF S
<1>17. CASE Available(1) /\ Local(res)
  <2>1. Unused(q) = Unused(S) /\ Dialling(q) = Dialling(S)
    <3>1. \A p \in Objects : /\ q.own[p].kind = S.own[p].kind /\ q.own[p].active = S.own[p].active
                             /\ q.own[p].plugged = S.own[p].plugged
      BY <1>3, <1>13, <1>14 DEF Actors
    <3> QED BY <3>1 DEF Unused, Dialling
  <2>2. v = Connecter(t, c) /\ res = LaunchChild(q, k, v) OBVIOUS
  <2> HIDE DEF v, res
  <2>3. Fits(q, {}, c, t, v, 1) BY <1>11, <1>15, <2>2 DEF Fits
  <2>4. k \in Objects /\ q.own[k].kind = "unborn"
    BY <1>3, <1>6, <1>13, <1>17 DEF Actors
  <2>5. Launches(q, {}, k, c, t, v, 1, res)
    BY <1>6, <1>11, <1>12, <1>15, <1>17, <2>1, <2>2, <2>3, <2>4 DEF Launches
  <2>6. LaunchOK(q, {}, k, c, t, v, res) BY <1>7, <2>4, <2>5, LaunchedBy
  <2>7. Good(res, {}) /\ Busy(res) /\ Beside(q, res) BY <2>6 DEF LaunchOK
  <2>8. Done(S, res) BY <1>11, <2>7, BesideTrans DEF Done
  <2> QED BY <1>17, <2>8, LocalInv DEF S
<1> QED BY <1>4, <1>16, <1>17

\* the socket s without the pipe c
Unpipe(q, s, c) == [q EXCEPT !.own[s].pipes = @ \ {c}]

\* The socket forgets a pipe that has ended, and unregisters it when it terminates.
LEMMA SocketPipeGone ==
  ASSUME NEW r, Good(r, {}), Busy(r), NEW s \in Sockets, NEW c \in Objects, c \in r.own[s].pipes,
         r.own[s].reaping => r.own[s].terminating, NEW q, OnlyPipes(r, q), Ended(r, q, c, 1),
         NEW t, t = Unpipe(q, s, c)
  PROVE  Done(r, IF r.own[s].terminating THEN unregister_term_ack(t, s) ELSE t)
<1> DEFINE x == r.own[s]
           z == [x EXCEPT !.pipes = x.pipes \ {c}]
<1>1. /\ r \in States /\ r.own \in [Actors -> Object] /\ s \in Actors /\ Kinds(r)
  BY DEF Good, States, Actors
<1>2. q \in States /\ q.own = r.own BY DEF OnlyPipes
<1>3. x \in Object BY <1>1
<1>4. z \in Object /\ z.term_acks = x.term_acks BY <1>3 DEF Object
<1>5. t = With(q, s, z)
  <2> DEFINE v == [q.own[s] EXCEPT !.pipes = q.own[s].pipes \ {c}]
  <2>1. t = [q EXCEPT !.own[s] = v] BY DEF Unpipe
  <2>2. v = z BY <1>2
  <2> HIDE DEF v, z
  <2>3. v \in Object BY <1>4, <2>2
  <2>4. t = With(q, s, v) BY <1>1, <1>2, <2>1, <2>3, WithEdit
  <2> QED BY <2>2, <2>4
<1>6. x.reaping <=> x.terminating BY <1>1 DEF Kinds
<1>7. CASE ~x.terminating
  <2>1. Unpiped(x, z, c)
    BY <1>3, <1>6, <1>7 DEF Unpiped, Object, SameId, SameStage, SameLink, SameCounts, SameEnd
  <2> HIDE DEF z
  <2>2. EditToo(r, t, s, z) /\ t.pipes = q.pipes BY <1>1, <1>4, <1>5, WithToo
  <2>3. Ended(r, t, c, 1) BY <2>2 DEF Ended
  <2>4. Good(t, {}) /\ (\A p \in Actors \ {s} : Waits(r, p) => Waits(t, p)) /\ Beside(r, t)
    BY <2>1, <2>2, <2>3, SocketEndStep
  <2>5. Waits(t, s) BY <1>7, <2>4 DEF Waits, Beside
  <2>6. Busy(t) BY <2>4, <2>5 DEF Busy
  <2> QED BY <1>7, <2>4, <2>6 DEF Done
<1>8. CASE x.terminating
  <2> DEFINE n == x.term_acks - 1
             y == [z EXCEPT !.term_acks = n]
             u == [t EXCEPT !.own[s].term_acks = @ - 1]
  <2>1. x.term_acks > 0
    <3>1. x.term_acks = Num(r, {}, Ack(s)) + Cardinality(Told(r, {}, s)) + Left(x)
      <4>1. Live(r, s) BY <1>8, <1>1 DEF Kinds, Live, Unborn, Deleted
      <4> QED BY <1>1, <4>1 DEF Good, Balanced
    <3>2. Num(r, {}, Ack(s)) \in Nat BY <1>1, NumNat, VocabularyTypes
    <3>3. Cardinality(Told(r, {}, s)) \in Nat
      BY OwnershipAssumption, FS_Subset, FS_CardinalityType DEF Told
    <3>4. IsFiniteSet(x.pipes) /\ Left(x) = Cardinality(x.pipes) /\ Left(x) \in Nat
      BY <1>1, <1>6, <1>8, LeftNat DEF Left
    <3>5. Left(x) # 0 BY <3>4, FS_EmptySet
    <3> QED BY <3>1, <3>2, <3>3, <3>4, <3>5
  <2>2. n \in Nat BY <1>3, <2>1 DEF Object
  <2>3. y \in Object /\ Unpiped(x, y, c)
    <3> HIDE DEF n
    <3>1. y \in Object
      <4> HIDE DEF z
      <4> QED BY <1>4, <2>2 DEF Object
    <3>2. y.term_acks = n /\ y.pipes = x.pipes \ {c} BY <1>3 DEF Object
    <3>3. /\ SameId(x, y) /\ SameStage(x, y) /\ SameLink(x, y) /\ SameCounts(x, y) /\ SameEnd(x, y)
          /\ y.reaping = x.reaping
      BY <1>3 DEF Object, SameId, SameStage, SameLink, SameCounts, SameEnd
    <3>4. y.term_acks = IF x.reaping THEN x.term_acks - 1 ELSE x.term_acks
      BY <1>6, <1>8, <3>2 DEF n
    <3> QED BY <3>1, <3>2, <3>3, <3>4 DEF Unpiped
  <2>4. Edit(q, t, s, z)
    <3> HIDE DEF z
    <3> QED BY <1>1, <1>2, <1>4, <1>5, OwnStep
  <2>5. t \in States /\ t.own[s] = z BY <2>4 DEF Edit
  <2>6. u = With(q, s, y)
    <3> DEFINE v == [t.own[s] EXCEPT !.term_acks = t.own[s].term_acks - 1]
    <3>1. u = [t EXCEPT !.own[s] = v] OBVIOUS
    <3> HIDE DEF u
    <3>2. v = y BY <1>4, <2>5
    <3> HIDE DEF v, y, z
    <3>3. v \in Object BY <2>3, <3>2
    <3>4. u = With(t, s, v) BY <1>1, <2>5, <3>1, <3>3, WithEdit
    <3>5. With(With(q, s, z), s, y) = With(q, s, y) BY <1>1, <1>2, <1>4, WithTwice
    <3> QED BY <1>5, <3>2, <3>4, <3>5
  <2>7. unregister_term_ack(t, s) = CheckTermAcks(Expect(u, t.own[s].term_acks > 0), s)
    BY DEF unregister_term_ack
  <2>8. t.own[s].term_acks > 0 BY <1>4, <2>1, <2>5
  <2> HIDE DEF y, u, z, n
  <2>9. EditToo(r, u, s, y) /\ u.pipes = q.pipes BY <1>1, <2>3, <2>6, WithToo
  <2>10. Ended(r, u, c, 1) BY <2>9 DEF Ended
  <2>11. /\ Good(u, {}) /\ (\A p \in Actors \ {s} : Waits(r, p) => Waits(u, p)) /\ Beside(r, u)
         /\ Live(u, s) /\ ~u.own[s].destroyed
    BY <2>3, <2>9, <2>10, SocketEndStep
  <2>12. \A p \in Actors \ {s} : Waits(u, p) BY <2>11 DEF Busy
  <2>13. Done(u, CheckTermAcks(u, s)) BY <1>1, <2>11, <2>12, CheckAcks
  <2>14. Expect(u, t.own[s].term_acks > 0) = u
    <3>1. u \in States BY <2>11 DEF Good
    <3> QED BY <2>8, <3>1, ExpectOK
  <2>15. Done(r, unregister_term_ack(t, s)) BY <2>7, <2>11, <2>13, <2>14, BesideTrans DEF Done
  <2> QED BY <1>8, <2>15
<1> QED BY <1>7, <1>8

\* pipe_terminated of the session and of the socket, each in its own thread.
LEMMA PipeGoneInv ==
  ASSUME IInv, NEW c \in Objects, NEW e \in {1, 2}, PipeGone(c, e)
  PROVE  IInv'
<1> DEFINE S == State
           q == [S EXCEPT !.pipes[c].ends = @ \ {e}]
<1>1. Good(S, {}) /\ Busy(S) BY DEF IInv
<1>2. S.own = own /\ S.pipes = pipes BY StateParts
<1>3. /\ e \in S.pipes[c].ends
      /\ e \in S.pipes[c].asked \/ (3 - e) \notin S.pipes[c].ends
  BY <1>2 DEF PipeGone
<1>4. OnlyPipes(S, q) /\ Ended(S, q, c, e)
  <2> HIDE DEF S
  <2>1. S \in States BY <1>1 DEF Good
  <2> QED BY <2>1, EndedPipes
<1>5. CASE e = 2
  <2>1. Local(IF own[c].pending THEN OwnProcessTerm([q EXCEPT !.own[c].pending = FALSE], c) ELSE q)
    BY <1>5 DEF PipeGone
  <2>2. Ended(S, q, c, 2) BY <1>4, <1>5
  <2> HIDE DEF S, q
  <2>3. CASE own[c].pending
    <3> DEFINE res == OwnProcessTerm([q EXCEPT !.own[c].pending = FALSE], c)
    <3>1. S.own[c].pending BY <1>2, <2>3
    <3>2. Done(S, res) BY <1>1, <1>4, <2>2, <3>1, PendedTerms
    <3>3. Local(res) BY <2>1, <2>3
    <3> HIDE DEF res
    <3> QED BY <3>2, <3>3, LocalInv DEF S
  <2>4. CASE ~own[c].pending
    <3>1. /\ 2 \in S.pipes[c].ends /\ ~S.own[c].pending
          /\ 2 \in S.pipes[c].asked \/ 1 \notin S.pipes[c].ends
      BY <1>2, <1>3, <1>5, <2>4
    <3>2. Good(q, {}) /\ (\A p \in Actors : Waits(S, p) => Waits(q, p)) /\ Beside(S, q)
      BY <1>1, <1>4, <2>2, <3>1, SessionEndStep
    <3>3. Done(S, q) BY <1>1, <3>2 DEF Done, Busy
    <3>4. Local(q) BY <2>1, <2>4
    <3> QED BY <3>3, <3>4, LocalInv DEF S
  <2> QED BY <2>3, <2>4
<1>6. CASE e = 1
  <2>1. PICK s \in Sockets :
          /\ Runs(s) /\ c \in own[s].pipes
          /\ Local(IF own[s].terminating THEN unregister_term_ack(Unpipe(q, s, c), s)
                   ELSE Unpipe(q, s, c))
    <3>1. e # 2 BY <1>6
    <3> QED BY <3>1, Zenon DEF PipeGone, Unpipe
  <2> DEFINE t == Unpipe(q, s, c)
             res == IF S.own[s].terminating THEN unregister_term_ack(t, s) ELSE t
  <2>2. Local(res) BY <1>2, <2>1
  <2>3. t = Unpipe(q, s, c) OBVIOUS
  <2>4. Ended(S, q, c, 1) BY <1>4, <1>6
  <2> HIDE DEF S, q, t
  <2>5. c \in S.own[s].pipes /\ (S.own[s].reaping => S.own[s].terminating)
    BY <1>2, <2>1 DEF IInv, Context
  <2>6. Done(S, res) BY <1>1, <1>4, <2>3, <2>4, <2>5, SocketPipeGone
  <2> HIDE DEF res
  <2> QED BY <2>2, <2>6, LocalInv DEF S
<1> QED BY <1>5, <1>6
-----------------------------------------------------------------------------
(***************************************************************************)
(* The steps of the context: zmq_socket, zmq_close, the reaper, and the    *)
(* thread in zmq_ctx_term.                                                 *)
(***************************************************************************)
\* The commands of the reaper are told apart.
LEMMA ReaperWords ==
  /\ \A s \in Sockets : /\ Reap(s) \in Commands /\ Reap(s) # ReapedCmd /\ Reap(s) # StopCmd
                        /\ Reap(s).type = "reap" /\ Reap(s).arg = s
  /\ \A s, u \in Sockets : Reap(s) = Reap(u) <=> s = u
  /\ ReapedCmd \in Commands /\ StopCmd \in Commands /\ ReapedCmd # StopCmd
  /\ ReapedCmd.type = "reaped" /\ StopCmd.type = "stop"
  /\ Cmd("done", "term", Null) \in Commands
BY DEF Reap, ReapedCmd, StopCmd, Cmd, Commands, Types, Actors

\* The mailboxes of the reaper and of the terminating thread are no concern of the objects.
LEMMA Outside ==
  ASSUME NEW r, Good(r, {}), Busy(r), NEW r2 \in States, r2.own = r.own, r2.pipes = r.pipes,
         ~r2.failed, \A t \in Slots : r2.mail[t] = r.mail[t]
  PROVE  Good(r2, {}) /\ Busy(r2)
<1>1. r \in States /\ Kinds(r) /\ Routed(r) /\ Requests(r) BY DEF Good
<1>2. \A o \in Actors : Box(r2, o) = Box(r, o)
  <2> SUFFICES ASSUME NEW o \in Actors PROVE Box(r2, o) = Box(r, o) OBVIOUS
  <2>1. Live(r, o) => r.own[o].tid \in Slots BY <1>1, BoxType
  <2> QED BY <2>1 DEF Box, Live
<1>3. SameTotals(r, {}, r2, {}) BY <1>2 DEF SameTotals, Total
<1>4. Routed(r2)
  <2> SUFFICES ASSUME NEW t \in Slots, NEW i \in DOMAIN r2.mail[t]
               PROVE  Proper(r2, r2.mail[t][i]) /\ r2.own[r2.mail[t][i].dest].tid = t
    BY Zenon DEF Routed
  <2>1. r2.mail[t] = r.mail[t] OBVIOUS
  <2>2. Proper(r, r.mail[t][i]) /\ r.own[r.mail[t][i].dest].tid = t BY <1>1, <2>1 DEF Routed
  <2>3. Proper(r2, r.mail[t][i]) <=> Proper(r, r.mail[t][i]) BY DEF Proper, Live
  <2> QED BY <2>1, <2>2, <2>3
<1>5. Requests(r2) BY <1>1 DEF Requests, Child, Live
<1>6. Ready(r2, {}) /\ {} \in SUBSET Commands /\ IsFiniteSet({}) BY FS_EmptySet DEF Ready
<1>7. Good(r2, {}) BY <1>3, <1>4, <1>5, <1>6, Alike
<1>8. Busy(r2) BY DEF Busy, Waits
<1> QED BY <1>7, <1>8

\* zmq_ctx_term is interrupted by a signal.
LEMMA TermInterruptedInv ==
  ASSUME IInv, TermInterrupted
  PROVE  IInv'
<1>1. /\ own' = own /\ mail' = mail /\ pipes' = pipes /\ failed' = failed /\ sockets' = sockets
      /\ terminating' = terminating /\ reaper' = reaper /\ closed' = closed
      /\ term = "waiting" /\ term' = "idle"
  BY DEF TermInterrupted
<1>2. State' = State BY <1>1 DEF State
<1>3. Good(State', {}) /\ Busy(State') BY <1>2 DEF IInv
<1>4. Bit(term' = "deleted") = Bit(term = "deleted") BY <1>1 DEF Bit
<1>5. Reaping' = Reaping BY <1>1 DEF Reaping
<1>6. Context' BY <1>1, <1>4, <1>5 DEF IInv, Context
<1> QED BY <1>3, <1>6 DEF IInv

\* The types of the parts of the state.
LEMMA Sorts ==
  ASSUME IInv
  PROVE  /\ State \in States /\ mail \in [Boxes -> Seq(Commands)] /\ own \in [Actors -> Object]
         /\ pipes \in [Objects -> PipeState] /\ failed = FALSE
         /\ mail["reaper"] \in Seq(Commands) /\ mail["term"] \in Seq(Commands)
         /\ sockets \subseteq Sockets /\ IsFiniteSet(Reaping) /\ Cardinality(Reaping) \in Nat
<1>1. State \in States /\ ~State.failed BY DEF IInv, Good
<1>2. /\ mail \in [Boxes -> Seq(Commands)] /\ own \in [Actors -> Object]
      /\ pipes \in [Objects -> PipeState] /\ failed = FALSE
  <2>1. /\ State.mail \in [Boxes -> Seq(Commands)] /\ State.own \in [Actors -> Object]
        /\ State.pipes \in [Objects -> PipeState] /\ State.failed \in BOOLEAN
    BY <1>1 DEF States
  <2> QED BY <1>1, <2>1, StateParts
<1>3. mail["reaper"] \in Seq(Commands) /\ mail["term"] \in Seq(Commands) BY <1>2 DEF Boxes
<1>4. sockets \subseteq Sockets BY DEF IInv, Context
<1>5. IsFiniteSet(Reaping) BY <1>4, OwnershipAssumption, FS_Subset DEF Reaping
<1>6. Cardinality(Reaping) \in Nat BY <1>5, FS_CardinalityType
<1> QED BY <1>1, <1>2, <1>3, <1>4, <1>5, <1>6

\* Only a mailbox of the context changes.
LEMMA OutsideInv ==
  ASSUME IInv, own' = own, pipes' = pipes, failed' = FALSE,
         NEW b \in {"reaper", "term"}, NEW q \in Seq(Commands), mail' = [mail EXCEPT ![b] = q]
  PROVE  /\ Good(State', {}) /\ Busy(State') /\ mail'[b] = q
         /\ \A d \in Boxes : d # b => mail'[d] = mail[d]
<1>1. /\ mail \in [Boxes -> Seq(Commands)] /\ own \in [Actors -> Object]
      /\ pipes \in [Objects -> PipeState] /\ failed = FALSE
  BY Sorts
<1>2. b \in Boxes /\ \A t \in Slots : t # b BY OwnershipAssumption DEF Boxes, Slots
<1>3. mail' \in [Boxes -> Seq(Commands)] /\ mail'[b] = q BY <1>1, <1>2
<1>4. \A d \in Boxes : d # b => mail'[d] = mail[d] BY <1>1, <1>2
<1>5. State' \in States BY <1>1, <1>3 DEF State, States
<1>6. State'.own = own' /\ State'.mail = mail' /\ State'.pipes = pipes' /\ State'.failed = failed'
  BY DEF State
<1> DEFINE r == State
           r2 == State'
<1>7. /\ r2 \in States /\ r2.own = r.own /\ r2.pipes = r.pipes /\ ~r2.failed
      /\ \A t \in Slots : r2.mail[t] = r.mail[t]
  BY <1>2, <1>4, <1>5, <1>6, StateParts DEF Boxes
<1>8. Good(r, {}) /\ Busy(r) BY DEF IInv
<1> HIDE DEF r, r2
<1>9. Good(r2, {}) /\ Busy(r2) BY <1>7, <1>8, Outside
<1> QED BY <1>3, <1>4, <1>9 DEF r2

\* zmq_ctx_term returns: the reaper has said that it is done.
LEMMA TermDoneInv ==
  ASSUME IInv, TermDone
  PROVE  IInv'
<1> DEFINE q == Tail(mail["term"])
           L == Len(mail["term"])
<1>1. /\ own' = own /\ pipes' = pipes /\ sockets' = sockets /\ terminating' = terminating
      /\ reaper' = reaper /\ closed' = closed /\ term = "waiting" /\ term' = "deleted"
      /\ mail["term"] # << >> /\ mail' = [mail EXCEPT !["term"] = q]
      /\ failed' = (failed \/ sockets # {})
  BY DEF TermDone
<1>2. mail["term"] \in Seq(Commands) /\ mail["reaper"] \in Seq(Commands) /\ failed = FALSE BY Sorts
<1>3. q \in Seq(Commands) /\ L \in Nat /\ L >= 1 /\ Len(q) = L - 1 BY <1>1, <1>2
<1>4. L + Bit(term = "deleted") = Bit(reaper.terminating /\ reaper.sockets = 0)
  BY DEF IInv, Context
<1>5. Bit(term = "deleted") = 0 /\ Bit(term' = "deleted") = 1 BY <1>1 DEF Bit
<1>6. reaper.terminating
  <2>1. Bit(reaper.terminating /\ reaper.sockets = 0) # 0 BY <1>3, <1>4, <1>5
  <2> QED BY <2>1 DEF Bit
<1>7. sockets = {}
  <2>1. Count(mail["reaper"], {StopCmd}) + Bit(reaper.terminating) = Bit(terminating /\ sockets = {})
    BY DEF IInv, Context
  <2>2. Count(mail["reaper"], {StopCmd}) \in Nat BY <1>2, Places
  <2>3. Bit(reaper.terminating) = 1 BY <1>6 DEF Bit
  <2>4. Bit(terminating /\ sockets = {}) # 0 BY <2>1, <2>2, <2>3
  <2> QED BY <2>4 DEF Bit
<1>8. failed' = FALSE BY <1>1, <1>2, <1>7
<1> HIDE DEF q, L
<1>9. "term" \in {"reaper", "term"} OBVIOUS
<1>10. /\ Good(State', {}) /\ Busy(State') /\ mail'["term"] = q
       /\ \A d \in Boxes : d # "term" => mail'[d] = mail[d]
  BY <1>1, <1>3, <1>8, <1>9, OutsideInv
<1>11. mail'["reaper"] = mail["reaper"] BY <1>10 DEF Boxes
<1>12. Len(mail'["term"]) + Bit(term' = "deleted") = Bit(reaper'.terminating /\ reaper'.sockets = 0)
  BY <1>1, <1>3, <1>4, <1>5, <1>10
<1>13. Reaping' = Reaping BY <1>1 DEF Reaping
<1>14. Context' BY <1>1, <1>11, <1>12, <1>13 DEF IInv, Context
<1> QED BY <1>10, <1>14 DEF IInv

Words(X) == {Reap(s) : s \in X} \cup {ReapedCmd, StopCmd}
\* the mailbox of the reaper, before and after a command is put at its end
More(X, Q, m, q) ==
    /\ q \in Seq(Commands) /\ \A i \in DOMAIN q : q[i] \in Words(X)
    /\ \A s \in Sockets : /\ Count(q, {Reap(s)}) = Count(Q, {Reap(s)}) + Bit(m = Reap(s))
                          /\ Count(Q, {Reap(s)}) \in Nat
    /\ Count(q, {ReapedCmd}) = Count(Q, {ReapedCmd}) + Bit(m = ReapedCmd)
    /\ Count(q, {StopCmd}) = Count(Q, {StopCmd}) + Bit(m = StopCmd)
    /\ Count(Q, {ReapedCmd}) \in Nat /\ Count(Q, {StopCmd}) \in Nat

\* What one more command in the mailbox of the reaper changes.
LEMMA ReaperAppend ==
  ASSUME NEW X \in SUBSET Sockets, NEW Q \in Seq(Commands), \A i \in DOMAIN Q : Q[i] \in Words(X),
         NEW m \in Words(X), NEW q, q = Append(Q, m)
  PROVE  More(X, Q, m, q)
<1>1. m \in Commands BY ReaperWords DEF Words
<1>2. q \in Seq(Commands) BY <1>1
<1>3. \A n : Count(q, {n}) = Count(Q, {n}) + Bit(m = n) /\ Count(Q, {n}) \in Nat
  <2> SUFFICES ASSUME NEW n PROVE Count(q, {n}) = Count(Q, {n}) + Bit(m = n) /\ Count(Q, {n}) \in Nat
    OBVIOUS
  <2>1. Bit(m \in {n}) = Bit(m = n) BY DEF Bit
  <2>2. Count(Q, {n}) \in Nat BY Places
  <2>3. Count(Append(Q, m), {n}) = Count(Q, {n}) + Bit(m \in {n}) BY <1>1, CountAppend
  <2> QED BY <2>1, <2>2, <2>3
<1>4. \A i \in DOMAIN q : q[i] \in Words(X) BY <1>1
<1> QED BY <1>2, <1>3, <1>4 DEF More

\* zmq_close: the socket is handed to the reaper.
LEMMA CloseInv ==
  ASSUME IInv, NEW s \in Sockets, Close(s)
  PROVE  IInv'
<1> DEFINE Q == mail["reaper"]
           q == Append(Q, Reap(s))
<1>1. /\ s \in sockets /\ s \notin closed /\ closed' = closed \cup {s}
      /\ mail' = [mail EXCEPT !["reaper"] = q]
      /\ own' = own /\ pipes' = pipes /\ failed' = failed /\ sockets' = sockets
      /\ terminating' = terminating /\ term' = term /\ reaper' = reaper
  BY DEF Close, ctxVars, Reap
<1>2. More(sockets, Q, Reap(s), q)
  <2> DEFINE m == Reap(s)
  <2>1. m \in Words(sockets) /\ q = Append(Q, m) BY <1>1 DEF Words
  <2>2. Q \in Seq(Commands) /\ sockets \in SUBSET Sockets BY Sorts
  <2>3. \A i \in DOMAIN Q : Q[i] \in Words(sockets) BY DEF IInv, Context, Words
  <2> HIDE DEF q, m, Q
  <2>4. More(sockets, Q, m, q) BY <2>1, <2>2, <2>3, ReaperAppend
  <2> QED BY <2>4 DEF m
<1>3. /\ q \in Seq(Commands)
      /\ \A i \in DOMAIN q : q[i] \in {Reap(u) : u \in sockets} \cup {ReapedCmd, StopCmd}
      /\ \A u \in Sockets : /\ Count(q, {Reap(u)}) = Count(Q, {Reap(u)}) + Bit(Reap(s) = Reap(u))
                            /\ Count(Q, {Reap(u)}) \in Nat
      /\ Count(q, {ReapedCmd}) = Count(Q, {ReapedCmd}) + Bit(Reap(s) = ReapedCmd)
      /\ Count(q, {StopCmd}) = Count(Q, {StopCmd}) + Bit(Reap(s) = StopCmd)
      /\ Count(Q, {ReapedCmd}) \in Nat /\ Count(Q, {StopCmd}) \in Nat
  <2> HIDE DEF q, Q
  <2> QED BY <1>2 DEF More, Words
<1>4. Bit(Reap(s) = ReapedCmd) = 0 /\ Bit(Reap(s) = StopCmd) = 0 BY ReaperWords DEF Bit
<1>5. Count(q, {ReapedCmd}) = Count(Q, {ReapedCmd}) /\ Count(q, {StopCmd}) = Count(Q, {StopCmd})
  BY <1>3, <1>4
<1>6. failed' = FALSE BY <1>1, Sorts
<1> HIDE DEF q
<1>7. "reaper" \in {"reaper", "term"} OBVIOUS
<1>8. /\ Good(State', {}) /\ Busy(State') /\ mail'["reaper"] = q
      /\ \A d \in Boxes : d # "reaper" => mail'[d] = mail[d]
  BY <1>1, <1>3, <1>6, <1>7, OutsideInv
<1>9. mail'["term"] = mail["term"] BY <1>8 DEF Boxes
<1>10. Reaping' = Reaping BY <1>1 DEF Reaping
<1>11. ~own[s].reaping /\ own[s].kind = "socket" /\ sockets \subseteq Sockets
  BY <1>1, Sorts DEF IInv, Context
<1>12. \A u \in sockets : Count(q, {Reap(u)}) = Bit(u \in closed' /\ ~own[u].reaping)
  <2> SUFFICES ASSUME NEW u \in sockets
               PROVE  Count(q, {Reap(u)}) = Bit(u \in closed' /\ ~own[u].reaping)
    OBVIOUS
  <2>1. Count(Q, {Reap(u)}) = Bit(u \in closed /\ ~own[u].reaping) BY DEF IInv, Context
  <2>2. u \in Sockets /\ (Reap(s) = Reap(u) <=> s = u) BY <1>11, ReaperWords
  <2>3. Count(q, {Reap(u)}) = Count(Q, {Reap(u)}) + Bit(Reap(s) = Reap(u)) BY <1>3, <2>2
  <2> QED BY <1>1, <1>11, <2>1, <2>2, <2>3 DEF Bit
<1>13. closed' \subseteq Sockets /\ (\A u \in closed' : own[u].kind # "unborn")
       /\ \A u \in Sockets : own[u].reaping => u \in closed' /\ own[u].terminating
  BY <1>1, <1>11 DEF IInv, Context
<1>14. Context'
  <2>1. /\ sockets' = {u \in Sockets : own'[u].kind = "socket"}
        /\ closed' \subseteq Sockets /\ \A u \in closed' : own'[u].kind # "unborn"
        /\ \A u \in Sockets : own'[u].reaping => u \in closed' /\ own'[u].terminating
    BY <1>1, <1>13 DEF IInv, Context
  <2>2. /\ \A i \in DOMAIN mail'["reaper"] :
             mail'["reaper"][i] \in {Reap(u) : u \in sockets'} \cup {ReapedCmd, StopCmd}
        /\ \A u \in sockets' :
             Count(mail'["reaper"], {Reap(u)}) = Bit(u \in closed' /\ ~own'[u].reaping)
    BY <1>1, <1>3, <1>8, <1>12
  <2>3. /\ reaper' \in [sockets : Nat, terminating : BOOLEAN, stopped : BOOLEAN]
        /\ reaper'.sockets = Cardinality(Reaping') + Count(mail'["reaper"], {ReapedCmd})
        /\ Count(mail'["reaper"], {StopCmd}) + Bit(reaper'.terminating)
             = Bit(terminating' /\ sockets' = {})
    BY <1>1, <1>5, <1>8, <1>10 DEF IInv, Context
  <2>4. /\ Len(mail'["term"]) + Bit(term' = "deleted") = Bit(reaper'.terminating /\ reaper'.sockets = 0)
        /\ term' \in {"idle", "waiting", "deleted"} /\ terminating' \in BOOLEAN
        /\ term' # "idle" => terminating'
    BY <1>1, <1>9 DEF IInv, Context
  <2> QED BY <2>1, <2>2, <2>3, <2>4 DEF Context, StopCmd, ReapedCmd, Reap, Reaping
<1> QED BY <1>8, <1>14 DEF IInv

\* the mailbox of the reaper, before and after its first command is taken
Less(X, Q, m, q) ==
    /\ q \in Seq(Commands) /\ \A i \in DOMAIN q : q[i] \in Words(X)
    /\ \A s \in Sockets : /\ Count(Q, {Reap(s)}) = Count(q, {Reap(s)}) + Bit(m = Reap(s))
                          /\ Count(q, {Reap(s)}) \in Nat
    /\ Count(Q, {ReapedCmd}) = Count(q, {ReapedCmd}) + Bit(m = ReapedCmd)
    /\ Count(Q, {StopCmd}) = Count(q, {StopCmd}) + Bit(m = StopCmd)
    /\ Count(q, {ReapedCmd}) \in Nat /\ Count(q, {StopCmd}) \in Nat

\* What one command less in the mailbox of the reaper changes.
LEMMA ReaperTail ==
  ASSUME NEW X \in SUBSET Sockets, NEW Q \in Seq(Commands), \A i \in DOMAIN Q : Q[i] \in Words(X),
         Q # << >>
  PROVE  Less(X, Q, Head(Q), Tail(Q)) /\ Head(Q) \in Words(X)
<1>1. Tail(Q) \in Seq(Commands) OBVIOUS
<1>2. 1 \in DOMAIN Q /\ Head(Q) = Q[1] OBVIOUS
<1>3. Head(Q) \in Words(X) BY <1>2
<1>4. \A i \in DOMAIN Tail(Q) : Tail(Q)[i] = Q[i + 1] /\ i + 1 \in DOMAIN Q OBVIOUS
<1>5. \A i \in DOMAIN Tail(Q) : Tail(Q)[i] \in Words(X) BY <1>4
<1>6. \A n : Count(Q, {n}) = Count(Tail(Q), {n}) + Bit(Head(Q) = n) /\ Count(Tail(Q), {n}) \in Nat
  <2> SUFFICES ASSUME NEW n
               PROVE  Count(Q, {n}) = Count(Tail(Q), {n}) + Bit(Head(Q) = n) /\ Count(Tail(Q), {n}) \in Nat
    OBVIOUS
  <2>1. Bit(Head(Q) \in {n}) = Bit(Head(Q) = n) BY DEF Bit
  <2>2. Count(Tail(Q), {n}) \in Nat BY <1>1, Places
  <2>3. Count(Q, {n}) = Count(Tail(Q), {n}) + Bit(Head(Q) \in {n}) BY CountTail
  <2> QED BY <2>1, <2>2, <2>3
<1> QED BY <1>1, <1>3, <1>5, <1>6 DEF Less

\* the state in which the reaper works on a command it has taken
Taken(r, q) ==
    /\ Good(r, {}) /\ Busy(r) /\ r \in States /\ r.own = own /\ r.pipes = pipes /\ r.failed = FALSE
    /\ r.mail["reaper"] = q /\ r.mail["term"] = mail["term"]
    /\ \A t \in Slots : r.mail[t] = mail[t]

\* The reaper takes a command: nothing changes for the objects.
LEMMA TakeReaper ==
  ASSUME IInv, mail["reaper"] # << >>, NEW r, r = Take(State, "reaper")
  PROVE  /\ Taken(r, Tail(mail["reaper"])) /\ Head(mail["reaper"]) \in Words(sockets)
         /\ Less(sockets, mail["reaper"], Head(mail["reaper"]), Tail(mail["reaper"]))
<1> DEFINE Q == mail["reaper"]
<1>1. /\ mail \in [Boxes -> Seq(Commands)] /\ Q \in Seq(Commands) /\ sockets \in SUBSET Sockets
      /\ State \in States /\ failed = FALSE
  BY Sorts
<1>2. \A i \in DOMAIN Q : Q[i] \in Words(sockets) BY DEF IInv, Context, Words
<1>3. Less(sockets, Q, Head(Q), Tail(Q)) /\ Head(Q) \in Words(sockets)
  <2> HIDE DEF Q
  <2> QED BY <1>1, <1>2, ReaperTail DEF Q
<1> DEFINE f == [mail EXCEPT !["reaper"] = Tail(Q)]
<1>4. "reaper" \in Boxes /\ "term" \in Boxes BY DEF Boxes
<1>5. f \in [Boxes -> Seq(Commands)] BY <1>1, <1>4
<1>6. f["reaper"] = Tail(Q) /\ \A d \in Boxes : d # "reaper" => f[d] = mail[d] BY <1>1, <1>4
<1>7. \A t \in Slots : t # "reaper" /\ t \in Boxes BY OwnershipAssumption DEF Slots, Boxes
<1>8. r = [State EXCEPT !.mail = f] BY StateParts DEF Take
<1> HIDE DEF f, Q
<1>9. /\ r \in States /\ r.mail = f /\ r.own = own /\ r.pipes = pipes /\ r.failed = FALSE
  <2> DEFINE r0 == State
  <2>1. r0.own = own /\ r0.pipes = pipes /\ r0.failed = failed BY StateParts
  <2>2. r0 \in States /\ r = [r0 EXCEPT !.mail = f] BY <1>1, <1>8
  <2> HIDE DEF r0
  <2>3. /\ r \in States /\ r.mail = f /\ r.own = r0.own /\ r.pipes = r0.pipes
        /\ r.failed = r0.failed
    <3> DEFINE x == [r0 EXCEPT !.mail = f]
    <3>1. x \in States /\ x.mail = f /\ x.own = r0.own /\ x.pipes = r0.pipes /\ x.failed = r0.failed
      BY <1>5, <2>2, WithMail
    <3>2. r = x BY <2>2
    <3> HIDE DEF x
    <3> QED BY <3>1, <3>2
  <2> QED BY <1>1, <2>1, <2>3
<1>10. \A t \in Slots : r.mail[t] = mail[t] BY <1>6, <1>7, <1>9
<1>11. r.mail["reaper"] = Tail(Q) /\ r.mail["term"] = mail["term"] BY <1>4, <1>6, <1>9
<1>12. Good(r, {}) /\ Busy(r)
  <2> DEFINE r0 == State
  <2>1. /\ Good(r0, {}) /\ Busy(r0) /\ r.own = r0.own /\ r.pipes = r0.pipes /\ ~r.failed
        /\ \A t \in Slots : r.mail[t] = r0.mail[t]
    BY <1>9, <1>10, StateParts DEF IInv
  <2> HIDE DEF r0
  <2> QED BY <1>9, <2>1, Outside
<1> QED BY <1>3, <1>9, <1>10, <1>11, <1>12 DEF Taken, Q

\* reaper_t::process_reaped and process_stop: the reaper may say that it is done.
LEMMA ReaperDone ==
  ASSUME NEW r, NEW q, Taken(r, q), mail["term"] \in Seq(Commands), NEW x, NEW r2, r2 = Reaped(r, x)
  PROVE  /\ Good(r2, {}) /\ Busy(r2) /\ r2 \in States /\ r2.own = own /\ r2.mail["reaper"] = q
         /\ Len(r2.mail["term"]) = Len(mail["term"]) + Bit(x.terminating /\ x.sockets = 0)
<1> DEFINE T == mail["term"]
           L == Len(T)
<1>1. /\ Good(r, {}) /\ Busy(r) /\ r \in States /\ r.own = own /\ r.mail["reaper"] = q
      /\ r.mail["term"] = T /\ r.failed = FALSE
  BY DEF Taken
<1>2. L \in Nat OBVIOUS
<1>3. CASE ~(x.terminating /\ x.sockets = 0)
  <2>1. r2 = r BY <1>3 DEF Reaped
  <2>2. Bit(x.terminating /\ x.sockets = 0) = 0 BY <1>3 DEF Bit
  <2> HIDE DEF T
  <2> QED BY <1>1, <1>2, <2>1, <2>2 DEF T
<1>4. CASE x.terminating /\ x.sockets = 0
  <2> DEFINE d == Cmd("done", "term", Null)
             f == [r.mail EXCEPT !["term"] = Append(T, d)]
  <2>1. r2 = [r EXCEPT !.mail = f] BY <1>1, <1>4 DEF Reaped, SendDone
  <2>2. d \in Commands BY ReaperWords
  <2>3. Append(T, d) \in Seq(Commands) /\ Len(Append(T, d)) = L + 1 BY <2>2
  <2>4. r.mail \in [Boxes -> Seq(Commands)] BY <1>1 DEF States
  <2>5. "reaper" \in Boxes /\ "term" \in Boxes BY DEF Boxes
  <2>6. \A t \in Slots : t # "term" /\ t \in Boxes BY OwnershipAssumption DEF Slots, Boxes
  <2> HIDE DEF d, T
  <2>7. f \in [Boxes -> Seq(Commands)] BY <2>3, <2>4, <2>5
  <2>8. f["term"] = Append(T, d) /\ \A b \in Boxes : b # "term" => f[b] = r.mail[b] BY <2>4, <2>5
  <2> HIDE DEF f
  <2>9. r2 \in States /\ r2.mail = f /\ r2.own = r.own /\ r2.pipes = r.pipes /\ r2.failed = r.failed
    BY <1>1, <2>1, <2>7, WithMail
  <2>10. \A t \in Slots : r2.mail[t] = r.mail[t] BY <2>6, <2>8, <2>9
  <2>11. ~r2.failed BY <1>1, <2>9
  <2>12. Good(r2, {}) /\ Busy(r2) BY <1>1, <2>9, <2>10, <2>11, Outside
  <2>13. r2.mail["reaper"] = q BY <1>1, <2>5, <2>8, <2>9
  <2>14. Len(r2.mail["term"]) = L + 1 BY <2>3, <2>8, <2>9
  <2>15. Bit(x.terminating /\ x.sockets = 0) = 1 BY <1>4 DEF Bit
  <2> QED BY <1>1, <2>9, <2>12, <2>13, <2>14, <2>15 DEF T
<1> QED BY <1>3, <1>4

\* reaper_t::process_reap: the socket starts to terminate.
LEMMA ReapInv ==
  ASSUME IInv, NEW u \in sockets, NEW q, Less(sockets, mail["reaper"], Reap(u), q),
         NEW r, Taken(r, q), reaper' = [reaper EXCEPT !.sockets = @ + 1],
         Update(SocketProcessTerm([r EXCEPT !.own[u].reaping = TRUE], u)),
         sockets' = sockets, closed' = closed, terminating' = terminating, term' = term
  PROVE  IInv'
<1> DEFINE Q == mail["reaper"]
           res == SocketProcessTerm([r EXCEPT !.own[u].reaping = TRUE], u)
<1>1. sockets \subseteq Sockets /\ IsFiniteSet(Reaping) /\ Cardinality(Reaping) \in Nat BY Sorts
<1>2. u \in Sockets /\ own[u].kind = "socket" BY DEF IInv, Context
<1>3. /\ \A s \in Sockets : /\ Count(Q, {Reap(s)}) = Count(q, {Reap(s)}) + Bit(Reap(u) = Reap(s))
                            /\ Count(q, {Reap(s)}) \in Nat
      /\ Count(Q, {ReapedCmd}) = Count(q, {ReapedCmd}) + Bit(Reap(u) = ReapedCmd)
      /\ Count(Q, {StopCmd}) = Count(q, {StopCmd}) + Bit(Reap(u) = StopCmd)
      /\ Count(q, {ReapedCmd}) \in Nat /\ Count(q, {StopCmd}) \in Nat
      /\ \A i \in DOMAIN q : q[i] \in Words(sockets)
  BY DEF Less
<1> HIDE DEF Q
<1>4. Bit(Reap(u) = ReapedCmd) = 0 /\ Bit(Reap(u) = StopCmd) = 0 /\ Bit(Reap(u) = Reap(u)) = 1
  BY <1>2, ReaperWords DEF Bit
<1>5. Count(Q, {ReapedCmd}) = Count(q, {ReapedCmd}) /\ Count(Q, {StopCmd}) = Count(q, {StopCmd})
  BY <1>3, <1>4
<1>6. u \in closed /\ ~own[u].reaping
  <2>1. Count(Q, {Reap(u)}) = Bit(u \in closed /\ ~own[u].reaping) BY DEF IInv, Context, Q
  <2>2. Count(Q, {Reap(u)}) # 0 BY <1>2, <1>3, <1>4
  <2> QED BY <2>1, <2>2 DEF Bit
<1>7. /\ Good(r, {}) /\ Busy(r) /\ r.own = own /\ r.mail["reaper"] = q /\ r.mail["term"] = mail["term"]
  BY DEF Taken
<1>8. Live(r, u) /\ ~r.own[u].reaping BY <1>2, <1>6, <1>7 DEF Live
<1>9. Good(res, {}) /\ Busy(res) /\ Begun(r, res, u) /\ Update(res)
  <2> HIDE DEF res
  <2>1. res = SocketProcessTerm([r EXCEPT !.own[u].reaping = TRUE], u) BY DEF res
  <2>2. Good(res, {}) /\ Busy(res) /\ Begun(r, res, u) BY <1>2, <1>7, <1>8, <2>1, SocketTerms
  <2> QED BY <2>2 DEF res
<1> HIDE DEF res
<1>10. State' = res BY <1>9, NextState DEF Good
<1>11. Good(State', {}) /\ Busy(State') BY <1>9, <1>10
<1>12. own' = res.own /\ mail' = res.mail BY <1>9 DEF Update
<1>13. /\ mail'["reaper"] = q /\ mail'["term"] = mail["term"]
       /\ \A s \in Sockets : own'[s].kind = own[s].kind
       /\ \A s \in Sockets \ {u} : own'[s].reaping = own[s].reaping /\ own'[s].terminating = own[s].terminating
       /\ own'[u].reaping /\ own'[u].terminating
  BY <1>7, <1>9, <1>12 DEF Begun
<1>14. /\ reaper \in [sockets : Nat, terminating : BOOLEAN, stopped : BOOLEAN]
       /\ reaper.sockets = Cardinality(Reaping) + Count(Q, {ReapedCmd})
       /\ Count(Q, {StopCmd}) + Bit(reaper.terminating) = Bit(terminating /\ sockets = {})
       /\ Len(mail["term"]) + Bit(term = "deleted") = Bit(reaper.terminating /\ reaper.sockets = 0)
  BY DEF IInv, Context, Q
<1>15. /\ reaper' \in [sockets : Nat, terminating : BOOLEAN, stopped : BOOLEAN]
       /\ reaper'.sockets = reaper.sockets + 1 /\ reaper'.terminating = reaper.terminating
  BY <1>14
<1>16. ~reaper.terminating
  <2>1. Bit(terminating /\ sockets = {}) = 0 BY DEF Bit
  <2>2. Bit(reaper.terminating) # 1 BY <1>3, <1>5, <1>14, <2>1
  <2> QED BY <2>2 DEF Bit
<1>17. Cardinality(Reaping') = Cardinality(Reaping) + 1
  <2>1. Reaping' = Reaping \cup {u} BY <1>1, <1>2, <1>13 DEF Reaping
  <2>2. u \notin Reaping BY <1>6 DEF Reaping
  <2> QED BY <1>1, <2>1, <2>2, FS_AddElement
<1>18. /\ sockets' = {s \in Sockets : own'[s].kind = "socket"}
       /\ closed' \subseteq Sockets /\ \A s \in closed' : own'[s].kind # "unborn"
       /\ \A s \in Sockets : own'[s].reaping => s \in closed' /\ own'[s].terminating
  BY <1>6, <1>13 DEF IInv, Context
<1>19. \A s \in sockets' : Count(mail'["reaper"], {Reap(s)}) = Bit(s \in closed' /\ ~own'[s].reaping)
  <2> SUFFICES ASSUME NEW s \in sockets
               PROVE  Count(q, {Reap(s)}) = Bit(s \in closed /\ ~own'[s].reaping)
    BY <1>13
  <2>1. Count(Q, {Reap(s)}) = Bit(s \in closed /\ ~own[s].reaping) BY DEF IInv, Context, Q
  <2>2. s \in Sockets /\ (Reap(u) = Reap(s) <=> u = s) BY <1>1, <1>2, ReaperWords
  <2>3. Count(Q, {Reap(s)}) = Count(q, {Reap(s)}) + Bit(Reap(u) = Reap(s)) BY <1>3, <2>2
  <2>4. Count(q, {Reap(s)}) \in Nat BY <1>3, <2>2
  <2>5. CASE s = u
    <3>1. own'[s].reaping BY <1>13, <2>5
    <3>2. Count(q, {Reap(s)}) = 0 BY <1>6, <2>1, <2>3, <2>4, <2>5 DEF Bit
    <3> QED BY <3>1, <3>2 DEF Bit
  <2>6. CASE s # u
    <3>1. own'[s].reaping = own[s].reaping BY <1>13, <2>2, <2>6
    <3>2. Bit(Reap(u) = Reap(s)) = 0 BY <2>2, <2>6 DEF Bit
    <3> QED BY <2>1, <2>3, <2>4, <3>1, <3>2
  <2> QED BY <2>5, <2>6
<1>20. \A i \in DOMAIN mail'["reaper"] :
         mail'["reaper"][i] \in {Reap(s) : s \in sockets'} \cup {ReapedCmd, StopCmd}
  BY <1>3, <1>13 DEF Words
<1>21. /\ reaper'.sockets = Cardinality(Reaping') + Count(mail'["reaper"], {ReapedCmd})
       /\ Count(mail'["reaper"], {StopCmd}) + Bit(reaper'.terminating)
            = Bit(terminating' /\ sockets' = {})
  <2>1. Count(mail'["reaper"], {ReapedCmd}) = Count(Q, {ReapedCmd}) BY <1>5, <1>13
  <2>2. Count(mail'["reaper"], {StopCmd}) = Count(Q, {StopCmd}) BY <1>5, <1>13
  <2>3. Count(Q, {ReapedCmd}) \in Nat BY <1>3, <1>5
  <2>4. reaper'.sockets = Cardinality(Reaping') + Count(mail'["reaper"], {ReapedCmd})
    BY <1>1, <1>14, <1>15, <1>17, <2>1, <2>3
  <2> QED BY <1>14, <1>15, <2>2, <2>4
<1>22. Len(mail'["term"]) + Bit(term' = "deleted") = Bit(reaper'.terminating /\ reaper'.sockets = 0)
  BY <1>13, <1>14, <1>15, <1>16 DEF Bit
<1>23. /\ term' \in {"idle", "waiting", "deleted"} /\ terminating' \in BOOLEAN
       /\ term' # "idle" => terminating'
  BY DEF IInv, Context
<1>24. Context'
  BY <1>15, <1>18, <1>19, <1>20, <1>21, <1>22, <1>23 DEF Context, StopCmd, ReapedCmd, Reap, Reaping
<1> QED BY <1>11, <1>24 DEF IInv

\* What is left of the context when the reaper takes reaped or stop.
LEMMA ReaperContext ==
  ASSUME IInv, NEW m \in {ReapedCmd, StopCmd}, NEW q, Less(sockets, mail["reaper"], m, q),
         own' = own, mail'["reaper"] = q,
         sockets' = sockets, closed' = closed, terminating' = terminating, term' = term
  PROVE  /\ sockets' = {s \in Sockets : own'[s].kind = "socket"}
         /\ closed' \subseteq Sockets /\ \A s \in closed' : own'[s].kind # "unborn"
         /\ \A s \in Sockets : own'[s].reaping => s \in closed' /\ own'[s].terminating
         /\ \A i \in DOMAIN mail'["reaper"] :
              mail'["reaper"][i] \in {Reap(s) : s \in sockets'} \cup {ReapedCmd, StopCmd}
         /\ \A s \in sockets' :
              Count(mail'["reaper"], {Reap(s)}) = Bit(s \in closed' /\ ~own'[s].reaping)
         /\ term' \in {"idle", "waiting", "deleted"} /\ terminating' \in BOOLEAN
         /\ term' # "idle" => terminating'
         /\ Reaping' = Reaping
<1>1. \A i \in DOMAIN q : q[i] \in {Reap(s) : s \in sockets} \cup {ReapedCmd, StopCmd}
  BY DEF Less, Words
<1>2. \A s \in sockets : Count(q, {Reap(s)}) = Bit(s \in closed /\ ~own[s].reaping)
  <2> SUFFICES ASSUME NEW s \in sockets
               PROVE  Count(q, {Reap(s)}) = Bit(s \in closed /\ ~own[s].reaping)
    OBVIOUS
  <2>1. s \in Sockets BY Sorts
  <2>2. /\ Count(mail["reaper"], {Reap(s)}) = Count(q, {Reap(s)}) + Bit(m = Reap(s))
        /\ Count(q, {Reap(s)}) \in Nat
    BY <2>1 DEF Less
  <2>3. Bit(m = Reap(s)) = 0 BY <2>1, ReaperWords DEF Bit
  <2>4. Count(mail["reaper"], {Reap(s)}) = Bit(s \in closed /\ ~own[s].reaping) BY DEF IInv, Context
  <2> QED BY <2>2, <2>3, <2>4
<1>3. Reaping' = Reaping BY DEF Reaping
<1>4. /\ sockets = {s \in Sockets : own[s].kind = "socket"}
      /\ closed \subseteq Sockets /\ \A s \in closed : own[s].kind # "unborn"
      /\ \A s \in Sockets : own[s].reaping => s \in closed /\ own[s].terminating
      /\ term \in {"idle", "waiting", "deleted"} /\ terminating \in BOOLEAN
      /\ term # "idle" => terminating
  BY DEF IInv, Context
<1> QED BY <1>1, <1>2, <1>3, <1>4

\* reaper_t::process_reaped: one socket less to reap.
LEMMA ReapedInv ==
  ASSUME IInv, NEW q, Less(sockets, mail["reaper"], ReapedCmd, q),
         NEW r, Taken(r, q), reaper' = [reaper EXCEPT !.sockets = @ - 1], Update(Reaped(r, reaper')),
         sockets' = sockets, closed' = closed, terminating' = terminating, term' = term
  PROVE  IInv'
<1> DEFINE Q == mail["reaper"]
           L == Len(mail["term"])
           res == Reaped(r, reaper')
<1>1. /\ Count(Q, {ReapedCmd}) = Count(q, {ReapedCmd}) + Bit(ReapedCmd = ReapedCmd)
      /\ Count(Q, {StopCmd}) = Count(q, {StopCmd}) + Bit(ReapedCmd = StopCmd)
      /\ Count(q, {ReapedCmd}) \in Nat /\ Count(q, {StopCmd}) \in Nat
  BY DEF Less
<1>2. Bit(ReapedCmd = ReapedCmd) = 1 /\ Bit(ReapedCmd = StopCmd) = 0 BY ReaperWords DEF Bit
<1>3. Cardinality(Reaping) \in Nat /\ mail["term"] \in Seq(Commands) /\ L \in Nat BY Sorts
<1>4. /\ reaper \in [sockets : Nat, terminating : BOOLEAN, stopped : BOOLEAN]
      /\ reaper.sockets = Cardinality(Reaping) + Count(Q, {ReapedCmd})
      /\ Count(Q, {StopCmd}) + Bit(reaper.terminating) = Bit(terminating /\ sockets = {})
      /\ L + Bit(term = "deleted") = Bit(reaper.terminating /\ reaper.sockets = 0)
  BY DEF IInv, Context
<1> HIDE DEF Q, L
<1>5. reaper.sockets > 0 /\ reaper.sockets \in Nat BY <1>1, <1>2, <1>3, <1>4
<1>6. /\ reaper' \in [sockets : Nat, terminating : BOOLEAN, stopped : BOOLEAN]
      /\ reaper'.sockets = reaper.sockets - 1 /\ reaper'.terminating = reaper.terminating
  BY <1>4, <1>5
<1>7. L = 0 /\ Bit(term = "deleted") = 0
  <2>1. Bit(reaper.terminating /\ reaper.sockets = 0) = 0 BY <1>5 DEF Bit
  <2>2. Bit(term = "deleted") \in Nat BY DEF Bit
  <2> QED BY <1>3, <1>4, <2>1, <2>2
<1>8. /\ Good(res, {}) /\ Busy(res) /\ res \in States /\ res.own = own /\ res.mail["reaper"] = q
      /\ Len(res.mail["term"]) = L + Bit(reaper'.terminating /\ reaper'.sockets = 0)
  <2> DEFINE x == reaper'
  <2>1. res = Reaped(r, x) OBVIOUS
  <2> HIDE DEF res, x
  <2>2. /\ Good(res, {}) /\ Busy(res) /\ res \in States /\ res.own = own /\ res.mail["reaper"] = q
        /\ Len(res.mail["term"]) = Len(mail["term"]) + Bit(x.terminating /\ x.sockets = 0)
    BY <1>3, <2>1, ReaperDone
  <2> QED BY <2>2 DEF x, L
<1>9. Update(res) OBVIOUS
<1> HIDE DEF res
<1>10. State' = res /\ own' = res.own /\ mail' = res.mail BY <1>8, <1>9, NextState DEF Update
<1>11. Good(State', {}) /\ Busy(State') BY <1>8, <1>10
<1>12. own' = own /\ mail'["reaper"] = q BY <1>8, <1>10
<1> DEFINE m == ReapedCmd
<1>13. m \in {ReapedCmd, StopCmd} /\ Less(sockets, mail["reaper"], m, q) OBVIOUS
<1> HIDE DEF m
<1>14. /\ sockets' = {s \in Sockets : own'[s].kind = "socket"}
       /\ closed' \subseteq Sockets /\ \A s \in closed' : own'[s].kind # "unborn"
       /\ \A s \in Sockets : own'[s].reaping => s \in closed' /\ own'[s].terminating
       /\ \A i \in DOMAIN mail'["reaper"] :
            mail'["reaper"][i] \in {Reap(s) : s \in sockets'} \cup {ReapedCmd, StopCmd}
       /\ \A s \in sockets' :
            Count(mail'["reaper"], {Reap(s)}) = Bit(s \in closed' /\ ~own'[s].reaping)
       /\ term' \in {"idle", "waiting", "deleted"} /\ terminating' \in BOOLEAN
       /\ term' # "idle" => terminating'
       /\ Reaping' = Reaping
  BY <1>12, <1>13, ReaperContext
<1>15. reaper'.sockets = Cardinality(Reaping') + Count(mail'["reaper"], {ReapedCmd})
  BY <1>1, <1>2, <1>3, <1>4, <1>6, <1>12, <1>14
<1>16. Count(mail'["reaper"], {StopCmd}) + Bit(reaper'.terminating) = Bit(terminating' /\ sockets' = {})
  BY <1>1, <1>2, <1>4, <1>6, <1>12
<1>17. Len(mail'["term"]) + Bit(term' = "deleted") = Bit(reaper'.terminating /\ reaper'.sockets = 0)
  <2>1. Bit(reaper'.terminating /\ reaper'.sockets = 0) \in Nat BY DEF Bit
  <2> QED BY <1>7, <1>8, <1>10, <2>1
<1>18. Context'
  BY <1>6, <1>14, <1>15, <1>16, <1>17 DEF Context, StopCmd, ReapedCmd, Reap, Reaping
<1> QED BY <1>11, <1>18 DEF IInv

\* reaper_t::process_stop: from now on the reaper waits for its last socket.
LEMMA ReaperStopInv ==
  ASSUME IInv, NEW q, Less(sockets, mail["reaper"], StopCmd, q),
         NEW r, Taken(r, q), reaper' = [reaper EXCEPT !.terminating = TRUE], Update(Reaped(r, reaper')),
         sockets' = sockets, closed' = closed, terminating' = terminating, term' = term
  PROVE  IInv'
<1> DEFINE Q == mail["reaper"]
           L == Len(mail["term"])
           res == Reaped(r, reaper')
<1>1. /\ Count(Q, {ReapedCmd}) = Count(q, {ReapedCmd}) + Bit(StopCmd = ReapedCmd)
      /\ Count(Q, {StopCmd}) = Count(q, {StopCmd}) + Bit(StopCmd = StopCmd)
      /\ Count(q, {ReapedCmd}) \in Nat /\ Count(q, {StopCmd}) \in Nat
  BY DEF Less
<1>2. Bit(StopCmd = StopCmd) = 1 /\ Bit(StopCmd = ReapedCmd) = 0 BY ReaperWords DEF Bit
<1>3. Cardinality(Reaping) \in Nat /\ mail["term"] \in Seq(Commands) /\ L \in Nat BY Sorts
<1>4. /\ reaper \in [sockets : Nat, terminating : BOOLEAN, stopped : BOOLEAN]
      /\ reaper.sockets = Cardinality(Reaping) + Count(Q, {ReapedCmd})
      /\ Count(Q, {StopCmd}) + Bit(reaper.terminating) = Bit(terminating /\ sockets = {})
      /\ L + Bit(term = "deleted") = Bit(reaper.terminating /\ reaper.sockets = 0)
  BY DEF IInv, Context
<1> HIDE DEF Q, L
<1>5. Count(q, {StopCmd}) = 0 /\ Bit(reaper.terminating) = 0 /\ Bit(terminating /\ sockets = {}) = 1
  <2>1. Bit(terminating /\ sockets = {}) \in {0, 1} /\ Bit(reaper.terminating) \in {0, 1} BY DEF Bit
  <2> QED BY <1>1, <1>2, <1>4, <2>1
<1>6. /\ reaper' \in [sockets : Nat, terminating : BOOLEAN, stopped : BOOLEAN]
      /\ reaper'.sockets = reaper.sockets /\ reaper'.terminating = TRUE
  BY <1>4
<1>7. L = 0 /\ Bit(term = "deleted") = 0
  <2>1. ~reaper.terminating BY <1>5 DEF Bit
  <2>2. Bit(reaper.terminating /\ reaper.sockets = 0) = 0 BY <2>1 DEF Bit
  <2>3. Bit(term = "deleted") \in Nat BY DEF Bit
  <2> QED BY <1>3, <1>4, <2>2, <2>3
<1>8. /\ Good(res, {}) /\ Busy(res) /\ res \in States /\ res.own = own /\ res.mail["reaper"] = q
      /\ Len(res.mail["term"]) = L + Bit(reaper'.terminating /\ reaper'.sockets = 0)
  <2> DEFINE x == reaper'
  <2>1. res = Reaped(r, x) OBVIOUS
  <2> HIDE DEF res, x
  <2>2. /\ Good(res, {}) /\ Busy(res) /\ res \in States /\ res.own = own /\ res.mail["reaper"] = q
        /\ Len(res.mail["term"]) = Len(mail["term"]) + Bit(x.terminating /\ x.sockets = 0)
    BY <1>3, <2>1, ReaperDone
  <2> QED BY <2>2 DEF x, L
<1>9. Update(res) OBVIOUS
<1> HIDE DEF res
<1>10. State' = res /\ own' = res.own /\ mail' = res.mail BY <1>8, <1>9, NextState DEF Update
<1>11. Good(State', {}) /\ Busy(State') BY <1>8, <1>10
<1>12. own' = own /\ mail'["reaper"] = q BY <1>8, <1>10
<1> DEFINE m == StopCmd
<1>13. m \in {ReapedCmd, StopCmd} /\ Less(sockets, mail["reaper"], m, q) OBVIOUS
<1> HIDE DEF m
<1>14. /\ sockets' = {s \in Sockets : own'[s].kind = "socket"}
       /\ closed' \subseteq Sockets /\ \A s \in closed' : own'[s].kind # "unborn"
       /\ \A s \in Sockets : own'[s].reaping => s \in closed' /\ own'[s].terminating
       /\ \A i \in DOMAIN mail'["reaper"] :
            mail'["reaper"][i] \in {Reap(s) : s \in sockets'} \cup {ReapedCmd, StopCmd}
       /\ \A s \in sockets' :
            Count(mail'["reaper"], {Reap(s)}) = Bit(s \in closed' /\ ~own'[s].reaping)
       /\ term' \in {"idle", "waiting", "deleted"} /\ terminating' \in BOOLEAN
       /\ term' # "idle" => terminating'
       /\ Reaping' = Reaping
  BY <1>12, <1>13, ReaperContext
<1>15. reaper'.sockets = Cardinality(Reaping') + Count(mail'["reaper"], {ReapedCmd})
  BY <1>1, <1>2, <1>3, <1>4, <1>6, <1>12, <1>14
<1>16. Count(mail'["reaper"], {StopCmd}) + Bit(reaper'.terminating) = Bit(terminating' /\ sockets' = {})
  <2>1. Bit(reaper'.terminating) = 1 BY <1>6 DEF Bit
  <2>2. Bit(terminating' /\ sockets' = {}) = Bit(terminating /\ sockets = {}) OBVIOUS
  <2>3. Count(mail'["reaper"], {StopCmd}) = 0 BY <1>5, <1>12
  <2> DEFINE a == Count(mail'["reaper"], {StopCmd})
             b == Bit(reaper'.terminating)
             e == Bit(terminating' /\ sockets' = {})
  <2>4. a = 0 /\ b = 1 /\ e = 1 BY <1>5, <2>1, <2>2, <2>3
  <2> HIDE DEF a, b, e
  <2>5. a + b = e BY <2>4
  <2> QED BY <2>5 DEF a, b, e
<1>17. Len(mail'["term"]) + Bit(term' = "deleted") = Bit(reaper'.terminating /\ reaper'.sockets = 0)
  <2>1. Bit(reaper'.terminating /\ reaper'.sockets = 0) \in Nat BY DEF Bit
  <2> QED BY <1>7, <1>8, <1>10, <2>1
<1>18. Context'
  BY <1>6, <1>14, <1>15, <1>16, <1>17 DEF Context, StopCmd, ReapedCmd, Reap, Reaping
<1> QED BY <1>11, <1>18 DEF IInv

\* reaper_t::in_event.
LEMMA ReaperCommandInv ==
  ASSUME IInv, ReaperCommand
  PROVE  IInv'
<1> DEFINE Q == mail["reaper"]
           m == Head(Q)
           q == Tail(Q)
           r == Take(State, "reaper")
<1>1. Q # << >> /\ sockets' = sockets /\ closed' = closed /\ terminating' = terminating /\ term' = term
  BY DEF ReaperCommand, ctxVars
<1>2. Taken(r, q) /\ m \in Words(sockets) /\ Less(sockets, Q, m, q)
  <2>1. r = Take(State, "reaper") OBVIOUS
  <2> HIDE DEF r
  <2> QED BY <1>1, <2>1, TakeReaper
<1>3. \/ /\ m.type = "reap" /\ reaper' = [reaper EXCEPT !.sockets = @ + 1]
         /\ Update(SocketProcessTerm([r EXCEPT !.own[m.arg].reaping = TRUE], m.arg))
      \/ /\ m.type = "reaped" /\ reaper' = [reaper EXCEPT !.sockets = @ - 1] /\ Update(Reaped(r, reaper'))
      \/ /\ m.type = "stop" /\ reaper' = [reaper EXCEPT !.terminating = TRUE] /\ Update(Reaped(r, reaper'))
  BY DEF ReaperCommand
<1> HIDE DEF m, q, r, Q
<1>4. sockets \subseteq Sockets BY Sorts
<1>5. CASE m.type = "reap"
  <2>1. PICK u \in sockets : m = Reap(u) BY <1>2, <1>5, ReaperWords DEF Words
  <2>2. m.arg = u BY <1>4, <2>1, ReaperWords
  <2>3. /\ reaper' = [reaper EXCEPT !.sockets = @ + 1]
        /\ Update(SocketProcessTerm([r EXCEPT !.own[u].reaping = TRUE], u))
    BY <1>3, <1>5, <2>2
  <2>4. Less(sockets, mail["reaper"], Reap(u), q) BY <1>2, <2>1 DEF Q
  <2> QED BY <1>1, <1>2, <2>3, <2>4, ReapInv
<1>6. CASE m.type = "reaped"
  <2>1. m = ReapedCmd BY <1>2, <1>4, <1>6, ReaperWords DEF Words
  <2>2. Less(sockets, mail["reaper"], ReapedCmd, q) BY <1>2, <2>1 DEF Q
  <2>3. reaper' = [reaper EXCEPT !.sockets = @ - 1] /\ Update(Reaped(r, reaper')) BY <1>3, <1>6
  <2> QED BY <1>1, <1>2, <2>2, <2>3, ReapedInv
<1>7. CASE m.type = "stop"
  <2>1. m = StopCmd BY <1>2, <1>4, <1>7, ReaperWords DEF Words
  <2>2. Less(sockets, mail["reaper"], StopCmd, q) BY <1>2, <2>1 DEF Q
  <2>3. reaper' = [reaper EXCEPT !.terminating = TRUE] /\ Update(Reaped(r, reaper')) BY <1>3, <1>7
  <2> QED BY <1>1, <1>2, <2>2, <2>3, ReaperStopInv
<1> QED BY <1>3, <1>5, <1>6, <1>7

StopOf(s) == Cmd("stop", s, Null)
Stopping == mail' = [t \in DOMAIN mail |-> IF t \in sockets THEN Append(mail[t], Cmd("stop", t, Null))
                                           ELSE mail[t]]
Stops == {StopOf(s) : s \in sockets}

\* The commands stop that ctx_t::terminate sends: what they are and where they go.
LEMMA StopWords ==
  ASSUME IInv
  PROVE  /\ \A s \in sockets : /\ StopOf(s) \in Commands /\ StopOf(s).dest = s /\ StopOf(s).arg = Null
                               /\ StopOf(s).type = "stop" /\ Proper(State, StopOf(s))
                               /\ Live(State, s) /\ own[s].tid = s /\ s \in Sockets
         /\ Stops \in SUBSET Commands /\ IsFiniteSet(Stops)
<1>1. sockets = {s \in Sockets : own[s].kind = "socket"} BY DEF IInv, Context
<1>2. Kinds(State) BY DEF IInv, Good
<1>3. \A s \in sockets : Live(State, s) /\ own[s].tid = s /\ s \in Sockets
  BY <1>1, <1>2, StateParts DEF Live, Kinds
<1>4. \A s \in sockets : /\ StopOf(s) \in Commands /\ StopOf(s).dest = s /\ StopOf(s).arg = Null
                         /\ StopOf(s).type = "stop"
  BY <1>3 DEF StopOf, Cmd, Commands, Types, Actors, Null
<1>5. \A s \in sockets : Proper(State, StopOf(s))
  <2> SUFFICES ASSUME NEW s \in sockets PROVE Proper(State, StopOf(s)) OBVIOUS
  <2> DEFINE m == StopOf(s)
  <2>1. m.dest = s /\ m.type = "stop" /\ s \in Sockets /\ Live(State, s) BY <1>3, <1>4
  <2> HIDE DEF m
  <2>2. m.dest \in Actors /\ Live(State, m.dest) /\ m.dest \in Sockets BY <2>1 DEF Actors
  <2>3. Proper(State, m) BY <2>1, <2>2 DEF Proper
  <2> QED BY <2>3 DEF m
<1>6. Stops \in SUBSET Commands BY <1>4 DEF Stops
<1>7. IsFiniteSet(Stops)
  <2>1. IsFiniteSet(sockets) BY <1>1, OwnershipAssumption, FS_Subset
  <2> DEFINE f == [s \in sockets |-> StopOf(s)]
  <2>2. f \in Surjection(sockets, Stops) BY DEF Stops, Surjection
  <2> HIDE DEF f
  <2> QED BY <2>1, <2>2, FS_Surjection
<1> QED BY <1>3, <1>4, <1>5, <1>6, <1>7

\* ctx_t::terminate and shutdown tell every socket: what a socket must answer for is
\* as it was.
LEMMA StopsSent ==
  ASSUME IInv, own' = own, pipes' = pipes, failed' = failed, Stopping
  PROVE  /\ Good(State', {}) /\ Busy(State')
         /\ mail'["reaper"] = mail["reaper"] /\ mail'["term"] = mail["term"]
<1>1. /\ mail \in [Boxes -> Seq(Commands)] /\ own \in [Actors -> Object]
      /\ pipes \in [Objects -> PipeState] /\ failed = FALSE /\ sockets \subseteq Sockets
  BY Sorts
<1>2. /\ \A s \in sockets : /\ StopOf(s) \in Commands /\ StopOf(s).dest = s /\ StopOf(s).arg = Null
                            /\ StopOf(s).type = "stop" /\ Proper(State, StopOf(s))
                            /\ Live(State, s) /\ own[s].tid = s /\ s \in Sockets
      /\ Stops \in SUBSET Commands /\ IsFiniteSet(Stops)
  BY StopWords
<1>3. sockets \subseteq Boxes /\ sockets \subseteq Slots /\ "reaper" \notin sockets
      /\ "term" \notin sockets /\ Slots \subseteq Boxes /\ {"reaper", "term"} \subseteq Boxes
  BY <1>1, OwnershipAssumption DEF Slots, Boxes
<1>4. \A t \in Boxes : mail'[t] = IF t \in sockets THEN Append(mail[t], StopOf(t)) ELSE mail[t]
  BY <1>1 DEF StopOf, Stopping
<1>5. mail' \in [Boxes -> Seq(Commands)]
  <2>1. \A t \in Boxes : mail'[t] \in Seq(Commands)
    <3> SUFFICES ASSUME NEW t \in Boxes PROVE mail'[t] \in Seq(Commands) OBVIOUS
    <3>1. mail[t] \in Seq(Commands) BY <1>1
    <3>2. t \in sockets => Append(mail[t], StopOf(t)) \in Seq(Commands) BY <1>2, <3>1
    <3> QED BY <1>4, <3>1, <3>2
  <2>2. DOMAIN mail' = Boxes /\ mail' = [t \in DOMAIN mail' |-> mail'[t]] BY <1>1 DEF Stopping
  <2> QED BY <2>1, <2>2
<1>6. State' \in States BY <1>1, <1>5 DEF State, States
<1>7. State'.own = own' /\ State'.mail = mail' /\ State'.pipes = pipes' /\ State'.failed = failed'
  BY DEF State
<1> DEFINE r == State
           r2 == State'
<1>8. /\ r2 \in States /\ r2.own = r.own /\ r2.pipes = r.pipes /\ ~r2.failed /\ r2.mail = mail'
      /\ r.mail = mail /\ r.own = own
  BY <1>1, <1>6, <1>7, StateParts
<1>9. Good(r, {}) /\ Busy(r) BY DEF IInv
<1>10. \A s \in sockets : Proper(r, StopOf(s)) /\ Live(r, s) BY <1>2
<1> HIDE DEF r, r2
<1>11. r \in States /\ Kinds(r) /\ Routed(r) /\ Requests(r) BY <1>9 DEF Good
<1>12. \A p : Live(r2, p) <=> Live(r, p) BY <1>8 DEF Live
<1>13. \A n : Proper(r2, n) <=> Proper(r, n) BY <1>8, <1>12 DEF Proper
<1>14. \A c, p : Child(r2, c, p) <=> Child(r, c, p) BY <1>8, <1>12 DEF Child
<1>15. Good(r, Stops)
  <2>1. Ready(r, Stops) BY <1>10 DEF Ready, Stops
  <2>2. \A m \in Stops : m.type = "stop" BY <1>2 DEF Stops
  <2> HIDE DEF Stops
  <2> DEFINE H == {}
  <2>3. \A m \in (H \cup Stops) \ (H \cap Stops) : m.type \in {"term_req", "stop"} BY <2>2
  <2>4. Good(r, H) BY <1>9
  <2> HIDE DEF H
  <2> QED BY <1>2, <2>1, <2>3, <2>4, LooseHand
<1>16. SameTotals(r, Stops, r2, {})
  <2> SUFFICES ASSUME NEW o \in Actors, NEW S \in SUBSET Commands, \A m \in S : m.dest = o
               PROVE  Total(r2, {}, o, S) = Total(r, Stops, o, S)
    BY DEF SameTotals
  <2>1. Total(r2, {}, o, S) = Count(Box(r2, o), S) + 0
    <3>1. Cardinality({} \cap S) = 0 BY FS_EmptySet
    <3> QED BY <3>1 DEF Total
  <2>2. CASE o \in sockets
    <3> DEFINE q == mail[o]
               m == StopOf(o)
    <3>1. Box(r, o) = q /\ Box(r2, o) = Append(q, m)
      <4>1. Box(r, o) = r.mail[r.own[o].tid] /\ Box(r2, o) = r2.mail[r2.own[o].tid]
        BY <1>10, <1>12, <2>2 DEF Box
      <4>2. r.own[o].tid = o /\ r2.own[o].tid = o BY <1>2, <1>8, <2>2
      <4>3. r2.mail[o] = Append(q, m) BY <1>3, <1>4, <1>8, <2>2
      <4> QED BY <1>8, <4>1, <4>2, <4>3
    <3>2. q \in Seq(Commands) /\ m \in Commands BY <1>1, <1>2, <1>3, <2>2
    <3>3. Count(q, S) \in Nat /\ Count(Append(q, m), S) = Count(q, S) + Bit(m \in S)
      <4> HIDE DEF q, m
      <4>1. Count(q, S) \in Nat BY <3>2, Places
      <4>2. Count(Append(q, m), S) = Count(q, S) + Bit(m \in S) BY <3>2, CountAppend
      <4> QED BY <4>1, <4>2
    <3>4. Cardinality(Stops \cap S) = Bit(m \in S)
      <4>1. \A n \in Stops \cap S : n = m BY <1>2 DEF Stops
      <4>2. m \in Stops BY <2>2 DEF Stops
      <4> HIDE DEF m
      <4>3. CASE m \in S
        <5>1. Stops \cap S = {m} BY <4>1, <4>2, <4>3
        <5>2. Cardinality({m}) = 1 BY FS_Singleton
        <5> QED BY <4>3, <5>1, <5>2 DEF Bit
      <4>4. CASE m \notin S
        <5>1. Stops \cap S = {} BY <4>1, <4>4
        <5>2. Cardinality({}) = 0 BY FS_EmptySet
        <5> QED BY <4>4, <5>1, <5>2 DEF Bit
      <4> QED BY <4>3, <4>4
    <3>5. Total(r, Stops, o, S) = Count(q, S) + Bit(m \in S) BY <3>1, <3>4 DEF Total
    <3> HIDE DEF q, m
    <3>6. Bit(m \in S) \in Nat BY DEF Bit
    <3>7. Total(r2, {}, o, S) = Count(q, S) + Bit(m \in S) BY <2>1, <3>1, <3>3, <3>6
    <3> QED BY <3>5, <3>7
  <2>3. CASE o \notin sockets
    <3>1. Stops \cap S = {} BY <1>2, <2>3 DEF Stops
    <3>2. Cardinality(Stops \cap S) = 0 BY <3>1, FS_EmptySet
    <3>3. Box(r2, o) = Box(r, o)
      <4>1. CASE ~Live(r, o) BY <1>12, <4>1 DEF Box
      <4>2. CASE Live(r, o)
        <5>1. o \in Objects
          <6>1. sockets = {s \in Sockets : own[s].kind = "socket"} BY DEF IInv, Context
          <6>2. o \in Sockets => own[o].kind = "socket" BY <1>8, <1>11, <4>2 DEF Kinds, Live
          <6> QED BY <2>3, <6>1, <6>2 DEF Actors
        <5>2. r.own[o].tid \in IoThreads BY <1>11, <4>2, <5>1 DEF Kinds
        <5>3. r.own[o].tid \notin sockets /\ r.own[o].tid \in Boxes
          BY <1>1, <5>2, OwnershipAssumption DEF Boxes, Slots
        <5> QED BY <1>4, <1>8, <1>12, <4>2, <5>3 DEF Box
      <4> QED BY <4>1, <4>2
    <3> QED BY <2>1, <3>2, <3>3 DEF Total
  <2> QED BY <2>2, <2>3
<1>17. \A t \in Slots : /\ \A i \in DOMAIN r.mail[t] : i \in DOMAIN r2.mail[t] /\ r2.mail[t][i] = r.mail[t][i]
                        /\ \A i \in DOMAIN r2.mail[t] :
                             \/ i \in DOMAIN r.mail[t] /\ r2.mail[t][i] = r.mail[t][i]
                             \/ t \in sockets /\ r2.mail[t][i] = StopOf(t)
  <2> SUFFICES ASSUME NEW t \in Slots
               PROVE  /\ \A i \in DOMAIN mail[t] : i \in DOMAIN mail'[t] /\ mail'[t][i] = mail[t][i]
                      /\ \A i \in DOMAIN mail'[t] : \/ i \in DOMAIN mail[t] /\ mail'[t][i] = mail[t][i]
                                                    \/ t \in sockets /\ mail'[t][i] = StopOf(t)
    BY <1>8
  <2>1. CASE t \notin sockets BY <1>3, <1>4, <2>1
  <2>2. CASE t \in sockets
    <3> DEFINE q == mail[t]
               m == StopOf(t)
    <3>1. mail'[t] = Append(q, m) /\ q \in Seq(Commands) BY <1>1, <1>3, <1>4, <2>2
    <3> HIDE DEF q, m
    <3>2. /\ \A i \in DOMAIN q : i \in DOMAIN Append(q, m) /\ Append(q, m)[i] = q[i]
          /\ \A i \in DOMAIN Append(q, m) : (i \in DOMAIN q /\ Append(q, m)[i] = q[i]) \/ Append(q, m)[i] = m
      BY <3>1
    <3> QED BY <2>2, <3>1, <3>2 DEF q, m
  <2> QED BY <2>1, <2>2
<1>18. Routed(r2)
  <2> SUFFICES ASSUME NEW t \in Slots, NEW i \in DOMAIN r2.mail[t]
               PROVE  Proper(r2, r2.mail[t][i]) /\ r2.own[r2.mail[t][i].dest].tid = t
    BY DEF Routed
  <2>1. CASE i \in DOMAIN r.mail[t] /\ r2.mail[t][i] = r.mail[t][i]
    BY <1>8, <1>11, <1>13, <2>1 DEF Routed
  <2>2. CASE t \in sockets /\ r2.mail[t][i] = StopOf(t) BY <1>2, <1>8, <1>10, <1>13, <2>2
  <2> QED BY <1>17, <2>1, <2>2
<1>19. Requests(r2)
  <2> SUFFICES ASSUME NEW t \in Slots, NEW i \in DOMAIN r2.mail[t], NEW m, m = r2.mail[t][i],
                      m.type = "term_req"
               PROVE  \/ Child(r2, m.arg, m.dest)
                      \/ \E j \in DOMAIN r2.mail[t] : i < j /\ r2.mail[t][j] = Ack(m.dest)
    BY DEF Requests
  <2>1. i \in DOMAIN r.mail[t] /\ m = r.mail[t][i] BY <1>2, <1>17
  <2>2. \/ Child(r, m.arg, m.dest)
        \/ \E j \in DOMAIN r.mail[t] : i < j /\ r.mail[t][j] = Ack(m.dest)
    BY <1>11, <2>1 DEF Requests
  <2> QED BY <1>14, <1>17, <2>2
<1>20. Good(r2, {})
  <2>1. Ready(r2, {}) BY DEF Ready
  <2> DEFINE H == {}
  <2>2. H \in SUBSET Commands /\ IsFiniteSet(H) /\ Ready(r2, H) /\ SameTotals(r, Stops, r2, H)
    BY <1>16, <2>1, FS_EmptySet
  <2> HIDE DEF H
  <2>3. Good(r2, H) BY <1>8, <1>15, <1>18, <1>19, <2>2, Alike
  <2> QED BY <2>3 DEF H
<1>21. Busy(r2) BY <1>8, <1>9 DEF Busy, Waits
<1>22. mail'["reaper"] = mail["reaper"] /\ mail'["term"] = mail["term"] BY <1>3, <1>4
<1> QED BY <1>20, <1>21, <1>22 DEF r2

\* The parts of the context that a step which sends stop leaves alone.
LEMMA StopContext ==
  ASSUME IInv, own' = own, sockets' = sockets, closed' = closed, reaper' = reaper,
         terminating' = TRUE, term = "idle", term' \in {"idle", "waiting"},
         mail'["term"] = mail["term"],
         \A i \in DOMAIN mail'["reaper"] : mail'["reaper"][i] \in Words(sockets),
         \A s \in sockets : Count(mail'["reaper"], {Reap(s)}) = Count(mail["reaper"], {Reap(s)}),
         Count(mail'["reaper"], {ReapedCmd}) = Count(mail["reaper"], {ReapedCmd}),
         Count(mail'["reaper"], {StopCmd}) + Bit(reaper.terminating) = Bit(sockets = {})
  PROVE  Context'
<1>1. Reaping' = Reaping BY DEF Reaping
<1>2. /\ sockets' = {u \in Sockets : own'[u].kind = "socket"}
      /\ closed' \subseteq Sockets /\ \A u \in closed' : own'[u].kind # "unborn"
      /\ \A u \in Sockets : own'[u].reaping => u \in closed' /\ own'[u].terminating
  BY DEF IInv, Context
<1>3. /\ \A i \in DOMAIN mail'["reaper"] :
           mail'["reaper"][i] \in {Reap(u) : u \in sockets'} \cup {ReapedCmd, StopCmd}
      /\ \A u \in sockets' :
           Count(mail'["reaper"], {Reap(u)}) = Bit(u \in closed' /\ ~own'[u].reaping)
  BY DEF IInv, Context, Words
<1>4. /\ reaper' \in [sockets : Nat, terminating : BOOLEAN, stopped : BOOLEAN]
      /\ reaper'.sockets = Cardinality(Reaping') + Count(mail'["reaper"], {ReapedCmd})
  BY <1>1 DEF IInv, Context
<1>5. Bit(terminating' /\ sockets' = {}) = Bit(sockets = {}) BY DEF Bit
<1>6. Count(mail'["reaper"], {StopCmd}) + Bit(reaper'.terminating) = Bit(terminating' /\ sockets' = {})
  BY <1>5
<1>7. Bit(term' = "deleted") = Bit(term = "deleted") BY DEF Bit
<1>8. /\ Len(mail'["term"]) + Bit(term' = "deleted") = Bit(reaper'.terminating /\ reaper'.sockets = 0)
      /\ term' \in {"idle", "waiting", "deleted"} /\ terminating' \in BOOLEAN
      /\ term' # "idle" => terminating'
  BY <1>7 DEF IInv, Context
<1> QED BY <1>2, <1>3, <1>4, <1>6, <1>8 DEF Context, StopCmd, ReapedCmd, Reap, Reaping

\* ctx_t::shutdown, and ctx_t::terminate before it waits.
LEMMA StopAllInv ==
  ASSUME IInv, StopAll, term = "idle", term' \in {"idle", "waiting"}
  PROVE  IInv'
<1> DEFINE Q == mail["reaper"]
<1>1. /\ own' = own /\ sockets' = sockets /\ closed' = closed /\ reaper' = reaper /\ pipes' = pipes
      /\ terminating' = TRUE /\ failed' = failed
  BY DEF StopAll
<1>2. \A i \in DOMAIN Q : Q[i] \in Words(sockets) BY DEF IInv, Context, Words
<1>3. Count(Q, {StopCmd}) + Bit(reaper.terminating) = Bit(terminating /\ sockets = {})
  BY DEF IInv, Context
<1>4. terminating \in BOOLEAN /\ Q \in Seq(Commands) /\ sockets \in SUBSET Sockets /\ failed = FALSE
  BY Sorts DEF IInv, Context
<1>5. CASE terminating
  <2>1. mail' = mail BY <1>5 DEF StopAll
  <2>2. State' = State BY <1>1, <2>1 DEF State
  <2>3. Good(State', {}) /\ Busy(State') BY <2>2 DEF IInv
  <2>4. Bit(terminating /\ sockets = {}) = Bit(sockets = {}) BY <1>5 DEF Bit
  <2>5. Context' BY <1>1, <1>2, <1>3, <2>1, <2>4, StopContext
  <2> QED BY <2>3, <2>5 DEF IInv
<1>6. CASE ~terminating /\ sockets = {}
  <2> DEFINE q == Append(Q, StopCmd)
  <2>1. mail' = [mail EXCEPT !["reaper"] = q] BY <1>6 DEF StopAll, ToReaper, StopCmd
  <2>2. More(sockets, Q, StopCmd, q)
    <3> DEFINE m == StopCmd
    <3>1. m \in Words(sockets) /\ q = Append(Q, m) BY DEF Words
    <3> HIDE DEF q, m, Q
    <3>2. More(sockets, Q, m, q) BY <1>2, <1>4, <3>1, ReaperAppend
    <3> QED BY <3>2 DEF m
  <2> HIDE DEF q, Q
  <2>3. q \in Seq(Commands) /\ (\A i \in DOMAIN q : q[i] \in Words(sockets)) BY <2>2 DEF More
  <2>4. "reaper" \in {"reaper", "term"} OBVIOUS
  <2>5. /\ Good(State', {}) /\ Busy(State') /\ mail'["reaper"] = q
        /\ \A d \in Boxes : d # "reaper" => mail'[d] = mail[d]
    BY <1>1, <1>4, <2>1, <2>3, <2>4, OutsideInv
  <2>6. mail'["term"] = mail["term"] BY <2>5 DEF Boxes
  <2>7. /\ Count(q, {ReapedCmd}) = Count(Q, {ReapedCmd}) + Bit(StopCmd = ReapedCmd)
        /\ Count(q, {StopCmd}) = Count(Q, {StopCmd}) + Bit(StopCmd = StopCmd)
        /\ Count(Q, {ReapedCmd}) \in Nat /\ Count(Q, {StopCmd}) \in Nat
    BY <2>2 DEF More
  <2>8. Bit(StopCmd = ReapedCmd) = 0 /\ Bit(StopCmd = StopCmd) = 1 BY ReaperWords DEF Bit
  <2>9. Bit(terminating /\ sockets = {}) = 0 /\ Bit(sockets = {}) = 1 BY <1>6 DEF Bit
  <2>10. Bit(reaper.terminating) \in Nat BY DEF Bit
  <2>11. Count(q, {StopCmd}) + Bit(reaper.terminating) = Bit(sockets = {})
    BY <1>3, <2>7, <2>8, <2>9, <2>10
  <2>12. Count(mail'["reaper"], {ReapedCmd}) = Count(mail["reaper"], {ReapedCmd})
    BY <2>5, <2>7, <2>8 DEF Q
  <2>13. \A s \in sockets : Count(mail'["reaper"], {Reap(s)}) = Count(mail["reaper"], {Reap(s)})
    BY <1>6
  <2>14. Context' BY <1>1, <2>3, <2>5, <2>6, <2>11, <2>12, <2>13, StopContext
  <2> QED BY <2>5, <2>14 DEF IInv
<1>7. CASE ~terminating /\ sockets # {}
  <2>1. Stopping BY <1>7 DEF StopAll, Stopping
  <2>2. /\ Good(State', {}) /\ Busy(State')
        /\ mail'["reaper"] = mail["reaper"] /\ mail'["term"] = mail["term"]
    BY <1>1, <2>1, StopsSent
  <2>3. Bit(terminating /\ sockets = {}) = 0 /\ Bit(sockets = {}) = 0 BY <1>7 DEF Bit
  <2>4. Context' BY <1>1, <1>2, <1>3, <2>2, <2>3, StopContext
  <2> QED BY <2>2, <2>4 DEF IInv
<1> QED BY <1>4, <1>5, <1>6, <1>7

\* a socket as ctx_t::create_socket makes it
Opening(s, y) ==
    /\ y.kind = "socket" /\ y.tid = s /\ y.owned = {} /\ y.pipes = {} /\ y.sent_seqnum = 0
    /\ y.processed_seqnum = 0 /\ y.term_acks = 0 /\ ~y.terminating /\ ~y.reaping /\ ~y.destroyed
    /\ ~y.pending

\* A new socket changes nothing for the others, and nothing is under way to it.
LEMMA CreateStep ==
  ASSUME NEW r, Good(r, {}), Busy(r), NEW s \in Sockets, r.own[s].kind = "unborn",
         NEW r2, NEW y, Edit(r, r2, s, y), Opening(s, y)
  PROVE  Good(r2, {}) /\ Busy(r2)
<1>1. /\ r \in States /\ ~r.failed /\ Kinds(r) /\ Owners(r) /\ Routed(r) /\ Requests(r)
      /\ Owned(r) /\ Stages(r, {}) /\ Engines(r, {}) /\ Held(r, {}) /\ EndsOK(r) /\ Balanced(r, {})
      /\ Rooms(r)
  BY DEF Good
<1>2. /\ r2 \in States /\ r2.own[s] = y /\ \A p \in Actors : p # s => r2.own[p] = r.own[p]
      /\ r2.mail = r.mail /\ r2.pipes = r.pipes /\ r2.failed = r.failed
  BY DEF Edit
<1>3. s \in Actors /\ s \notin Objects BY OwnershipAssumption DEF Actors
<1>4. \A c \in Objects : c \in Actors /\ c # s /\ r2.own[c] = r.own[c] BY <1>2, <1>3 DEF Actors
<1>5. ~Live(r, s) /\ Live(r2, s) BY <1>2 DEF Live, Opening
<1>6. \A p \in Actors : p # s => (Live(r2, p) <=> Live(r, p)) BY <1>2 DEF Live
<1>7. \A u \in Sockets : u \in Actors BY DEF Actors
<1>8. Kinds(r2)
  <2>1. \A u \in Sockets :
          /\ r2.own[u].kind \in {"unborn", "socket", "deleted"}
          /\ r2.own[u].kind = "socket" => r2.own[u].tid = u
          /\ r2.own[u].terminating => r2.own[u].reaping
    BY <1>1, <1>2, <1>7 DEF Kinds, Opening
  <2>2. \A c \in Objects :
          /\ r2.own[c].kind \in {"unborn", "listener", "session", "connecter", "deleted"}
          /\ Live(r2, c) => r2.own[c].tid \in IoThreads
          /\ r2.own[c].pipes = {} /\ ~r2.own[c].destroyed /\ ~r2.own[c].reaping
    BY <1>1, <1>4, <1>6 DEF Kinds
  <2>3. \A o \in Actors :
          /\ r2.own[o].kind = "unborn" => r2.own[o] = Unborn
          /\ r2.own[o].kind = "deleted" => r2.own[o] = Deleted
          /\ r2.own[o].pending => r2.own[o].kind = "session"
          /\ r2.own[o].terminating => r2.own[o].owned = {}
    BY <1>1, <1>2 DEF Kinds, Opening
  <2> QED BY <2>1, <2>2, <2>3 DEF Kinds
<1>9. \A u : u \in Actors /\ r.own[u].kind \in {"socket", "listener", "session"} =>
             u # s /\ r2.own[u] = r.own[u]
  BY <1>2
<1>10. Owners(r2)
  <2> SUFFICES ASSUME NEW c \in Objects, NEW x, x = r2.own[c]
               PROVE  /\ x.kind = "listener" => x.owner \in Sockets /\ r2.own[x.owner].kind = "socket"
                      /\ x.kind = "connecter" => x.owner \in Objects /\ r2.own[x.owner].kind = "session"
                      /\ x.kind = "session" =>
                           /\ x.socket \in Sockets /\ r2.own[x.socket].kind = "socket"
                           /\ \/ x.owner = x.socket
                              \/ /\ x.owner \in Objects /\ r2.own[x.owner].kind = "listener"
                                 /\ r2.own[x.owner].owner = x.socket
    BY DEF Owners
  <2>1. x = r.own[c] BY <1>4
  <2>2. /\ x.kind = "listener" => x.owner \in Sockets /\ r.own[x.owner].kind = "socket"
        /\ x.kind = "connecter" => x.owner \in Objects /\ r.own[x.owner].kind = "session"
        /\ x.kind = "session" =>
             /\ x.socket \in Sockets /\ r.own[x.socket].kind = "socket"
             /\ \/ x.owner = x.socket
                \/ /\ x.owner \in Objects /\ r.own[x.owner].kind = "listener"
                   /\ r.own[x.owner].owner = x.socket
    BY <1>1, <2>1 DEF Owners
  <2> HIDE DEF Owners
  <2> QED BY <1>4, <1>7, <1>9, <2>2
<1>11. \A c, o : Child(r2, c, o) <=> Child(r, c, o) BY <1>4, <1>6 DEF Child
<1>12. \A c : ~Child(r, c, s)
  <2> SUFFICES ASSUME NEW c, Child(r, c, s) PROVE FALSE OBVIOUS
  <2>1. c \in Objects /\ Live(r, c) /\ r.own[c].owner = s BY DEF Child
  <2>2. Live(r, r.own[c].owner) BY <2>1, OwnerThere
  <2> QED BY <1>5, <2>1, <2>2
<1>13. \A m : Proper(r, m) => Proper(r2, m) /\ m.dest # s /\ r2.own[m.dest] = r.own[m.dest]
  <2> SUFFICES ASSUME NEW m, Proper(r, m)
               PROVE  Proper(r2, m) /\ m.dest # s /\ r2.own[m.dest] = r.own[m.dest]
    OBVIOUS
  <2>1. m.dest \in Actors /\ Live(r, m.dest) /\ m.dest # s BY <1>5 DEF Proper
  <2>2. r2.own[m.dest] = r.own[m.dest] /\ Live(r2, m.dest) BY <1>2, <1>6, <2>1
  <2>3. m.arg \in Objects => r2.own[m.arg] = r.own[m.arg] /\ (Live(r2, m.arg) <=> Live(r, m.arg))
    BY <1>4, <1>6
  <2>4. m.type \in {"plug", "own", "attach", "bind", "term", "term_req", "term_ack", "stop"}
    BY DEF Proper
  <2>5. /\ m.type = "plug" => m.dest \in Objects /\ m.arg = Null
        /\ m.type = "attach" => m.dest \in Objects /\ r2.own[m.dest].kind = "session" /\ m.arg = Null
        /\ m.type = "bind" => m.dest \in Sockets /\ m.arg \in Objects
        /\ m.type = "term" => m.dest \in Objects /\ m.arg = Null
        /\ m.type = "term_req" => m.arg \in Objects
        /\ m.type = "term_ack" => m.arg = Null
        /\ m.type = "stop" => m.dest \in Sockets
    BY <2>2 DEF Proper
  <2>6. m.type = "own" => m.arg \in Objects /\ Live(r2, m.arg) /\ r2.own[m.arg].owner = m.dest
    BY <2>3 DEF Proper
  <2> QED BY <2>1, <2>2, <2>4, <2>5, <2>6 DEF Proper
<1>14. Routed(r2) BY <1>1, <1>2, <1>13 DEF Routed
<1>15. Requests(r2) BY <1>1, <1>2, <1>11 DEF Requests
<1>16. Owned(r2) BY <1>1, <1>2, <1>11 DEF Owned, Opening
<1>17. Stay(r, r2) BY <1>2, <1>5, <1>6 DEF Stay
<1>18. Moved(r, {}, r2, {}) /\ \A o \in Actors : Cnt(r2, {}, o) = Cnt(r, {}, o)
  BY <1>1, <1>2, <1>8, <1>17, Moves
<1>19. /\ \A c \in Objects : /\ Num(r2, {}, Plug(c)) = Num(r, {}, Plug(c))
                             /\ Num(r2, {}, Term(c)) = Num(r, {}, Term(c))
                             /\ Num(r2, {}, Attach(c)) = Num(r, {}, Attach(c))
       /\ \A o \in Actors : Num(r2, {}, Ack(o)) = Num(r, {}, Ack(o))
       /\ \A o \in Actors, c \in Objects : /\ Num(r2, {}, Owns(o, c)) = Num(r, {}, Owns(o, c))
                                           /\ Num(r2, {}, Binds(o, c)) = Num(r, {}, Binds(o, c))
  <2>1. Naturals(r, {}) BY <1>1, AllNaturals, FS_EmptySet
  <2>2. \A m : Bit(m \in {}) = 0 BY DEF Bit
  <2> QED BY <1>18, <2>1, <2>2 DEF Moved, Naturals
<1>20. \A c \in Objects : Live(r, c) => r.own[c].owner \in Actors /\ r.own[c].owner # s
  BY <1>5, OwnerThere
<1>21. Stages(r2, {})
  <2> SUFFICES ASSUME NEW c \in Objects, Live(r2, c)
               PROVE  /\ Num(r2, {}, Plug(c)) + Bit(r2.own[c].plugged) = 1
                      /\ Num(r2, {}, Owns(r2.own[c].owner, c))
                         + Bit(c \in r2.own[r2.own[c].owner].owned) + Num(r2, {}, Term(c))
                         + Bit(r2.own[c].pending) + Bit(r2.own[c].terminating) = 1
    BY DEF Stages
  <2>1. Live(r, c) /\ r2.own[c] = r.own[c] BY <1>4, <1>6
  <2>2. r.own[c].owner \in Actors /\ r2.own[r.own[c].owner] = r.own[r.own[c].owner]
    BY <1>2, <1>20, <2>1
  <2> QED BY <1>1, <1>19, <2>1, <2>2 DEF Stages
<1>22. Engines(r2, {})
  <2>1. \A c : Dials(r2, c) = Dials(r, c) BY <1>4 DEF Dials
  <2> QED BY <1>1, <1>4, <1>19, <2>1 DEF Engines
<1>23. \A p \in Actors : r2.own[p].pipes = r.own[p].pipes
  <2>1. r.own[s].pipes = {} BY <1>1, <1>3 DEF Kinds, Unborn
  <2> QED BY <1>2, <2>1 DEF Opening
<1>24. Held(r2, {}) 
  <2>1. \A u \in Sockets, c \in Objects : Holds(r2, {}, u, c) <=> Holds(r, {}, u, c)
    BY <1>7, <1>19, <1>23 DEF Holds
  <2> QED BY <1>1, <1>2, <1>7, <1>19, <1>23, <2>1 DEF Held
<1>25. EndsOK(r2)
  <2>1. \A u \in Sockets : r2.own[u].reaping => r.own[u].reaping BY <1>2, <1>7 DEF Opening
  <2> QED BY <1>1, <1>2, <1>4, <1>7, <1>23, <2>1 DEF EndsOK
<1>26. \A o \in Actors : o # s => Told(r2, {}, o) = Told(r, {}, o)
  BY <1>2, <1>11, <1>19 DEF Told
<1>27. Balanced(r2, {})
  <2> SUFFICES ASSUME NEW o \in Actors, Live(r2, o), NEW x, x = r2.own[o]
               PROVE  /\ x.sent_seqnum = x.processed_seqnum + Cnt(r2, {}, o)
                      /\ x.term_acks = Num(r2, {}, Ack(o)) + Cardinality(Told(r2, {}, o)) + Left(x)
                      /\ x.destroyed => x.terminating /\ x.sent_seqnum = x.processed_seqnum /\ x.term_acks = 0
    BY DEF Balanced
  <2>1. CASE o # s
    <3>1. x = r.own[o] /\ Live(r, o) BY <1>2, <1>6, <2>1
    <3>2. Cnt(r2, {}, o) = Cnt(r, {}, o) /\ Num(r2, {}, Ack(o)) = Num(r, {}, Ack(o))
          /\ Told(r2, {}, o) = Told(r, {}, o)
      BY <1>18, <1>19, <1>26, <2>1
    <3> QED BY <1>1, <3>1, <3>2 DEF Balanced
  <2>2. CASE o = s
    <3>1. Box(r, s) = << >> BY <1>5 DEF Box
    <3>2. \A S : Count(Box(r, s), S) = 0 BY <3>1, CountEmpty
    <3>3. \A S : Cardinality({} \cap S) = 0 BY FS_EmptySet
    <3>4. Cnt(r, {}, s) = 0 BY <3>2, <3>3 DEF Cnt, Total
    <3>5. Num(r, {}, Ack(s)) = 0
      <4>1. Ack(s).dest = s BY <1>3, VocabularyTypes
      <4> QED BY <3>2, <3>3, <4>1 DEF Num, Total
    <3>6. Told(r2, {}, s) = {} BY <1>11, <1>12 DEF Told
    <3>7. Cardinality(Told(r2, {}, s)) = 0 BY <3>6, FS_EmptySet
    <3>8. Left(x) = 0 /\ x.sent_seqnum = 0 /\ x.processed_seqnum = 0 /\ x.term_acks = 0 /\ ~x.destroyed
      BY <1>2, <2>2 DEF Opening, Left
    <3>9. Cnt(r2, {}, o) = 0 /\ Num(r2, {}, Ack(o)) = 0 BY <1>18, <1>19, <2>2, <3>4, <3>5
    <3> QED BY <2>2, <3>7, <3>8, <3>9
  <2> QED BY <2>1, <2>2
<1>28. Rooms(r2)
  <2>1. Unused(r2) = Unused(r) /\ Dialling(r2) = Dialling(r) BY <1>4 DEF Unused, Dialling
  <2> QED BY <1>1, <2>1 DEF Rooms
<1>29. Busy(r2) BY <1>2 DEF Busy, Waits, Opening
<1>30. Ready(r2, {}) BY DEF Ready
<1> QED BY <1>1, <1>2, <1>8, <1>10, <1>14, <1>15, <1>16, <1>21, <1>22, <1>24, <1>25, <1>27, <1>28,
           <1>29, <1>30, FS_EmptySet DEF Good

\* ctx_t::create_socket.
LEMMA CreateSocketInv ==
  ASSUME IInv, NEW s \in Sockets, CreateSocket(s)
  PROVE  IInv'
<1> DEFINE y == Socket(s)
           r == State
           r2 == State'
           Q == mail["reaper"]
<1>1. /\ own[s] = Unborn /\ ~terminating /\ own' = [own EXCEPT ![s] = y] /\ sockets' = sockets \cup {s}
      /\ mail' = mail /\ pipes' = pipes /\ failed' = failed /\ terminating' = terminating
      /\ term' = term /\ reaper' = reaper /\ closed' = closed
  BY DEF CreateSocket
<1>2. /\ State \in States /\ own \in [Actors -> Object] /\ mail \in [Boxes -> Seq(Commands)]
      /\ pipes \in [Objects -> PipeState] /\ failed = FALSE /\ sockets \subseteq Sockets
      /\ Q \in Seq(Commands)
  BY Sorts
<1>3. s \in Actors /\ s \in Slots BY DEF Actors, Slots
<1>4. /\ y.kind = "socket" /\ y.tid = s /\ y.owned = {} /\ y.pipes = {} /\ y.sent_seqnum = 0
      /\ y.processed_seqnum = 0 /\ y.term_acks = 0 /\ ~y.terminating /\ ~y.reaping /\ ~y.destroyed
      /\ ~y.pending
  BY DEF Socket, Own, Unborn
<1>5. y \in Object
  <2>1. Unborn \in Object BY DEF Unborn, Object, Null
  <2>2. s \in Slots \cup {Null} /\ Null \in Actors \cup {Null} BY <1>3
  <2>3. \A x \in Object : [x EXCEPT !.kind = "socket", !.tid = s, !.owner = Null] \in Object
    BY <2>2, ZenonT(20) DEF Object
  <2> QED BY <2>1, <2>3 DEF Socket, Own
<1>6. Opening(s, y) BY <1>4 DEF Opening
<1> HIDE DEF y
<1>7. own' \in [Actors -> Object] /\ own'[s] = y /\ \A p \in Actors : p # s => own'[p] = own[p]
  BY <1>1, <1>2, <1>3, <1>5
<1>8. State' \in States BY <1>1, <1>2, <1>7 DEF State, States
<1>9. State'.own = own' /\ State'.mail = mail' /\ State'.pipes = pipes' /\ State'.failed = failed'
  BY DEF State
<1>10. Edit(r, r2, s, y) BY <1>1, <1>7, <1>8, <1>9, StateParts DEF Edit
<1>11. r.own[s].kind = "unborn" BY <1>1, StateParts DEF Unborn
<1>12. Good(r, {}) /\ Busy(r) BY DEF IInv
<1> HIDE DEF r, r2
<1>13. Good(r2, {}) /\ Busy(r2) BY <1>6, <1>10, <1>11, <1>12, CreateStep
<1>14. Good(State', {}) /\ Busy(State') BY <1>13 DEF r2
<1>15. own[s].kind = "unborn" /\ ~own[s].reaping BY <1>1 DEF Unborn
<1>16. own'[s].kind = "socket" /\ ~own'[s].reaping BY <1>4, <1>7
<1>17. \A u \in Sockets : u \in Actors BY DEF Actors
<1>18. s \notin sockets /\ s \notin closed BY <1>15 DEF IInv, Context
<1>19. Count(Q, {Reap(s)}) = 0
  <2>1. \A i \in DOMAIN Q : Q[i] \in {Reap(u) : u \in sockets} \cup {ReapedCmd, StopCmd}
    BY DEF IInv, Context
  <2>2. \A i \in DOMAIN Q : Q[i] \notin {Reap(s)} BY <1>2, <1>18, <2>1, ReaperWords
  <2> HIDE DEF Q
  <2> QED BY <1>2, <2>2, Places
<1>20. Reaping' = Reaping BY <1>1, <1>2, <1>7, <1>16, <1>17, <1>18 DEF Reaping
<1>21. /\ sockets' = {u \in Sockets : own'[u].kind = "socket"}
       /\ closed' \subseteq Sockets /\ \A u \in closed' : own'[u].kind # "unborn"
       /\ \A u \in Sockets : own'[u].reaping => u \in closed' /\ own'[u].terminating
  <2>1. \A u \in Sockets : u # s => own'[u] = own[u] BY <1>7, <1>17
  <2>2. /\ sockets = {u \in Sockets : own[u].kind = "socket"}
        /\ closed \subseteq Sockets /\ \A u \in closed : own[u].kind # "unborn"
        /\ \A u \in Sockets : own[u].reaping => u \in closed /\ own[u].terminating
    BY DEF IInv, Context
  <2>3. sockets' = {u \in Sockets : own'[u].kind = "socket"} BY <1>1, <1>16, <2>1, <2>2
  <2>4. \A u \in closed' : own'[u].kind # "unborn" BY <1>1, <1>18, <2>1, <2>2
  <2> QED BY <1>1, <1>16, <2>1, <2>2, <2>3, <2>4
<1>22. \A i \in DOMAIN mail'["reaper"] :
         mail'["reaper"][i] \in {Reap(u) : u \in sockets'} \cup {ReapedCmd, StopCmd}
  BY <1>1 DEF IInv, Context
<1>23. \A u \in sockets' : Count(mail'["reaper"], {Reap(u)}) = Bit(u \in closed' /\ ~own'[u].reaping)
  <2> SUFFICES ASSUME NEW u \in sockets'
               PROVE  Count(Q, {Reap(u)}) = Bit(u \in closed /\ ~own'[u].reaping)
    BY <1>1
  <2>1. CASE u = s BY <1>18, <1>19, <2>1 DEF Bit
  <2>2. CASE u # s
    <3>1. u \in sockets /\ own'[u] = own[u] BY <1>1, <1>2, <1>7, <1>17, <2>2
    <3> QED BY <3>1 DEF IInv, Context
  <2> QED BY <2>1, <2>2
<1>24. /\ reaper' \in [sockets : Nat, terminating : BOOLEAN, stopped : BOOLEAN]
       /\ reaper'.sockets = Cardinality(Reaping') + Count(mail'["reaper"], {ReapedCmd})
       /\ Len(mail'["term"]) + Bit(term' = "deleted") = Bit(reaper'.terminating /\ reaper'.sockets = 0)
       /\ term' \in {"idle", "waiting", "deleted"} /\ terminating' \in BOOLEAN
       /\ term' # "idle" => terminating'
  BY <1>1, <1>20 DEF IInv, Context
<1>25. Count(mail'["reaper"], {StopCmd}) + Bit(reaper'.terminating) = Bit(terminating' /\ sockets' = {})
  <2>1. Count(Q, {StopCmd}) + Bit(reaper.terminating) = Bit(terminating /\ sockets = {})
    BY DEF IInv, Context
  <2>2. Bit(terminating /\ sockets = {}) = 0 /\ Bit(terminating' /\ sockets' = {}) = 0
    BY <1>1 DEF Bit
  <2> QED BY <1>1, <2>1, <2>2
<1>26. Context'
  BY <1>21, <1>22, <1>23, <1>24, <1>25 DEF Context, StopCmd, ReapedCmd, Reap, Reaping
<1> QED BY <1>14, <1>26 DEF IInv

\* A socket that check_destroy finds destroyed has no children and no pipes, and all that
\* may be left in its mailbox is stop.
LEMMA SocketOver ==
  ASSUME NEW r, Good(r, {}), NEW s \in Sockets, Live(r, s), r.own[s].reaping, r.own[s].destroyed
  PROVE  /\ \A c : ~Child(r, c, s)
         /\ \A c \in Objects : r.own[c].kind = "session" => r.own[c].socket # s
         /\ r.own[s].owned = {} /\ r.own[s].pipes = {}
         /\ Cnt(r, {}, s) = 0 /\ Num(r, {}, Ack(s)) = 0
         /\ \A c \in Objects : Num(r, {}, Owns(s, c)) = 0 /\ Num(r, {}, Binds(s, c)) = 0
         /\ \A i \in DOMAIN r.mail[s] : r.mail[s][i].type = "stop"
         /\ \A t \in Slots : t # s => \A i \in DOMAIN r.mail[t] : r.mail[t][i].dest # s
<1>1. /\ r \in States /\ Kinds(r) /\ Routed(r) /\ Requests(r) /\ Owners(r) /\ Balanced(r, {})
      /\ s \in Actors /\ s \in Slots /\ s \notin Objects /\ IsFiniteSet({}) /\ Objects \subseteq Actors
  BY OwnershipAssumption DEF Good, Actors, Slots
<1>2. r.own[s].terminating /\ r.own[s].sent_seqnum = r.own[s].processed_seqnum /\ r.own[s].term_acks = 0
  BY <1>1 DEF Balanced
<1>3. r.own[s].owned = {} /\ r.own[s].kind = "socket" /\ r.own[s].tid = s BY <1>1, <1>2 DEF Kinds, Live
<1>4. /\ \A c : ~Child(r, c, s)
      /\ Cnt(r, {}, s) = 0 /\ Num(r, {}, Ack(s)) = 0 /\ Left(r.own[s]) = 0
  BY <1>1, <1>2, <1>3, Childless
<1>5. r.own[s].pipes = {}
  <2>1. Cardinality(r.own[s].pipes) = 0 BY <1>4 DEF Left
  <2>2. IsFiniteSet(r.own[s].pipes) BY <1>1, LeftNat
  <2> QED BY <2>1, <2>2, FS_EmptySet
<1>6. \A c \in Objects : r.own[c].kind = "session" => r.own[c].socket # s
  <2> SUFFICES ASSUME NEW c \in Objects, r.own[c].kind = "session", r.own[c].socket = s PROVE FALSE
    OBVIOUS
  <2>1. Live(r, c) BY DEF Live
  <2>2. r.own[c].owner # s BY <1>4, <2>1 DEF Child
  <2>3. /\ r.own[c].owner \in Objects /\ r.own[r.own[c].owner].kind = "listener"
        /\ r.own[r.own[c].owner].owner = s
    BY <1>1, <2>2 DEF Owners
  <2>4. Child(r, r.own[c].owner, s) BY <2>3 DEF Child, Live
  <2> QED BY <1>4, <2>4
<1>7. \A c \in Objects : Num(r, {}, Owns(s, c)) = 0 /\ Num(r, {}, Binds(s, c)) = 0
  <2> SUFFICES ASSUME NEW c \in Objects PROVE Num(r, {}, Owns(s, c)) = 0 /\ Num(r, {}, Binds(s, c)) = 0
    OBVIOUS
  <2>1. /\ Owns(s, c) \in Commands /\ Owns(s, c) \in Counted(s)
        /\ Binds(s, c) \in Commands /\ Binds(s, c) \in Counted(s)
    BY <1>1, VocabularyTypes, VocabularyCounted
  <2> QED BY <1>1, <1>4, <2>1, CntCovers
<1>8. ASSUME NEW m \in Commands, m.dest = s, Num(r, {}, m) = 0,
             NEW i \in DOMAIN r.mail[s], r.mail[s][i] = m
      PROVE  FALSE
  <2> DEFINE q == Box(r, s)
  <2>1. q = r.mail[s] /\ q \in Seq(Commands) BY <1>1, <1>3, BoxType
  <2>2. i \in DOMAIN q /\ q[i] \in {m} BY <1>8, <2>1
  <2>3. Num(r, {}, m) = Count(q, {m}) + Bit(m \in {}) BY <1>8, NumHand
  <2> HIDE DEF q
  <2>4. Count(q, {m}) \in Nat /\ (Count(q, {m}) = 0 <=> \A k \in DOMAIN q : q[k] \notin {m})
    BY <2>1, Places
  <2> QED BY <1>8, <2>2, <2>3, <2>4 DEF Bit
<1>9. \A t \in Slots : \A i \in DOMAIN r.mail[t] :
        /\ r.mail[t][i] \in Commands /\ Proper(r, r.mail[t][i]) /\ r.own[r.mail[t][i].dest].tid = t
  <2> SUFFICES ASSUME NEW t \in Slots, NEW i \in DOMAIN r.mail[t]
               PROVE  /\ r.mail[t][i] \in Commands /\ Proper(r, r.mail[t][i])
                      /\ r.own[r.mail[t][i].dest].tid = t
    OBVIOUS
  <2>1. r.mail[t] \in Seq(Commands) BY <1>1 DEF States, Boxes
  <2> QED BY <1>1, <2>1 DEF Routed
<1>10. \A t \in Slots : t # s => \A i \in DOMAIN r.mail[t] : r.mail[t][i].dest # s
  BY <1>3, <1>9
<1>11. ASSUME NEW i \in DOMAIN r.mail[s] PROVE r.mail[s][i].type = "stop"
  <2> DEFINE m == r.mail[s][i]
  <2>1. m \in Commands /\ Proper(r, m) /\ r.own[m.dest].tid = s BY <1>1, <1>9
  <2>2. m.dest = s
    <3> HIDE DEF m
    <3>1. m.dest \in Actors /\ Live(r, m.dest) BY <2>1 DEF Proper
    <3>2. m.dest \notin Objects
      <4>1. m.dest \in Objects => r.own[m.dest].tid \in IoThreads BY <1>1, <3>1 DEF Kinds
      <4> QED BY <2>1, <4>1, OwnershipAssumption
    <3>3. m.dest \in Sockets /\ r.own[m.dest].kind = "socket" BY <1>1, <3>1, <3>2 DEF Kinds, Live, Actors
    <3> QED BY <1>1, <2>1, <3>3 DEF Kinds
  <2>3. m = Cmd(m.type, m.dest, m.arg)
    <3> HIDE DEF m
    <3> QED BY <2>1, Parts
  <2>4. m.type \notin {"plug", "own", "attach", "bind"}
    <3> SUFFICES ASSUME m.type \in {"plug", "own", "attach", "bind"} PROVE FALSE OBVIOUS
    <3>1. m \in Counted(s) BY <2>1, <2>2 DEF Counted
    <3>2. Num(r, {}, m) = 0 BY <1>1, <1>4, <2>1, <3>1, CntCovers
    <3> QED BY <1>8, <2>1, <2>2, <3>2
  <2>5. ASSUME NEW j \in DOMAIN r.mail[s], r.mail[s][j] = Ack(s) PROVE FALSE
    <3>1. Ack(s) \in Commands /\ Ack(s).dest = s BY <1>1, VocabularyTypes
    <3> QED BY <1>4, <1>8, <2>5, <3>1
  <2>6. m.type # "term_ack"
    <3>1. m.type = "term_ack" => m = Ack(s) BY <2>1, <2>2, <2>3 DEF Proper, Ack
    <3> QED BY <2>5, <3>1
  <2>7. m.type # "term_req"
    <3> SUFFICES ASSUME m.type = "term_req" PROVE FALSE OBVIOUS
    <3>1. Child(r, m.arg, m.dest) \/ \E j \in DOMAIN r.mail[s] : i < j /\ r.mail[s][j] = Ack(m.dest)
      BY <1>1 DEF Requests
    <3> HIDE DEF m
    <3> QED BY <1>4, <2>2, <2>5, <3>1
  <2>8. m.type # "term" BY <1>1, <2>1, <2>2 DEF Proper
  <2> HIDE DEF m
  <2>9. m.type = "stop" BY <2>1, <2>4, <2>6, <2>7, <2>8 DEF Proper
  <2> QED BY <2>9 DEF m
<1> QED BY <1>3, <1>4, <1>5, <1>6, <1>7, <1>10, <1>11

\* the socket and its mailbox are gone
Erased(r, r2, s) ==
    /\ r2 \in States /\ r2.own[s] = Deleted /\ \A p \in Actors : p # s => r2.own[p] = r.own[p]
    /\ r2.mail[s] = << >> /\ \A t \in Slots : t # s => r2.mail[t] = r.mail[t]
    /\ r2.pipes = r.pipes /\ ~r2.failed

\* Nothing that is under way is lost with the mailbox of a destroyed socket.
LEMMA ErasedTotals ==
  ASSUME NEW r, Good(r, {}), NEW s \in Sockets, Live(r, s), r.own[s].reaping, r.own[s].destroyed,
         NEW r2, Erased(r, r2, s)
  PROVE  /\ \A c \in Objects : /\ Num(r2, {}, Plug(c)) = Num(r, {}, Plug(c))
                               /\ Num(r2, {}, Term(c)) = Num(r, {}, Term(c))
                               /\ Num(r2, {}, Attach(c)) = Num(r, {}, Attach(c))
         /\ \A o \in Actors : Num(r2, {}, Ack(o)) = Num(r, {}, Ack(o))
         /\ \A o \in Actors, c \in Objects : /\ Num(r2, {}, Owns(o, c)) = Num(r, {}, Owns(o, c))
                                             /\ Num(r2, {}, Binds(o, c)) = Num(r, {}, Binds(o, c))
         /\ \A o \in Actors : Cnt(r2, {}, o) = Cnt(r, {}, o)
<1>1. /\ Kinds(r) /\ s \in Actors /\ s \notin Objects /\ Objects \subseteq Actors
  BY OwnershipAssumption DEF Good, Actors
<1>2. /\ r2.own[s] = Deleted /\ (\A p \in Actors : p # s => r2.own[p] = r.own[p])
      /\ r2.mail[s] = << >> /\ \A t \in Slots : t # s => r2.mail[t] = r.mail[t]
  BY DEF Erased
<1>3. ~Live(r2, s) BY <1>2 DEF Live, Deleted
<1>4. \A S : Count(Box(r2, s), S) = 0 /\ Cardinality({} \cap S) = 0
  BY <1>3, CountEmpty, FS_EmptySet DEF Box
<1>5. \A o \in Actors : o # s => Box(r2, o) = Box(r, o)
  <2> SUFFICES ASSUME NEW o \in Actors, o # s PROVE Box(r2, o) = Box(r, o) OBVIOUS
  <2>1. r2.own[o] = r.own[o] /\ (Live(r2, o) <=> Live(r, o)) BY <1>2 DEF Live
  <2>2. Live(r, o) => r.own[o].tid \in Slots /\ r.own[o].tid # s
    <3>1. o \in Sockets /\ Live(r, o) => r.own[o].tid = o BY <1>1 DEF Kinds, Live
    <3>2. o \in Objects /\ Live(r, o) => r.own[o].tid \in IoThreads BY <1>1 DEF Kinds
    <3> QED BY <3>1, <3>2, OwnershipAssumption DEF Actors, Slots
  <2> QED BY <1>2, <2>1, <2>2 DEF Box
<1>6. \A o \in Actors : \A S : o # s => Total(r2, {}, o, S) = Total(r, {}, o, S)
  BY <1>5 DEF Total
<1>7. \A S : Total(r2, {}, s, S) = 0 BY <1>4 DEF Total
<1>8. /\ Cnt(r, {}, s) = 0 /\ Num(r, {}, Ack(s)) = 0
      /\ \A c \in Objects : Num(r, {}, Owns(s, c)) = 0 /\ Num(r, {}, Binds(s, c)) = 0
  BY SocketOver
<1>9. \A m : m.dest \in Actors /\ m.dest # s => Num(r2, {}, m) = Num(r, {}, m) BY <1>6 DEF Num
<1>10. \A m : m.dest = s => Num(r2, {}, m) = 0 BY <1>7 DEF Num
<1>11. \A c \in Objects : /\ Num(r2, {}, Plug(c)) = Num(r, {}, Plug(c))
                          /\ Num(r2, {}, Term(c)) = Num(r, {}, Term(c))
                          /\ Num(r2, {}, Attach(c)) = Num(r, {}, Attach(c))
  BY <1>1, <1>9, VocabularyTypes
<1>12. \A o \in Actors : Num(r2, {}, Ack(o)) = Num(r, {}, Ack(o))
  <2> SUFFICES ASSUME NEW o \in Actors PROVE Num(r2, {}, Ack(o)) = Num(r, {}, Ack(o)) OBVIOUS
  <2>1. Ack(o).dest = o BY VocabularyTypes
  <2> QED BY <1>8, <1>9, <1>10, <2>1
<1>13. \A o \in Actors, c \in Objects : /\ Num(r2, {}, Owns(o, c)) = Num(r, {}, Owns(o, c))
                                        /\ Num(r2, {}, Binds(o, c)) = Num(r, {}, Binds(o, c))
  <2> SUFFICES ASSUME NEW o \in Actors, NEW c \in Objects
               PROVE  /\ Num(r2, {}, Owns(o, c)) = Num(r, {}, Owns(o, c))
                      /\ Num(r2, {}, Binds(o, c)) = Num(r, {}, Binds(o, c))
    OBVIOUS
  <2>1. Owns(o, c).dest = o /\ Binds(o, c).dest = o BY VocabularyTypes
  <2>2. CASE o = s BY <1>8, <1>10, <2>1, <2>2
  <2>3. CASE o # s BY <1>9, <2>1, <2>3
  <2> QED BY <2>2, <2>3
<1>14. \A o \in Actors : Cnt(r2, {}, o) = Cnt(r, {}, o) BY <1>6, <1>7, <1>8 DEF Cnt
<1> QED BY <1>11, <1>12, <1>13, <1>14

\* socket_base_t::check_destroy: nobody misses the socket that is deleted.
LEMMA EraseStep ==
  ASSUME NEW r, Good(r, {}), Busy(r), NEW s \in Sockets, Live(r, s), r.own[s].reaping,
         r.own[s].destroyed, NEW r2, Erased(r, r2, s)
  PROVE  Good(r2, {}) /\ Busy(r2)
<1>1. /\ r \in States /\ ~r.failed /\ Kinds(r) /\ Owners(r) /\ Routed(r) /\ Requests(r)
      /\ Owned(r) /\ Stages(r, {}) /\ Engines(r, {}) /\ Held(r, {}) /\ EndsOK(r) /\ Balanced(r, {})
      /\ Rooms(r)
  BY DEF Good
<1>2. /\ r2 \in States /\ r2.own[s] = Deleted /\ (\A p \in Actors : p # s => r2.own[p] = r.own[p])
      /\ r2.mail[s] = << >> /\ (\A t \in Slots : t # s => r2.mail[t] = r.mail[t])
      /\ r2.pipes = r.pipes /\ ~r2.failed
  BY DEF Erased
<1>3. s \in Actors /\ s \notin Objects BY OwnershipAssumption DEF Actors
<1>4. \A c \in Objects : c \in Actors /\ c # s /\ r2.own[c] = r.own[c] BY <1>2, <1>3 DEF Actors
<1>5. /\ r2.own[s].kind = "deleted" /\ ~r2.own[s].terminating /\ ~r2.own[s].reaping
      /\ ~r2.own[s].pending /\ r2.own[s].owned = {} /\ r2.own[s].pipes = {}
  BY <1>2 DEF Deleted, Unborn
<1>6. ~Live(r2, s) /\ \A p \in Actors : p # s => (Live(r2, p) <=> Live(r, p)) BY <1>2, <1>5 DEF Live
<1>7. \A u \in Sockets : u \in Actors BY DEF Actors
<1>8. /\ \A c : ~Child(r, c, s)
      /\ \A c \in Objects : r.own[c].kind = "session" => r.own[c].socket # s
      /\ r.own[s].pipes = {}
      /\ \A t \in Slots : t # s => \A i \in DOMAIN r.mail[t] : r.mail[t][i].dest # s
  BY SocketOver
<1>9. Kinds(r2)
  <2>1. \A u \in Sockets :
          /\ r2.own[u].kind \in {"unborn", "socket", "deleted"}
          /\ r2.own[u].kind = "socket" => r2.own[u].tid = u
          /\ r2.own[u].terminating => r2.own[u].reaping
    BY <1>1, <1>2, <1>5, <1>7 DEF Kinds
  <2>2. \A c \in Objects :
          /\ r2.own[c].kind \in {"unborn", "listener", "session", "connecter", "deleted"}
          /\ Live(r2, c) => r2.own[c].tid \in IoThreads
          /\ r2.own[c].pipes = {} /\ ~r2.own[c].destroyed /\ ~r2.own[c].reaping
    BY <1>1, <1>4, <1>6 DEF Kinds
  <2>3. \A o \in Actors :
          /\ r2.own[o].kind = "unborn" => r2.own[o] = Unborn
          /\ r2.own[o].kind = "deleted" => r2.own[o] = Deleted
          /\ r2.own[o].pending => r2.own[o].kind = "session"
          /\ r2.own[o].terminating => r2.own[o].owned = {}
    BY <1>1, <1>2, <1>5 DEF Kinds
  <2> QED BY <2>1, <2>2, <2>3 DEF Kinds
<1>10. \A c \in Objects : Live(r, c) => r.own[c].owner \in Actors /\ r.own[c].owner # s
  BY <1>8, OwnerThere DEF Child
<1>11. Owners(r2)
  <2> SUFFICES ASSUME NEW c \in Objects, NEW x, x = r2.own[c]
               PROVE  /\ x.kind = "listener" => x.owner \in Sockets /\ r2.own[x.owner].kind = "socket"
                      /\ x.kind = "connecter" => x.owner \in Objects /\ r2.own[x.owner].kind = "session"
                      /\ x.kind = "session" =>
                           /\ x.socket \in Sockets /\ r2.own[x.socket].kind = "socket"
                           /\ \/ x.owner = x.socket
                              \/ /\ x.owner \in Objects /\ r2.own[x.owner].kind = "listener"
                                 /\ r2.own[x.owner].owner = x.socket
    BY DEF Owners
  <2>1. x = r.own[c] BY <1>4
  <2>2. /\ x.kind = "listener" => x.owner \in Sockets /\ r.own[x.owner].kind = "socket"
        /\ x.kind = "connecter" => x.owner \in Objects /\ r.own[x.owner].kind = "session"
        /\ x.kind = "session" =>
             /\ x.socket \in Sockets /\ r.own[x.socket].kind = "socket"
             /\ \/ x.owner = x.socket
                \/ /\ x.owner \in Objects /\ r.own[x.owner].kind = "listener"
                   /\ r.own[x.owner].owner = x.socket
    BY <1>1, <2>1 DEF Owners
  <2>3. x.kind \in {"listener", "connecter", "session"} =>
          x.owner \in Actors /\ x.owner # s /\ r2.own[x.owner] = r.own[x.owner]
    BY <1>2, <1>10, <2>1 DEF Live
  <2>4. x.kind = "session" => x.socket # s BY <1>8, <2>1
  <2>5. x.kind = "session" => r2.own[x.socket] = r.own[x.socket] BY <1>2, <1>7, <2>2, <2>4
  <2> QED BY <2>2, <2>3, <2>5
<1>12. \A c, o : Child(r2, c, o) <=> Child(r, c, o) BY <1>4, <1>6 DEF Child
<1>13. \A m : Proper(r, m) /\ m.dest # s => Proper(r2, m) /\ r2.own[m.dest] = r.own[m.dest]
  <2> SUFFICES ASSUME NEW m, Proper(r, m), m.dest # s
               PROVE  Proper(r2, m) /\ r2.own[m.dest] = r.own[m.dest]
    OBVIOUS
  <2>1. m.dest \in Actors /\ Live(r, m.dest) BY DEF Proper
  <2>2. r2.own[m.dest] = r.own[m.dest] /\ Live(r2, m.dest) BY <1>2, <1>6, <2>1
  <2>3. m.arg \in Objects => r2.own[m.arg] = r.own[m.arg] /\ (Live(r2, m.arg) <=> Live(r, m.arg))
    BY <1>4, <1>6
  <2>4. m.type \in {"plug", "own", "attach", "bind", "term", "term_req", "term_ack", "stop"}
    BY DEF Proper
  <2>5. /\ m.type = "plug" => m.dest \in Objects /\ m.arg = Null
        /\ m.type = "attach" => m.dest \in Objects /\ r2.own[m.dest].kind = "session" /\ m.arg = Null
        /\ m.type = "bind" => m.dest \in Sockets /\ m.arg \in Objects
        /\ m.type = "term" => m.dest \in Objects /\ m.arg = Null
        /\ m.type = "term_req" => m.arg \in Objects
        /\ m.type = "term_ack" => m.arg = Null
        /\ m.type = "stop" => m.dest \in Sockets
    BY <2>2 DEF Proper
  <2>6. m.type = "own" => m.arg \in Objects /\ Live(r2, m.arg) /\ r2.own[m.arg].owner = m.dest
    BY <2>3 DEF Proper
  <2> QED BY <2>1, <2>2, <2>4, <2>5, <2>6 DEF Proper
<1>14. \A t \in Slots : \A i \in DOMAIN r2.mail[t] : t # s BY <1>2
<1>15. Routed(r2) BY <1>1, <1>2, <1>8, <1>13, <1>14 DEF Routed
<1>16. Requests(r2) BY <1>1, <1>2, <1>12, <1>14 DEF Requests
<1>17. Owned(r2) BY <1>1, <1>2, <1>5, <1>12 DEF Owned
<1>18. /\ \A c \in Objects : /\ Num(r2, {}, Plug(c)) = Num(r, {}, Plug(c))
                             /\ Num(r2, {}, Term(c)) = Num(r, {}, Term(c))
                             /\ Num(r2, {}, Attach(c)) = Num(r, {}, Attach(c))
       /\ \A o \in Actors : Num(r2, {}, Ack(o)) = Num(r, {}, Ack(o))
       /\ \A o \in Actors, c \in Objects : /\ Num(r2, {}, Owns(o, c)) = Num(r, {}, Owns(o, c))
                                           /\ Num(r2, {}, Binds(o, c)) = Num(r, {}, Binds(o, c))
       /\ \A o \in Actors : Cnt(r2, {}, o) = Cnt(r, {}, o)
  BY ErasedTotals
<1>19. Stages(r2, {})
  <2> SUFFICES ASSUME NEW c \in Objects, Live(r2, c)
               PROVE  /\ Num(r2, {}, Plug(c)) + Bit(r2.own[c].plugged) = 1
                      /\ Num(r2, {}, Owns(r2.own[c].owner, c))
                         + Bit(c \in r2.own[r2.own[c].owner].owned) + Num(r2, {}, Term(c))
                         + Bit(r2.own[c].pending) + Bit(r2.own[c].terminating) = 1
    BY DEF Stages
  <2>1. Live(r, c) /\ r2.own[c] = r.own[c] BY <1>4, <1>6
  <2>2. r.own[c].owner \in Actors /\ r2.own[r.own[c].owner] = r.own[r.own[c].owner]
    BY <1>2, <1>10, <2>1
  <2> QED BY <1>1, <1>18, <2>1, <2>2 DEF Stages
<1>20. Engines(r2, {})
  <2>1. \A c : Dials(r2, c) = Dials(r, c) BY <1>4 DEF Dials
  <2> QED BY <1>1, <1>4, <1>18, <2>1 DEF Engines
<1>21. \A p \in Actors : r2.own[p].pipes = r.own[p].pipes BY <1>2, <1>5, <1>8
<1>22. Held(r2, {})
  <2>1. \A u \in Sockets, c \in Objects : Holds(r2, {}, u, c) <=> Holds(r, {}, u, c)
    BY <1>7, <1>18, <1>21 DEF Holds
  <2> QED BY <1>1, <1>2, <1>7, <1>18, <1>21, <2>1 DEF Held
<1>23. EndsOK(r2)
  <2>1. \A u \in Sockets : r2.own[u].reaping => r.own[u].reaping BY <1>2, <1>5, <1>7
  <2> QED BY <1>1, <1>2, <1>4, <1>7, <1>21, <2>1 DEF EndsOK
<1>24. \A o \in Actors : o # s => Told(r2, {}, o) = Told(r, {}, o)
  BY <1>2, <1>12, <1>18 DEF Told
<1>25. Balanced(r2, {})
  <2> SUFFICES ASSUME NEW o \in Actors, Live(r2, o), NEW x, x = r2.own[o]
               PROVE  /\ x.sent_seqnum = x.processed_seqnum + Cnt(r2, {}, o)
                      /\ x.term_acks = Num(r2, {}, Ack(o)) + Cardinality(Told(r2, {}, o)) + Left(x)
                      /\ x.destroyed => x.terminating /\ x.sent_seqnum = x.processed_seqnum /\ x.term_acks = 0
    BY DEF Balanced
  <2>1. o # s BY <1>6
  <2>2. x = r.own[o] /\ Live(r, o) BY <1>2, <1>6, <2>1
  <2>3. Cnt(r2, {}, o) = Cnt(r, {}, o) /\ Num(r2, {}, Ack(o)) = Num(r, {}, Ack(o))
        /\ Told(r2, {}, o) = Told(r, {}, o)
    BY <1>18, <1>24, <2>1
  <2> QED BY <1>1, <2>2, <2>3 DEF Balanced
<1>26. Rooms(r2)
  <2>1. Unused(r2) = Unused(r) /\ Dialling(r2) = Dialling(r) BY <1>4 DEF Unused, Dialling
  <2> QED BY <1>1, <2>1 DEF Rooms
<1>27. Busy(r2) BY <1>2, <1>5 DEF Busy, Waits
<1>28. Ready(r2, {}) BY DEF Ready
<1> QED BY <1>1, <1>2, <1>9, <1>11, <1>15, <1>16, <1>17, <1>19, <1>20, <1>22, <1>23, <1>25, <1>26,
           <1>27, <1>28, FS_EmptySet DEF Good

\* the mailbox of the reaper once ctx_t::destroy_socket and check_destroy are through
Parting(X, Q) == Append(IF terminating /\ X = {} THEN Append(Q, StopCmd) ELSE Q, ReapedCmd)

PartingOK(X, Q, q) ==
    /\ q \in Seq(Commands) /\ \A i \in DOMAIN q : q[i] \in Words(X)
    /\ \A u \in Sockets : Count(q, {Reap(u)}) = Count(Q, {Reap(u)})
    /\ Count(q, {ReapedCmd}) = Count(Q, {ReapedCmd}) + 1
    /\ Count(q, {StopCmd}) = Count(Q, {StopCmd}) + Bit(terminating /\ X = {})
    /\ Count(Q, {ReapedCmd}) \in Nat /\ Count(Q, {StopCmd}) \in Nat

\* What the reaper is told when a socket is deleted.
LEMMA PartingWords ==
  ASSUME NEW X \in SUBSET Sockets, NEW Q \in Seq(Commands), \A i \in DOMAIN Q : Q[i] \in Words(X),
         NEW q, q = Parting(X, Q)
  PROVE  PartingOK(X, Q, q)
<1> DEFINE b == terminating /\ X = {}
           q1 == IF b THEN Append(Q, StopCmd) ELSE Q
<1>1. ReapedCmd \in Words(X) /\ StopCmd \in Words(X) BY DEF Words
<1>2. /\ \A u \in Sockets : Bit(StopCmd = Reap(u)) = 0 /\ Bit(ReapedCmd = Reap(u)) = 0
      /\ Bit(StopCmd = ReapedCmd) = 0 /\ Bit(ReapedCmd = StopCmd) = 0
      /\ Bit(StopCmd = StopCmd) = 1 /\ Bit(ReapedCmd = ReapedCmd) = 1
  BY ReaperWords DEF Bit
<1>3. /\ \A u \in Sockets : Count(Q, {Reap(u)}) \in Nat
      /\ Count(Q, {ReapedCmd}) \in Nat /\ Count(Q, {StopCmd}) \in Nat
  BY Places
<1>4. /\ q1 \in Seq(Commands) /\ \A i \in DOMAIN q1 : q1[i] \in Words(X)
      /\ \A u \in Sockets : Count(q1, {Reap(u)}) = Count(Q, {Reap(u)})
      /\ Count(q1, {ReapedCmd}) = Count(Q, {ReapedCmd})
      /\ Count(q1, {StopCmd}) = Count(Q, {StopCmd}) + Bit(b)
  <2>1. CASE ~b
    <3>1. q1 = Q /\ Bit(b) = 0 BY <2>1 DEF Bit
    <3> HIDE DEF q1, b
    <3> QED BY <1>3, <3>1
  <2>2. CASE b
    <3>1. q1 = Append(Q, StopCmd) /\ Bit(b) = 1 BY <2>2 DEF Bit
    <3> HIDE DEF q1, b
    <3> DEFINE m == StopCmd
    <3>2. m \in Words(X) /\ q1 = Append(Q, m) BY <1>1, <3>1
    <3> HIDE DEF m
    <3>3. More(X, Q, m, q1) BY <3>2, ReaperAppend
    <3>4. More(X, Q, StopCmd, q1) BY <3>3 DEF m
    <3> QED BY <1>2, <1>3, <3>1, <3>4 DEF More
  <2> QED BY <2>1, <2>2
<1>5. q = Append(q1, ReapedCmd) BY DEF Parting
<1> HIDE DEF q1, b
<1>6. More(X, q1, ReapedCmd, q)
  <2> DEFINE m == ReapedCmd
  <2>1. m \in Words(X) /\ q = Append(q1, m) BY <1>1, <1>5
  <2> HIDE DEF m
  <2>2. More(X, q1, m, q) BY <1>4, <2>1, ReaperAppend
  <2> QED BY <2>2 DEF m
<1>7. Bit(b) \in Nat BY DEF Bit
<1>8. /\ q \in Seq(Commands) /\ \A i \in DOMAIN q : q[i] \in Words(X)
      /\ \A u \in Sockets : Count(q, {Reap(u)}) = Count(q1, {Reap(u)}) + Bit(ReapedCmd = Reap(u))
      /\ Count(q, {ReapedCmd}) = Count(q1, {ReapedCmd}) + Bit(ReapedCmd = ReapedCmd)
      /\ Count(q, {StopCmd}) = Count(q1, {StopCmd}) + Bit(ReapedCmd = StopCmd)
  BY <1>6 DEF More
<1>9. \A u \in Sockets : Count(q, {Reap(u)}) = Count(Q, {Reap(u)}) BY <1>2, <1>3, <1>4, <1>8
<1>10. Count(q, {ReapedCmd}) = Count(Q, {ReapedCmd}) + 1 BY <1>2, <1>3, <1>4, <1>8
<1>11. Count(q, {StopCmd}) = Count(Q, {StopCmd}) + Bit(b) BY <1>2, <1>3, <1>4, <1>7, <1>8
<1> QED BY <1>3, <1>8, <1>9, <1>10, <1>11 DEF b, PartingOK

\* the mailboxes after check_destroy
Parted(s) == mail' = [[mail EXCEPT ![s] = << >>] EXCEPT !["reaper"] = Parting(sockets \ {s}, mail["reaper"])]

\* Only the mailboxes of the socket and of the reaper change.
LEMMA PartedMail ==
  ASSUME NEW s \in Sockets, mail \in [Boxes -> Seq(Commands)], Parted(s),
         Parting(sockets \ {s}, mail["reaper"]) \in Seq(Commands)
  PROVE  /\ mail' \in [Boxes -> Seq(Commands)] /\ mail'[s] = << >>
         /\ mail'["reaper"] = Parting(sockets \ {s}, mail["reaper"])
         /\ \A t \in Boxes : t # s /\ t # "reaper" => mail'[t] = mail[t]
<1> DEFINE q == Parting(sockets \ {s}, mail["reaper"])
           f == [mail EXCEPT ![s] = << >>]
           e == << >>
<1>1. s \in Boxes /\ "reaper" \in Boxes /\ s # "reaper" BY OwnershipAssumption DEF Boxes, Slots
<1>2. e \in Seq(Commands) OBVIOUS
<1>3. f \in [Boxes -> Seq(Commands)] /\ f[s] = e /\ \A t \in Boxes : t # s => f[t] = mail[t]
  <2> HIDE DEF q
  <2>1. f = [mail EXCEPT ![s] = e] OBVIOUS
  <2> HIDE DEF f, e
  <2> QED BY <1>1, <1>2, <2>1
<1>4. mail' = [f EXCEPT !["reaper"] = q] BY DEF Parted
<1>5. q \in Seq(Commands) OBVIOUS
<1> HIDE DEF q, f
<1>6. mail' \in [Boxes -> Seq(Commands)] /\ mail'["reaper"] = q
      /\ \A t \in Boxes : t # "reaper" => mail'[t] = f[t]
  BY <1>1, <1>3, <1>4, <1>5
<1>7. mail'[s] = e /\ \A t \in Boxes : t # s /\ t # "reaper" => mail'[t] = mail[t] BY <1>1, <1>3, <1>6
<1> QED BY <1>6, <1>7 DEF q, e

\* socket_base_t::check_destroy, with ctx_t::destroy_socket.
LEMMA CheckDestroyInv ==
  ASSUME IInv, NEW s \in Sockets, CheckDestroy(s)
  PROVE  IInv'
<1> DEFINE Q == mail["reaper"]
           X == sockets \ {s}
           q == Parting(X, Q)
           r == State
           r2 == State'
<1>1. /\ s \in sockets /\ own[s].reaping /\ own[s].destroyed /\ sockets' = X
      /\ own' = [own EXCEPT ![s] = Deleted] /\ pipes' = pipes /\ terminating' = terminating
      /\ failed' = (failed \/ \E i \in DOMAIN mail[s] : mail[s][i].type # "stop")
      /\ term' = term /\ reaper' = reaper /\ closed' = closed
  BY DEF CheckDestroy
<1>2. /\ State \in States /\ own \in [Actors -> Object] /\ mail \in [Boxes -> Seq(Commands)]
      /\ pipes \in [Objects -> PipeState] /\ failed = FALSE /\ sockets \subseteq Sockets
      /\ Q \in Seq(Commands) /\ IsFiniteSet(Reaping) /\ Cardinality(Reaping) \in Nat
  BY Sorts
<1>3. s \in Actors /\ s \in Slots /\ s # "reaper" /\ s # "term" /\ s \in Boxes
      /\ "reaper" \in Boxes /\ "term" \in Boxes
  BY OwnershipAssumption DEF Actors, Slots, Boxes
<1>4. own[s].kind = "socket" BY <1>1 DEF IInv, Context
<1>5. Good(r, {}) /\ Busy(r) /\ r.own = own /\ r.mail = mail /\ r.pipes = pipes BY StateParts DEF IInv
<1>6. Live(r, s) /\ r.own[s].reaping /\ r.own[s].destroyed BY <1>1, <1>4, <1>5 DEF Live
<1>7. \A i \in DOMAIN mail[s] : mail[s][i].type = "stop"
  <2> HIDE DEF r
  <2>1. \A i \in DOMAIN r.mail[s] : r.mail[s][i].type = "stop" BY <1>5, <1>6, SocketOver
  <2> QED BY <1>5, <2>1
<1>8. failed' = FALSE BY <1>1, <1>2, <1>7
<1>9. Parted(s)
  <2>1. mail' = ToReaper([(IF terminating /\ X = {} THEN ToReaper(mail, "stop") ELSE mail)
                            EXCEPT ![s] = << >>], "reaped")
    BY <1>1 DEF CheckDestroy
  <2> DEFINE m == IF terminating /\ X = {} THEN ToReaper(mail, "stop") ELSE mail
             q1 == IF terminating /\ X = {} THEN Append(Q, StopCmd) ELSE Q
  <2>2. m = [mail EXCEPT !["reaper"] = q1]
    <3>1. CASE terminating /\ X = {} BY <3>1 DEF ToReaper, StopCmd
    <3>2. CASE ~(terminating /\ X = {}) BY <1>2, <1>3, <3>2
    <3> QED BY <3>1, <3>2
  <2>3. q = Append(q1, ReapedCmd) BY DEF Parting
  <2>4. mail' = [[m EXCEPT ![s] = << >>] EXCEPT !["reaper"] = Append(@, ReapedCmd)]
    BY <2>1 DEF ToReaper, ReapedCmd
  <2> HIDE DEF m, q1, q
  <2>5. mail' = [[mail EXCEPT ![s] = << >>] EXCEPT !["reaper"] = q] BY <1>2, <1>3, <2>2, <2>3, <2>4
  <2> QED BY <2>5 DEF Parted, q
<1>10. X \in SUBSET Sockets /\ s \notin X BY <1>2
<1>11. \A i \in DOMAIN Q : Q[i] \in Words(X)
  <2>1. \A i \in DOMAIN Q : Q[i] \in {Reap(u) : u \in sockets} \cup {ReapedCmd, StopCmd}
    BY DEF IInv, Context
  <2>2. Count(Q, {Reap(s)}) = Bit(s \in closed /\ ~own[s].reaping) BY <1>1 DEF IInv, Context
  <2>3. Count(Q, {Reap(s)}) = 0 BY <1>1, <2>2 DEF Bit
  <2> HIDE DEF Q
  <2>4. \A i \in DOMAIN Q : Q[i] \notin {Reap(s)} BY <1>2, <2>3, Places
  <2> QED BY <2>1, <2>4 DEF Words
<1>12. q = Parting(X, Q) OBVIOUS
<1> HIDE DEF q, X, Q
<1>13. /\ q \in Seq(Commands) /\ \A i \in DOMAIN q : q[i] \in Words(X)
       /\ \A u \in Sockets : Count(q, {Reap(u)}) = Count(Q, {Reap(u)})
       /\ Count(q, {ReapedCmd}) = Count(Q, {ReapedCmd}) + 1
       /\ Count(q, {StopCmd}) = Count(Q, {StopCmd}) + Bit(terminating /\ X = {})
       /\ Count(Q, {ReapedCmd}) \in Nat /\ Count(Q, {StopCmd}) \in Nat
  <2>1. Q \in Seq(Commands) BY <1>2
  <2>2. PartingOK(X, Q, q) BY <1>10, <1>11, <1>12, <2>1, PartingWords
  <2> QED BY <2>2 DEF PartingOK
<1>14. /\ mail' \in [Boxes -> Seq(Commands)] /\ mail'[s] = << >> /\ mail'["reaper"] = q
       /\ \A t \in Boxes : t # s /\ t # "reaper" => mail'[t] = mail[t]
  BY <1>2, <1>9, <1>12, <1>13, PartedMail DEF X, Q
<1>15. own' \in [Actors -> Object] /\ own'[s] = Deleted /\ \A p \in Actors : p # s => own'[p] = own[p]
  <2>1. Deleted \in Object
    <3>1. Unborn \in Object BY DEF Unborn, Object, Null
    <3>2. \A x \in Object : [x EXCEPT !.kind = "deleted"] \in Object BY DEF Object
    <3> QED BY <3>1, <3>2 DEF Deleted
  <2> QED BY <1>1, <1>2, <1>3, <2>1
<1>16. State' \in States BY <1>1, <1>2, <1>8, <1>14, <1>15 DEF State, States
<1>17. State'.own = own' /\ State'.mail = mail' /\ State'.pipes = pipes' /\ State'.failed = failed'
  BY DEF State
<1>18. \A t \in Slots : t \in Boxes /\ t # "reaper" BY OwnershipAssumption DEF Slots, Boxes
<1> HIDE DEF r
<1>19. Erased(r, r2, s)
  <2>1. /\ r2.own[s] = Deleted /\ \A p \in Actors : p # s => r2.own[p] = r.own[p]
    BY <1>5, <1>15, <1>17
  <2>2. r2.mail[s] = << >> /\ \A t \in Slots : t # s => r2.mail[t] = r.mail[t]
    BY <1>5, <1>14, <1>17, <1>18
  <2>3. r2.pipes = r.pipes /\ ~r2.failed BY <1>1, <1>5, <1>8, <1>17
  <2> QED BY <1>16, <2>1, <2>2, <2>3 DEF Erased
<1> HIDE DEF r2
<1>20. Good(r2, {}) /\ Busy(r2) BY <1>5, <1>6, <1>19, EraseStep
<1>21. Good(State', {}) /\ Busy(State') BY <1>20 DEF r2
<1>22. \A u \in Sockets : u \in Actors BY DEF Actors
<1>23. own'[s].kind = "deleted" /\ ~own'[s].reaping BY <1>15 DEF Deleted, Unborn
<1>24. mail'["term"] = mail["term"] BY <1>3, <1>14
<1>25. /\ sockets' = {u \in Sockets : own'[u].kind = "socket"}
       /\ closed' \subseteq Sockets /\ \A u \in closed' : own'[u].kind # "unborn"
       /\ \A u \in Sockets : own'[u].reaping => u \in closed' /\ own'[u].terminating
  <2>1. \A u \in Sockets : u # s => own'[u] = own[u] BY <1>15, <1>22
  <2>2. /\ sockets = {u \in Sockets : own[u].kind = "socket"}
        /\ closed \subseteq Sockets /\ \A u \in closed : own[u].kind # "unborn"
        /\ \A u \in Sockets : own[u].reaping => u \in closed /\ own[u].terminating
    BY DEF IInv, Context
  <2>3. sockets' = {u \in Sockets : own'[u].kind = "socket"} BY <1>1, <1>23, <2>1, <2>2 DEF X
  <2>4. \A u \in closed' : own'[u].kind # "unborn" BY <1>1, <1>23, <2>1, <2>2
  <2> QED BY <1>1, <1>23, <2>1, <2>2, <2>3, <2>4
<1>26. \A i \in DOMAIN mail'["reaper"] :
         mail'["reaper"][i] \in {Reap(u) : u \in sockets'} \cup {ReapedCmd, StopCmd}
  BY <1>1, <1>13, <1>14 DEF Words
<1>27. \A u \in sockets' : Count(mail'["reaper"], {Reap(u)}) = Bit(u \in closed' /\ ~own'[u].reaping)
  <2> SUFFICES ASSUME NEW u \in X PROVE Count(q, {Reap(u)}) = Bit(u \in closed /\ ~own'[u].reaping)
    BY <1>1, <1>14
  <2>1. u \in sockets /\ u \in Sockets /\ own'[u] = own[u] BY <1>10, <1>15, <1>22 DEF X
  <2>2. Count(Q, {Reap(u)}) = Bit(u \in closed /\ ~own[u].reaping) BY <2>1 DEF IInv, Context, Q
  <2> QED BY <1>13, <2>1, <2>2
<1>28. Cardinality(Reaping') = Cardinality(Reaping) - 1
  <2>1. \A u \in X : own'[u] = own[u] BY <1>10, <1>15, <1>22
  <2>2. Reaping' = Reaping \ {s} BY <1>1, <2>1 DEF Reaping, X
  <2>3. s \in Reaping BY <1>1 DEF Reaping
  <2> QED BY <1>2, <2>2, <2>3, FS_RemoveElement
<1>29. /\ reaper' \in [sockets : Nat, terminating : BOOLEAN, stopped : BOOLEAN]
       /\ Len(mail'["term"]) + Bit(term' = "deleted") = Bit(reaper'.terminating /\ reaper'.sockets = 0)
       /\ term' \in {"idle", "waiting", "deleted"} /\ terminating' \in BOOLEAN
       /\ term' # "idle" => terminating'
  BY <1>1, <1>24 DEF IInv, Context
<1>30. reaper'.sockets = Cardinality(Reaping') + Count(mail'["reaper"], {ReapedCmd})
  <2>1. reaper.sockets = Cardinality(Reaping) + Count(Q, {ReapedCmd}) BY DEF IInv, Context, Q
  <2> QED BY <1>1, <1>2, <1>13, <1>14, <1>28, <2>1
<1>31. Count(mail'["reaper"], {StopCmd}) + Bit(reaper'.terminating) = Bit(terminating' /\ sockets' = {})
  <2>1. Count(Q, {StopCmd}) + Bit(reaper.terminating) = Bit(terminating /\ sockets = {})
    BY DEF IInv, Context, Q
  <2>2. Bit(terminating /\ sockets = {}) = 0 BY <1>1 DEF Bit
  <2>3. Bit(reaper.terminating) \in Nat BY DEF Bit
  <2>4. Count(Q, {StopCmd}) = 0 /\ Bit(reaper.terminating) = 0 BY <1>13, <2>1, <2>2, <2>3
  <2>5. Bit(terminating /\ X = {}) \in Nat BY DEF Bit
  <2> QED BY <1>1, <1>13, <1>14, <2>4, <2>5
<1>32. Context'
  BY <1>25, <1>26, <1>27, <1>29, <1>30, <1>31 DEF Context, StopCmd, ReapedCmd, Reap, Reaping
<1> QED BY <1>21, <1>32 DEF IInv

-----------------------------------------------------------------------------
(* The theorems. *)

\* ctx_t::ctx_t: nothing lives yet.
LEMMA InitInv ==
  ASSUME Init
  PROVE  IInv
<1> DEFINE r == State
<1>1. /\ own = [o \in Actors |-> Unborn] /\ mail = [t \in Boxes |-> << >>]
      /\ pipes = [o \in Objects |-> NoPipe] /\ sockets = {} /\ terminating = FALSE /\ term = "idle"
      /\ reaper = [sockets |-> 0, terminating |-> FALSE, stopped |-> FALSE]
      /\ closed = {} /\ failed = FALSE
  BY DEF Init, Actors, Boxes, Slots
<1>2. Unborn \in Object BY DEF Unborn, Object, Null
<1>3. /\ Unborn.kind = "unborn" /\ ~Unborn.terminating /\ Unborn.owned = {} /\ Unborn.pipes = {}
      /\ ~Unborn.destroyed /\ ~Unborn.reaping /\ ~Unborn.pending
  BY DEF Unborn
<1>4. NoPipe \in PipeState /\ NoPipe.ends = {} /\ NoPipe.asked = {} BY DEF NoPipe, PipeState
<1> DEFINE e == << >>
<1>5. e \in Seq(Commands) /\ DOMAIN e = {} /\ Len(e) = 0 OBVIOUS
<1>6. mail = [t \in Boxes |-> e] BY <1>1
<1> HIDE DEF e
<1>7. own \in [Actors -> Object] /\ mail \in [Boxes -> Seq(Commands)] /\ pipes \in [Objects -> PipeState]
  BY <1>1, <1>2, <1>4, <1>5, <1>6
<1>8. State \in States BY <1>1, <1>7 DEF State, States
<1>9. /\ r \in States /\ ~r.failed
      /\ \A o \in Actors : r.own[o] = Unborn
      /\ \A t \in Boxes : r.mail[t] = e
      /\ \A c \in Objects : r.pipes[c] = NoPipe
  BY <1>1, <1>6, <1>8, StateParts
<1> HIDE DEF r
<1>10. \A o \in Actors : ~Live(r, o) BY <1>3, <1>9 DEF Live
<1>11. Objects \subseteq Actors /\ Sockets \subseteq Actors /\ Slots \subseteq Boxes
       /\ {"reaper", "term"} \subseteq Boxes
  BY DEF Actors, Boxes
<1>12. \A t \in Slots : DOMAIN r.mail[t] = {} BY <1>5, <1>9, <1>11
<1>13. \A o \in Actors : \A S : Count(Box(r, o), S) = 0 BY <1>10, CountEmpty DEF Box
<1>14. \A s \in Sockets, c \in Objects : Num(r, {}, Binds(s, c)) = 0
  <2> SUFFICES ASSUME NEW s \in Sockets, NEW c \in Objects PROVE Num(r, {}, Binds(s, c)) = 0 OBVIOUS
  <2>1. Binds(s, c).dest = s /\ s \in Actors BY <1>11, VocabularyTypes
  <2>2. Cardinality({} \cap {Binds(s, c)}) = 0 BY FS_EmptySet
  <2> QED BY <1>13, <2>1, <2>2 DEF Num, Total
<1>15. Kinds(r) BY <1>3, <1>9, <1>10, <1>11 DEF Kinds
<1>16. Owners(r) BY <1>3, <1>9, <1>11 DEF Owners
<1>17. Routed(r) /\ Requests(r) BY <1>12 DEF Routed, Requests
<1>18. Ready(r, {}) /\ Owned(r) BY <1>3, <1>9 DEF Ready, Owned
<1>19. Stages(r, {}) /\ Balanced(r, {}) BY <1>10, <1>11 DEF Stages, Balanced
<1>20. Engines(r, {}) BY <1>3, <1>9, <1>11 DEF Engines
<1>21. Held(r, {})
  <2>1. \A s \in Sockets, c \in Objects : c \notin r.own[s].pipes /\ Bit(c \in r.own[s].pipes) = 0
    BY <1>3, <1>9, <1>11 DEF Bit
  <2>2. \A s \in Sockets, c \in Objects : ~Holds(r, {}, s, c) BY <1>14, <2>1 DEF Holds
  <2> QED BY <1>4, <1>9, <1>14, <2>1, <2>2 DEF Held
<1>22. EndsOK(r) BY <1>3, <1>4, <1>9, <1>11 DEF EndsOK
<1>23. Rooms(r)
  <2>1. Dialling(r) = {} BY <1>3, <1>9, <1>11 DEF Dialling
  <2>2. IsFiniteSet(Unused(r)) BY OwnershipAssumption, FS_Subset DEF Unused
  <2>3. Cardinality(Unused(r)) \in Nat /\ Cardinality(Dialling(r)) = 0
    BY <2>1, <2>2, FS_CardinalityType, FS_EmptySet
  <2> QED BY <2>3 DEF Rooms
<1>24. Good(r, {})
  BY <1>9, <1>15, <1>16, <1>17, <1>18, <1>19, <1>20, <1>21, <1>22, <1>23, FS_EmptySet DEF Good
<1>25. Busy(r) BY <1>3, <1>9 DEF Busy, Waits
<1>26. Context
  <2>1. mail["reaper"] = << >> /\ mail["term"] = << >> BY <1>1, <1>11
  <2>2. \A S : Count(mail["reaper"], S) = 0 BY <2>1, CountEmpty
  <2>3. Len(mail["term"]) = 0 /\ DOMAIN mail["reaper"] = {} BY <2>1
  <2>4. Cardinality(Reaping) = 0
    <3>1. Reaping = {} BY <1>1 DEF Reaping
    <3> QED BY <3>1, FS_EmptySet
  <2>5. \A s \in Sockets : own[s].kind = "unborn" /\ ~own[s].reaping BY <1>1, <1>3, <1>11
  <2>6. /\ sockets = {s \in Sockets : own[s].kind = "socket"}
        /\ closed \subseteq Sockets /\ \A s \in closed : own[s].kind # "unborn"
        /\ \A s \in Sockets : own[s].reaping => s \in closed /\ own[s].terminating
    BY <1>1, <2>5
  <2>7. Bit(reaper.terminating) = 0 /\ Bit(terminating /\ sockets = {}) = 0
        /\ Bit(reaper.terminating /\ reaper.sockets = 0) = 0 /\ Bit(term = "deleted") = 0
    BY <1>1 DEF Bit
  <2>8. reaper \in [sockets : Nat, terminating : BOOLEAN, stopped : BOOLEAN] /\ reaper.sockets = 0
    BY <1>1
  <2>9. \A s \in sockets : Count(mail["reaper"], {Reap(s)}) = Bit(s \in closed /\ ~own[s].reaping)
    BY <1>1
  <2>10. \A i \in DOMAIN mail["reaper"] :
           mail["reaper"][i] \in {Reap(s) : s \in sockets} \cup {ReapedCmd, StopCmd}
    BY <2>3
  <2>11. /\ reaper.sockets = Cardinality(Reaping) + Count(mail["reaper"], {ReapedCmd})
         /\ Count(mail["reaper"], {StopCmd}) + Bit(reaper.terminating) = Bit(terminating /\ sockets = {})
         /\ Len(mail["term"]) + Bit(term = "deleted") = Bit(reaper.terminating /\ reaper.sockets = 0)
    BY <2>2, <2>3, <2>4, <2>7, <2>8
  <2>12. term \in {"idle", "waiting", "deleted"} /\ terminating \in BOOLEAN /\ term = "idle" BY <1>1
  <2> QED BY <2>6, <2>8, <2>9, <2>10, <2>11, <2>12 DEF Context
<1> QED BY <1>24, <1>25, <1>26 DEF IInv, r

\* Every step of the application, the network and the library preserves the invariant.
LEMMA StepInv ==
  ASSUME IInv, [Next]_vars
  PROVE  IInv'
<1>1. CASE Application
  <2>1. ASSUME NEW s \in Sockets, CreateSocket(s) \/ Bind(s) \/ Connect(s) \/ Close(s) PROVE IInv'
    BY <2>1, CreateSocketInv, BindInv, ConnectInv, CloseInv
  <2>2. ASSUME NEW s \in Sockets, NEW c \in Objects, TermEndpoint(s, c) PROVE IInv'
    BY <2>2, TermEndpointInv
  <2>3. CASE Shutdown
    <3>1. StopAll /\ term = "idle" /\ term' = "idle" BY <2>3 DEF Shutdown
    <3> QED BY <3>1, StopAllInv
  <2>4. CASE TermCall
    <3>1. StopAll /\ term = "idle" /\ term' = "waiting" BY <2>4 DEF TermCall
    <3> QED BY <3>1, StopAllInv
  <2>5. CASE TermInterrupted BY <2>5, TermInterruptedInv
  <2> QED BY <1>1, <2>1, <2>2, <2>3, <2>4, <2>5 DEF Application
<1>2. CASE Network
  <2>1. ASSUME NEW o \in Objects, NEW t \in IoThreads, Accept(o, t) PROVE IInv' BY <2>1, AcceptInv
  <2>2. ASSUME NEW o \in Objects, Connected(o) PROVE IInv' BY <2>2, ConnectedInv
  <2>3. ASSUME NEW o \in Objects, NEW t \in IoThreads, NEW e, EngineError(o, e, t) PROVE IInv'
    BY <2>3, EngineErrorInv
  <2> QED BY <1>2, <2>1, <2>2, <2>3 DEF Network
<1>3. CASE Library
  <2>1. CASE ReaperCommand BY <2>1, ReaperCommandInv
  <2>2. CASE TermDone BY <2>2, TermDoneInv
  <2>3. ASSUME NEW s \in Sockets, CheckDestroy(s) PROVE IInv' BY <2>3, CheckDestroyInv
  <2>4. ASSUME NEW slot \in Slots, NEW t \in IoThreads, ProcessCommand(slot, t) PROVE IInv'
    BY <2>4, ProcessCommandInv
  <2>5. ASSUME NEW o \in Objects, NEW e \in {1, 2}, PipeGone(o, e) PROVE IInv' BY <2>5, PipeGoneInv
  <2> QED BY <1>3, <2>1, <2>2, <2>3, <2>4, <2>5 DEF Library
<1>4. CASE UNCHANGED vars
  <2>1. /\ own' = own /\ mail' = mail /\ pipes' = pipes /\ sockets' = sockets
        /\ terminating' = terminating /\ term' = term /\ reaper' = reaper /\ closed' = closed
        /\ failed' = failed
    BY <1>4 DEF vars, ctxVars
  <2>2. State' = State BY <2>1 DEF State
  <2>3. Good(State', {}) /\ Busy(State') BY <2>2 DEF IInv
  <2>4. Reaping' = Reaping BY <2>1 DEF Reaping
  <2>5. Context' BY <2>1, <2>4 DEF IInv, Context
  <2> QED BY <2>3, <2>5 DEF IInv
<1> QED BY <1>1, <1>2, <1>3, <1>4 DEF Next

\* The counts of commands, acknowledgements and pipes are right, and the reaper knows its
\* sockets, in every reachable state.
THEOREM OwnershipInvariant == Spec => []IInv
<1>1. Init => IInv BY InitInv
<1>2. IInv /\ [Next]_vars => IInv' BY StepInv
<1> QED BY <1>1, <1>2, PTL DEF Spec

\* own_t, session_base_t, ctx_t: no assertion fails and no command reaches an object that
\* is deleted, with any number of sockets, I/O threads and objects.
THEOREM NoUseAfterDeleteThm == Spec => []NoUseAfterDelete
<1>1. IInv => NoUseAfterDelete
  <2> SUFFICES ASSUME IInv PROVE NoUseAfterDelete OBVIOUS
  <2> QED BY Sorts DEF NoUseAfterDelete
<1> QED BY <1>1, OwnershipInvariant, PTL

\* A mailbox in which there is no command is empty.
LEMMA NoCommand ==
  ASSUME NEW q \in Seq(Commands), \A i \in DOMAIN q : FALSE
  PROVE  q = << >>
<1> SUFFICES ASSUME q # << >> PROVE FALSE OBVIOUS
<1>1. 1 \in DOMAIN q OBVIOUS
<1> QED BY <1>1

\* zmq_ctx_term returns: what the invariant says of that state.
LEMMA NothingLeftOver ==
  ASSUME IInv
  PROVE  NothingOutlivesContext
<1> SUFFICES ASSUME term = "deleted"
             PROVE  /\ \A o \in DOMAIN own : own[o].kind \in {"unborn", "deleted"}
                    /\ \A slot \in DOMAIN mail : mail[slot] = << >>
                    /\ \A o \in Objects : pipes[o].ends = {}
  BY DEF NothingOutlivesContext
<1> DEFINE r == State
           Q == mail["reaper"]
           T == mail["term"]
<1>1. /\ mail \in [Boxes -> Seq(Commands)] /\ own \in [Actors -> Object]
      /\ pipes \in [Objects -> PipeState] /\ Q \in Seq(Commands) /\ T \in Seq(Commands)
      /\ sockets \subseteq Sockets
  BY Sorts
<1>2. Len(T) + Bit(term = "deleted") = Bit(reaper.terminating /\ reaper.sockets = 0) BY DEF IInv, Context
<1> HIDE DEF T
<1>3. Len(T) = 0 /\ reaper.terminating /\ reaper.sockets = 0
  <2>1. Bit(term = "deleted") = 1 /\ Len(T) \in Nat BY <1>1 DEF Bit
  <2>2. Bit(reaper.terminating /\ reaper.sockets = 0) \in {0, 1} BY DEF Bit
  <2>3. Len(T) = 0 /\ Bit(reaper.terminating /\ reaper.sockets = 0) = 1 BY <1>2, <2>1, <2>2
  <2> QED BY <2>3 DEF Bit
<1>4. T = << >> BY <1>1, <1>3
<1>5. Count(Q, {StopCmd}) = 0 /\ sockets = {}
  <2>1. Count(Q, {StopCmd}) + Bit(reaper.terminating) = Bit(terminating /\ sockets = {})
    BY DEF IInv, Context
  <2> HIDE DEF Q
  <2>2. Count(Q, {StopCmd}) \in Nat BY <1>1, Places
  <2>3. Bit(reaper.terminating) = 1 /\ Bit(terminating /\ sockets = {}) \in {0, 1} BY <1>3 DEF Bit
  <2>4. Count(Q, {StopCmd}) = 0 /\ Bit(terminating /\ sockets = {}) = 1 BY <2>1, <2>2, <2>3
  <2> QED BY <2>4 DEF Bit
<1>6. Count(Q, {ReapedCmd}) = 0
  <2>1. reaper.sockets = Cardinality(Reaping) + Count(Q, {ReapedCmd}) BY DEF IInv, Context
  <2>2. Cardinality(Reaping) \in Nat BY Sorts
  <2> HIDE DEF Q
  <2>3. Count(Q, {ReapedCmd}) \in Nat BY <1>1, Places
  <2> QED BY <1>3, <2>1, <2>2, <2>3
<1>7. Q = << >>
  <2>1. \A i \in DOMAIN Q : Q[i] \in {Reap(s) : s \in sockets} \cup {ReapedCmd, StopCmd}
    BY DEF IInv, Context
  <2> HIDE DEF Q
  <2>2. \A i \in DOMAIN Q : Q[i] \notin {ReapedCmd} BY <1>1, <1>6, Places
  <2>3. \A i \in DOMAIN Q : Q[i] \notin {StopCmd} BY <1>1, <1>5, Places
  <2>4. \A i \in DOMAIN Q : FALSE BY <1>5, <2>1, <2>2, <2>3
  <2> QED BY <1>1, <2>4, NoCommand
<1>8. Good(r, {}) /\ r.own = own /\ r.mail = mail /\ r.pipes = pipes BY StateParts DEF IInv
<1> HIDE DEF r
<1>9. Kinds(r) /\ Owners(r) /\ Routed(r) /\ Held(r, {}) /\ EndsOK(r) /\ r \in States BY <1>8 DEF Good
<1>10. Objects \subseteq Actors /\ Sockets \subseteq Actors BY DEF Actors
<1>11. \A s \in Sockets : r.own[s].kind \in {"unborn", "deleted"}
  <2>1. sockets = {s \in Sockets : own[s].kind = "socket"} BY DEF IInv, Context
  <2> QED BY <1>5, <1>8, <1>9, <2>1 DEF Kinds
<1>12. \A c \in Objects : r.own[c].kind \notin {"listener", "session"} BY <1>9, <1>11 DEF Owners
<1>13. \A c \in Objects : r.own[c].kind \in {"unborn", "deleted"} BY <1>9, <1>12 DEF Owners, Kinds
<1>14. \A o \in Actors : r.own[o].kind \in {"unborn", "deleted"} /\ ~Live(r, o)
  BY <1>11, <1>13 DEF Actors, Live
<1>15. \A t \in Slots : mail[t] = << >>
  <2> SUFFICES ASSUME NEW t \in Slots PROVE mail[t] = << >> OBVIOUS
  <2>1. mail[t] \in Seq(Commands) BY <1>1 DEF Boxes
  <2>2. \A i \in DOMAIN mail[t] : FALSE BY <1>8, <1>9, <1>14 DEF Routed, Proper
  <2> QED BY <2>1, <2>2, NoCommand
<1>16. \A c \in Objects : pipes[c].ends = {}
  <2> SUFFICES ASSUME NEW c \in Objects PROVE r.pipes[c].ends = {} BY <1>8
  <2>1. r.pipes[c].ends \subseteq {1, 2} BY <1>9 DEF States, PipeState
  <2>2. 2 \notin r.pipes[c].ends BY <1>9, <1>12 DEF EndsOK
  <2>3. \A s \in Sockets : ~Holds(r, {}, s, c)
    <3> SUFFICES ASSUME NEW s \in Sockets PROVE ~Holds(r, {}, s, c) OBVIOUS
    <3>1. s \in Actors /\ ~Live(r, s) BY <1>10, <1>14
    <3>2. r.own[s] \in {Unborn, Deleted} BY <1>9, <1>11, <3>1 DEF Kinds
    <3>3. r.own[s].pipes = {} BY <3>2 DEF Unborn, Deleted
    <3>4. Binds(s, c).dest = s BY <3>1, VocabularyTypes
    <3>5. Num(r, {}, Binds(s, c)) = 0
      <4>1. Count(Box(r, s), {Binds(s, c)}) = 0 BY <3>1, CountEmpty DEF Box
      <4>2. Cardinality({} \cap {Binds(s, c)}) = 0 BY FS_EmptySet
      <4> QED BY <3>4, <4>1, <4>2 DEF Num, Total
    <3> QED BY <3>3, <3>5 DEF Holds
  <2>4. 1 \notin r.pipes[c].ends BY <1>9, <2>3 DEF Held
  <2> QED BY <2>1, <2>2, <2>4
<1>17. \A slot \in Boxes : mail[slot] = << >> BY <1>4, <1>7, <1>15 DEF Boxes, T
<1> QED BY <1>1, <1>8, <1>14, <1>16, <1>17

\* zmq_ctx_term returns only when everything the context owned is deleted and every
\* mailbox is empty.
THEOREM NothingOutlivesContextThm == Spec => []NothingOutlivesContext
<1>1. IInv => NothingOutlivesContext BY NothingLeftOver
<1> QED BY <1>1, OwnershipInvariant, PTL

\* who terminates and is not through
Stuck(r, o) == o \in Actors /\ Live(r, o) /\ r.own[o].terminating /\ ~r.own[o].destroyed

\* When nothing is under way and no pipe is left to go, who terminates waits for a child
\* that terminates too.
LEMMA Waiting ==
  ASSUME NEW r, Good(r, {}), Busy(r), \A o \in Actors : Live(r, o) => Box(r, o) = << >>,
         \A c \in Objects : r.pipes[c].asked # {} => r.pipes[c].ends = {}, NEW o, Stuck(r, o)
  PROVE  \E c \in Objects : r.own[c].owner = o /\ Stuck(r, c)
<1>1. /\ r \in States /\ Kinds(r) /\ Stages(r, {}) /\ Held(r, {}) /\ EndsOK(r) /\ Balanced(r, {})
      /\ o \in Actors /\ Live(r, o) /\ r.own[o].terminating /\ ~r.own[o].destroyed
      /\ Objects \subseteq Actors
  BY DEF Good, Stuck, Actors
<1>2. \A p \in Actors : \A S : Count(Box(r, p), S) + Cardinality({} \cap S) = 0
  <2> SUFFICES ASSUME NEW p \in Actors, NEW S PROVE Count(Box(r, p), S) + Cardinality({} \cap S) = 0
    OBVIOUS
  <2>1. Box(r, p) = << >> BY DEF Box
  <2>2. Count(Box(r, p), S) = 0 BY <2>1, CountEmpty
  <2>3. Cardinality({} \cap S) = 0 BY FS_EmptySet
  <2> QED BY <2>2, <2>3
<1>3. \A m : m.dest \in Actors => Num(r, {}, m) = 0 BY <1>2 DEF Num, Total
<1>4. Cnt(r, {}, o) = 0 BY <1>1, <1>2 DEF Cnt, Total
<1>5. Num(r, {}, Ack(o)) = 0 BY <1>1, <1>3, VocabularyTypes
<1> DEFINE x == r.own[o]
           W == Told(r, {}, o)
<1>6. /\ x.sent_seqnum = x.processed_seqnum + Cnt(r, {}, o)
      /\ x.term_acks = Num(r, {}, Ack(o)) + Cardinality(W) + Left(x)
  BY <1>1 DEF Balanced
<1>7. x.processed_seqnum \in Nat BY <1>1 DEF States, Object
<1>8. x.sent_seqnum # x.processed_seqnum \/ x.term_acks # 0 BY <1>1 DEF Busy, Waits
<1>9. IsFiniteSet(W) BY OwnershipAssumption, FS_Subset DEF Told
<1>10. Cardinality(W) \in Nat /\ (Cardinality(W) = 0 <=> W = {})
  BY <1>9, FS_CardinalityType, FS_EmptySet
<1>11. Left(x) = 0
  <2>1. CASE ~x.reaping BY <2>1 DEF Left
  <2>2. CASE x.reaping
    <3>1. o \in Sockets BY <1>1, <2>2 DEF Kinds, Actors
    <3>2. x.pipes \subseteq Objects BY <1>1 DEF States, Object
    <3>3. ASSUME NEW c \in x.pipes PROVE FALSE
      <4>1. c \in Objects /\ 1 \in r.pipes[c].asked BY <1>1, <2>2, <3>1, <3>2, <3>3 DEF EndsOK
      <4>2. Holds(r, {}, o, c) BY <3>3 DEF Holds
      <4>3. 1 \in r.pipes[c].ends BY <1>1, <3>1, <4>1, <4>2 DEF Held
      <4> QED BY <4>1, <4>3
    <3>4. x.pipes = {} BY <3>3
    <3> QED BY <3>4, FS_EmptySet DEF Left
  <2> QED BY <2>1, <2>2
<1> HIDE DEF x
<1>12. W # {}
  <2> HIDE DEF W
  <2> QED BY <1>4, <1>5, <1>6, <1>7, <1>8, <1>10, <1>11
<1>13. PICK c \in W : TRUE BY <1>12
<1>14. c \in Objects /\ c \in Actors /\ Live(r, c) /\ r.own[c].owner = o /\ c \notin r.own[o].owned
  BY <1>1, <1>13 DEF Told, Child
<1>15. r.own[c].terminating
  <2>1. Num(r, {}, Owns(o, c)) + Bit(c \in r.own[o].owned) + Num(r, {}, Term(c))
        + Bit(r.own[c].pending) + Bit(r.own[c].terminating) = 1
    BY <1>1, <1>14 DEF Stages
  <2>2. Num(r, {}, Owns(o, c)) = 0 /\ Num(r, {}, Term(c)) = 0 BY <1>1, <1>3, <1>14, VocabularyTypes
  <2>3. ~r.own[c].pending BY <1>1, <1>14 DEF EndsOK
  <2>4. Bit(c \in r.own[o].owned) = 0 /\ Bit(r.own[c].pending) = 0 BY <1>14, <2>3 DEF Bit
  <2>5. Bit(r.own[c].terminating) \in {0, 1} BY DEF Bit
  <2>6. Bit(r.own[c].terminating) = 1 BY <2>1, <2>2, <2>4, <2>5
  <2> QED BY <2>6 DEF Bit
<1>16. ~r.own[c].destroyed BY <1>1, <1>14 DEF Kinds
<1> QED BY <1>14, <1>15, <1>16 DEF Stuck

\* Owners do not wait in a chain for ever: under a socket there are at most a listener, a
\* session and a connecter.
LEMMA NoneStuck ==
  ASSUME NEW r, Good(r, {}), Busy(r), \A o \in Actors : Live(r, o) => Box(r, o) = << >>,
         \A c \in Objects : r.pipes[c].asked # {} => r.pipes[c].ends = {}
  PROVE  \A s \in Sockets : ~Stuck(r, s)
<1>1. Owners(r) /\ Kinds(r) /\ Sockets \cap Objects = {} BY OwnershipAssumption DEF Good
<1>2. \A o : Stuck(r, o) => \E c \in Objects : r.own[c].owner = o /\ Stuck(r, c) BY Waiting
<1>3. \A c \in Objects : Stuck(r, c) => r.own[c].kind \in {"listener", "session", "connecter"}
  BY <1>1 DEF Kinds, Stuck, Live
<1>4. \A c \in Objects : r.own[c].kind = "connecter" => ~Stuck(r, c)
  <2> SUFFICES ASSUME NEW c \in Objects, r.own[c].kind = "connecter", Stuck(r, c) PROVE FALSE OBVIOUS
  <2>1. PICK d \in Objects : r.own[d].owner = c /\ Stuck(r, d) BY <1>2
  <2> QED BY <1>1, <1>3, <2>1 DEF Owners
<1>5. \A c \in Objects : r.own[c].kind = "session" => ~Stuck(r, c)
  <2> SUFFICES ASSUME NEW c \in Objects, r.own[c].kind = "session", Stuck(r, c) PROVE FALSE OBVIOUS
  <2>1. PICK d \in Objects : r.own[d].owner = c /\ Stuck(r, d) BY <1>2
  <2>2. r.own[d].kind \in {"listener", "session"} BY <1>3, <1>4, <2>1
  <2> QED BY <1>1, <2>1, <2>2 DEF Owners
<1>6. \A c \in Objects : r.own[c].kind = "listener" => ~Stuck(r, c)
  <2> SUFFICES ASSUME NEW c \in Objects, r.own[c].kind = "listener", Stuck(r, c) PROVE FALSE OBVIOUS
  <2>1. PICK d \in Objects : r.own[d].owner = c /\ Stuck(r, d) BY <1>2
  <2>2. r.own[d].kind = "listener" BY <1>3, <1>4, <1>5, <2>1
  <2> QED BY <1>1, <2>1, <2>2 DEF Owners
<1> QED BY <1>2, <1>3, <1>4, <1>5, <1>6

\* zmq_ctx_term waits while the threads of the library have nothing left to do: impossible.
LEMMA NoVainWait ==
  ASSUME IInv
  PROVE  TermReturns
<1> SUFFICES ASSUME Quiet, sockets \subseteq closed, term = "waiting" PROVE FALSE BY DEF TermReturns
<1> DEFINE r == State
           Q == mail["reaper"]
<1>1. /\ Q = << >> /\ mail["term"] = << >>
      /\ \A slot \in Slots : mail[slot] = << >> \/ (slot \in Sockets /\ ~Runs(slot))
      /\ \A s \in sockets : ~(own[s].reaping /\ own[s].destroyed)
      /\ \A c \in Objects : pipes[c].asked # {} => pipes[c].ends = {}
  BY DEF Quiet
<1>2. \A S : Count(Q, S) = 0 BY <1>1, CountEmpty
<1>3. terminating /\ sockets = {s \in Sockets : own[s].kind = "socket"} BY DEF IInv, Context
<1>4. \A s \in sockets : own[s].reaping
  <2> SUFFICES ASSUME NEW s \in sockets PROVE own[s].reaping OBVIOUS
  <2>1. Count(Q, {Reap(s)}) = Bit(s \in closed /\ ~own[s].reaping) BY DEF IInv, Context
  <2> QED BY <1>2, <2>1 DEF Bit
<1>5. \A s \in sockets : own[s].terminating /\ ~own[s].destroyed BY <1>1, <1>3, <1>4 DEF IInv, Context
<1>6. \A s \in sockets : mail[s] = << >> BY <1>1, <1>3, <1>4 DEF Runs, Slots
<1>7. Good(r, {}) /\ Busy(r) /\ r.own = own /\ r.mail = mail /\ r.pipes = pipes BY StateParts DEF IInv
<1>8. /\ Count(Q, {StopCmd}) + Bit(reaper.terminating) = Bit(terminating /\ sockets = {})
      /\ Len(mail["term"]) + Bit(term = "deleted") = Bit(reaper.terminating /\ reaper.sockets = 0)
      /\ reaper.sockets = Cardinality(Reaping) + Count(Q, {ReapedCmd})
  BY DEF IInv, Context
<1> HIDE DEF r, Q
<1>9. Kinds(r) BY <1>7 DEF Good
<1>10. \A o \in Actors : Live(r, o) => Box(r, o) = << >>
  <2> SUFFICES ASSUME NEW o \in Actors, Live(r, o) PROVE r.mail[r.own[o].tid] = << >> BY DEF Box
  <2>1. CASE o \in Sockets
    <3>1. own[o].kind = "socket" /\ own[o].tid = o BY <1>7, <1>9, <2>1 DEF Kinds, Live
    <3> QED BY <1>3, <1>6, <1>7, <2>1, <3>1
  <2>2. CASE o \in Objects
    <3>1. own[o].tid \in IoThreads BY <1>7, <1>9, <2>2 DEF Kinds
    <3> QED BY <1>1, <1>7, <3>1, OwnershipAssumption DEF Slots
  <2> QED BY <2>1, <2>2 DEF Actors
<1>11. \A s \in Sockets : ~Stuck(r, s) BY <1>1, <1>7, <1>10, NoneStuck
<1>12. sockets = {}
  <2>1. \A s \in sockets : Stuck(r, s) BY <1>3, <1>5, <1>7 DEF Stuck, Live, Actors
  <2> QED BY <1>3, <1>11, <2>1
<1>13. reaper.terminating
  <2>1. Bit(terminating /\ sockets = {}) = 1 BY <1>3, <1>12 DEF Bit
  <2>2. Bit(reaper.terminating) # 0 BY <1>2, <1>8, <2>1
  <2> QED BY <2>2 DEF Bit
<1>14. reaper.sockets = 0
  <2>1. Reaping = {} BY <1>12 DEF Reaping
  <2> QED BY <1>2, <1>8, <2>1, FS_EmptySet
<1>15. Bit(reaper.terminating /\ reaper.sockets = 0) = 1 BY <1>13, <1>14 DEF Bit
<1>16. Len(mail["term"]) = 0 /\ Bit(term = "deleted") = 0 BY <1>1 DEF Bit
<1> QED BY <1>8, <1>15, <1>16

\* ctx_t::terminate never waits for nothing: when every socket is closed and the threads
\* come to rest, the reaper has said that it is done.
THEOREM TermReturnsThm == Spec => []TermReturns
<1>1. IInv => TermReturns BY NoVainWait
<1> QED BY <1>1, OwnershipInvariant, PTL
=============================================================================
