------------------------------ MODULE Pipe_proofs ------------------------------
(***************************************************************************)
(* For every choice of water marks, users and hiccups: the two ends of a   *)
(* pipe terminate safely and neither lets go before it has read what the   *)
(* other left for it.                                                      *)
(***************************************************************************)
EXTENDS Pipe, FiniteSetTheorems, TLAPS

Items == Frames \cup {"delimiter"}
Queues == [flushed : Seq(Items), pending : Seq(Items), partial : Seq(Items), asleep : BOOLEAN]
Cmds == [type : {"activate_read", "activate_write", "hiccup", "pipe_term", "pipe_term_ack"},
         arg : Nat]
States == {"active", "delimiter_received", "waiting_for_delimiter",
           "term_ack_sent", "term_req_sent1", "term_req_sent2", "deleted"}
Users == [frames : SUBSET Frames, written : Nat, hiccups : Nat, reads : BOOLEAN]
Pipes == [inpipe : Nat, outpipe : Nat, in_active : BOOLEAN, out_active : BOOLEAN,
          hwm : Nat, lwm : Nat, msgs_read : Nat, msgs_written : Int, peers_msgs_read : Nat,
          state : States, delay : BOOLEAN, user : Users]

TypeOK ==
    /\ pipe \in [Ends -> Pipes]
    /\ queue \in Seq(Queues) /\ Len(queue) >= 2
    /\ mailbox \in [Ends -> Seq(Cmds)]
    /\ terminating \subseteq Ends
    /\ failed \in BOOLEAN
-----------------------------------------------------------------------------
(* The handshake of the two terminations. *)

State(e) == pipe[e].state
Has(box, type) == \E i \in DOMAIN box : box[i].type = type

Asked    == {"term_req_sent1", "term_req_sent2"}
NotTold  == {"active", "delimiter_received", "term_req_sent1"}
Answered == {"term_ack_sent", "term_req_sent2", "deleted"}

\* the states the peer may be in
Partners(s) ==
    CASE s = "active"                -> {"active", "delimiter_received", "term_req_sent1"}
      [] s = "delimiter_received"    -> {"active", "delimiter_received", "term_req_sent1"}
      [] s = "waiting_for_delimiter" -> {"term_req_sent1"}
      [] s = "term_ack_sent"         -> {"term_req_sent1", "deleted"}
      [] s = "term_req_sent1"        -> States \ {"deleted"}
      [] s = "term_req_sent2"        -> {"term_req_sent1", "term_req_sent2", "deleted"}
      [] OTHER                       -> Answered

\* nothing follows an acknowledgement; after a request no other and no hiccup
Ordered(box) ==
    \A i, j \in DOMAIN box : i < j =>
       /\ box[i].type # "pipe_term_ack"
       /\ box[i].type = "pipe_term" => box[j].type \notin {"pipe_term", "hiccup"}

Told(e) ==
    /\ Has(mailbox[e], "pipe_term") <=> State(Peer(e)) \in Asked /\ State(e) \in NotTold
    /\ Has(mailbox[e], "pipe_term_ack") <=> State(Peer(e)) \in Answered /\ State(e) # "deleted"
    /\ Ordered(mailbox[e])
    /\ State(e) = "deleted" => mailbox[e] = << >>

Shake(e) ==
    /\ State(Peer(e)) \in Partners(State(e))
    /\ Told(e)
    /\ pipe[e].outpipe = Null <=> State(e) \in Answered
    /\ e \in terminating => State(e) \in {"term_req_sent1", "waiting_for_delimiter"}

Handshake == ~failed /\ \A e \in Ends : Shake(e)
-----------------------------------------------------------------------------
(* The ypipes: 2 from the session to the socket for good; from the socket  *)
(* to the session 1 first, and a new one at each hiccup.                   *)

Renewed(box) == {box[i].arg : i \in {i \in DOMAIN box : box[i].type = "hiccup"}}
Rising(box) ==
    \A i, j \in DOMAIN box :
       i < j /\ box[i].type = "hiccup" /\ box[j].type = "hiccup" => box[i].arg < box[j].arg
Newest(q) == IF Len(q) = 2 THEN 1 ELSE Len(q)

Addresses ==
    /\ pipe[1].inpipe = (IF State(1) = "deleted" THEN Null ELSE 2)
    /\ pipe[2].inpipe = (IF State(2) = "deleted" THEN Null ELSE Newest(queue))
    /\ pipe[2].outpipe \in {2, Null}
    /\ pipe[1].outpipe \in (DOMAIN queue \cup {Null}) \ {2}
    /\ ~Has(mailbox[2], "hiccup")
    /\ Rising(mailbox[1])
    /\ freed \subseteq DOMAIN queue
    /\ 2 \in freed <=> State(1) = "deleted"
    /\ IF pipe[1].outpipe # Null
         THEN /\ freed \ {2} = {i \in DOMAIN queue \ {2} : i < pipe[1].outpipe}
              /\ Renewed(mailbox[1]) = {i \in DOMAIN queue \ {2} : i > pipe[1].outpipe}
         ELSE freed \ {2, Newest(queue)} = DOMAIN queue \ {2, Newest(queue)}
    /\ pipe[1].outpipe = Null => (Newest(queue) \in freed <=> State(2) = "deleted")
    /\ State(1) \notin NotTold => ~Has(mailbox[1], "hiccup")
-----------------------------------------------------------------------------
(* What the ypipes hold. *)

Bare(q) == q.flushed = << >> /\ q.pending = << >> /\ q.partial = << >>
Whole(s) == s # << >> => s[Len(s)] # "part"
Ended(q) == \E i \in DOMAIN q.flushed : q.flushed[i] = "delimiter"

\* whole messages only are flushed, and nothing after the delimiter
Shape(q) ==
    /\ Whole(q.flushed) /\ Whole(q.pending)
    /\ \A i \in DOMAIN q.flushed : q.flushed[i] = "delimiter" =>
          i = Len(q.flushed) /\ (i > 1 => q.flushed[i - 1] # "part")
    /\ \A i \in DOMAIN q.pending : q.pending[i] # "delimiter"
    /\ \A i \in DOMAIN q.partial : q.partial[i] # "delimiter"
    /\ Ended(q) => q.pending = << >> /\ q.partial = << >>

Gone(e) == State(e) = "deleted" \/ (State(e) = "term_req_sent1" /\ e \notin terminating)

Drained(e) ==
    State(e) = "delimiter_received" \/ (State(e) = "term_ack_sent" /\ pipe[e].delay) =>
       Bare(In(e)) /\ Gone(Peer(e))

Contents ==
    /\ \A i \in DOMAIN queue : Shape(queue[i])
    /\ pipe[1].outpipe # Null =>
          \A i \in DOMAIN queue \ {2} : i > pipe[1].outpipe => Bare(queue[i])
    /\ \A e \in Ends : pipe[e].outpipe # Null /\ Ended(Out(e)) =>
          State(e) \notin {"active", "delimiter_received"} /\ e \notin terminating
    /\ \A e \in Ends : Drained(e)

IInv == TypeOK /\ Handshake /\ Addresses /\ Contents
-----------------------------------------------------------------------------
\* The two ends of a pipe are each other's peer.
LEMMA Peers ==
  ASSUME NEW e \in Ends
  PROVE  /\ Peer(e) \in Ends /\ Peer(e) # e /\ Peer(Peer(e)) = e
         /\ Ends = {e, Peer(e)} /\ Ends = {1, 2}
BY DEF Ends, Peer

\* A mailbox after object_t::send_command has put one more command at its
\* end.
LEMMA Posted ==
  ASSUME NEW box \in Seq(Cmds), NEW c \in Cmds
  PROVE  /\ Append(box, c) \in Seq(Cmds) /\ Append(box, c) # << >>
         /\ \A t : Has(Append(box, c), t) <=> Has(box, t) \/ c.type = t
         /\ Ordered(box) /\ ~Has(box, "pipe_term_ack")
              /\ (Has(box, "pipe_term") => c.type \notin {"pipe_term", "hiccup"})
            => Ordered(Append(box, c))
         /\ Renewed(Append(box, c)) =
              Renewed(box) \cup (IF c.type = "hiccup" THEN {c.arg} ELSE {})
         /\ Rising(box) /\ (c.type = "hiccup" => \A a \in Renewed(box) : a < c.arg)
            => Rising(Append(box, c))
<1> DEFINE new == Append(box, c)
<1>1. /\ new \in Seq(Cmds) /\ Len(new) = Len(box) + 1 /\ Len(box) \in Nat
      /\ new[Len(box) + 1] = c /\ \A i \in DOMAIN box : new[i] = box[i]
      /\ DOMAIN box = 1..Len(box) /\ DOMAIN new = DOMAIN box \cup {Len(box) + 1}
      /\ \A i \in DOMAIN box : i < Len(box) + 1 /\ i \in Nat /\ i # Len(box) + 1
  OBVIOUS
<1>2. new # << >> BY <1>1
<1> HIDE DEF new
<1>3. \A t : Has(new, t) <=> Has(box, t) \/ c.type = t
  <2> TAKE t
  <2>1. Has(box, t) => Has(new, t) BY <1>1 DEF Has
  <2>2. c.type = t => Has(new, t) BY <1>1 DEF Has
  <2>3. Has(new, t) => Has(box, t) \/ c.type = t BY <1>1 DEF Has
  <2> QED BY <2>1, <2>2, <2>3
<1>4. ASSUME Ordered(box), ~Has(box, "pipe_term_ack"),
             Has(box, "pipe_term") => c.type \notin {"pipe_term", "hiccup"}
      PROVE  Ordered(new)
  <2> SUFFICES ASSUME NEW i \in DOMAIN new, NEW j \in DOMAIN new, i < j
               PROVE  /\ new[i].type # "pipe_term_ack"
                      /\ new[i].type = "pipe_term" => new[j].type \notin {"pipe_term", "hiccup"}
    BY DEF Ordered
  <2>1. i \in DOMAIN box BY <1>1
  <2>2. CASE j \in DOMAIN box BY <1>1, <1>4, <2>1, <2>2 DEF Ordered
  <2>3. CASE j = Len(box) + 1 BY <1>1, <1>4, <2>1, <2>3 DEF Has
  <2> QED BY <1>1, <2>2, <2>3
<1>5. Renewed(new) = Renewed(box) \cup (IF c.type = "hiccup" THEN {c.arg} ELSE {})
  <2>1. ASSUME NEW a \in Renewed(box) PROVE a \in Renewed(new) BY <1>1, <2>1 DEF Renewed
  <2>2. c.type = "hiccup" => c.arg \in Renewed(new) BY <1>1 DEF Renewed
  <2>3. ASSUME NEW a \in Renewed(new)
        PROVE  a \in Renewed(box) \/ (c.type = "hiccup" /\ a = c.arg)
    BY <1>1, <2>3 DEF Renewed
  <2> QED BY <2>1, <2>2, <2>3
<1>6. ASSUME Rising(box), c.type = "hiccup" => \A a \in Renewed(box) : a < c.arg
      PROVE  Rising(new)
  <2> SUFFICES ASSUME NEW i \in DOMAIN new, NEW j \in DOMAIN new, i < j,
                      new[i].type = "hiccup", new[j].type = "hiccup"
               PROVE  new[i].arg < new[j].arg
    BY DEF Rising
  <2>1. i \in DOMAIN box BY <1>1
  <2>2. CASE j \in DOMAIN box BY <1>1, <1>6, <2>1, <2>2 DEF Rising
  <2>3. CASE j = Len(box) + 1 BY <1>1, <1>6, <2>1, <2>3 DEF Renewed
  <2> QED BY <1>1, <2>2, <2>3
<1> QED BY <1>1, <1>2, <1>3, <1>4, <1>5, <1>6 DEF new

\* A mailbox after its first command has been taken.
LEMMA Taken ==
  ASSUME NEW box \in Seq(Cmds), box # << >>
  PROVE  /\ Head(box) \in Cmds /\ Tail(box) \in Seq(Cmds)
         /\ \A t : Has(box, t) <=> Has(Tail(box), t) \/ Head(box).type = t
         /\ Ordered(box) =>
              /\ Ordered(Tail(box))
              /\ Head(box).type = "pipe_term_ack" => Tail(box) = << >>
              /\ Head(box).type = "pipe_term" =>
                   ~Has(Tail(box), "pipe_term") /\ ~Has(Tail(box), "hiccup")
         /\ Renewed(box) =
              Renewed(Tail(box)) \cup (IF Head(box).type = "hiccup" THEN {Head(box).arg} ELSE {})
         /\ Rising(box) =>
              /\ Rising(Tail(box))
              /\ Head(box).type = "hiccup" => \A a \in Renewed(Tail(box)) : Head(box).arg < a
<1> DEFINE h == Head(box)
           r == Tail(box)
<1>1. /\ h \in Cmds /\ r \in Seq(Cmds) /\ Len(r) = Len(box) - 1 /\ Len(box) \in Nat \ {0}
      /\ 1 \in DOMAIN box /\ box[1] = h /\ DOMAIN r = 1..(Len(box) - 1)
      /\ \A i \in DOMAIN r : i \in Nat /\ i + 1 \in DOMAIN box /\ 1 < i + 1 /\ r[i] = box[i + 1]
      /\ \A i \in DOMAIN box : i \in Nat /\ (i = 1 \/ (i - 1 \in DOMAIN r /\ r[i - 1] = box[i]))
  OBVIOUS
<1> HIDE DEF h, r
<1>2. \A t : Has(box, t) <=> Has(r, t) \/ h.type = t
  <2> TAKE t
  <2>1. Has(r, t) => Has(box, t) BY <1>1 DEF Has
  <2>2. h.type = t => Has(box, t) BY <1>1 DEF Has
  <2>3. Has(box, t) => Has(r, t) \/ h.type = t BY <1>1 DEF Has
  <2> QED BY <2>1, <2>2, <2>3
<1>3. ASSUME Ordered(box) PROVE Ordered(r)
  <2> SUFFICES ASSUME NEW i \in DOMAIN r, NEW j \in DOMAIN r, i < j
               PROVE  /\ r[i].type # "pipe_term_ack"
                      /\ r[i].type = "pipe_term" => r[j].type \notin {"pipe_term", "hiccup"}
    BY DEF Ordered
  <2>1. i + 1 < j + 1 BY <1>1
  <2> QED BY <1>1, <1>3, <2>1 DEF Ordered
<1>4. ASSUME Ordered(box), h.type = "pipe_term_ack" PROVE r = << >>
  <2>1. 2 \notin DOMAIN box
    <3> SUFFICES ASSUME 2 \in DOMAIN box PROVE FALSE OBVIOUS
    <3>1. 1 < 2 OBVIOUS
    <3> QED BY <1>1, <1>4, <3>1 DEF Ordered
  <2>2. Len(box) = 1 BY <1>1, <2>1
  <2> QED BY <1>1, <2>2
<1>5. ASSUME Ordered(box), h.type = "pipe_term"
      PROVE  ~Has(r, "pipe_term") /\ ~Has(r, "hiccup")
  BY <1>1, <1>5 DEF Ordered, Has
<1>6. Renewed(box) = Renewed(r) \cup (IF h.type = "hiccup" THEN {h.arg} ELSE {})
  <2>1. ASSUME NEW a \in Renewed(r) PROVE a \in Renewed(box)
    <3>1. PICK i \in DOMAIN r : r[i].type = "hiccup" /\ r[i].arg = a BY <2>1 DEF Renewed
    <3> QED BY <1>1, <3>1 DEF Renewed
  <2>2. h.type = "hiccup" => h.arg \in Renewed(box) BY <1>1 DEF Renewed
  <2>3. ASSUME NEW a \in Renewed(box)
        PROVE  a \in Renewed(r) \/ (h.type = "hiccup" /\ a = h.arg)
    BY <1>1, <2>3 DEF Renewed
  <2> QED BY <2>1, <2>2, <2>3
<1>7. ASSUME Rising(box) PROVE Rising(r)
  <2> SUFFICES ASSUME NEW i \in DOMAIN r, NEW j \in DOMAIN r, i < j,
                      r[i].type = "hiccup", r[j].type = "hiccup"
               PROVE  r[i].arg < r[j].arg
    BY DEF Rising
  <2>1. i + 1 < j + 1 BY <1>1
  <2> QED BY <1>1, <1>7, <2>1 DEF Rising
<1>8. ASSUME Rising(box), h.type = "hiccup" PROVE \A a \in Renewed(r) : h.arg < a
  <2> TAKE a \in Renewed(r)
  <2>1. PICK i \in DOMAIN r : r[i].type = "hiccup" /\ r[i].arg = a BY DEF Renewed
  <2> QED BY <1>1, <1>8, <2>1 DEF Rising
<1> QED BY <1>1, <1>2, <1>3, <1>4, <1>5, <1>6, <1>7, <1>8 DEF h, r
-----------------------------------------------------------------------------
\* The pipe pair as pipepair () leaves it.
LEMMA Initially == Init => IInv
<1> SUFFICES ASSUME Init PROVE IInv OBVIOUS
<1>1. PICK s \in Scenarios : pipe = [e \in Ends |->
          [inpipe |-> Peer(e), outpipe |-> e, in_active |-> TRUE, out_active |-> TRUE,
           hwm |-> s.hwm[e], lwm |-> compute_lwm(s.hwm[Peer(e)]),
           msgs_read |-> 0, msgs_written |-> 0, peers_msgs_read |-> 0,
           state |-> "active", delay |-> s.delay[e], user |-> s.user[e]]]
  BY DEF Init
<1>2. \A h \in Nat : compute_lwm(h) \in Nat
  BY PipeAssumption DEF compute_lwm
<1>3. s.hwm \in [Ends -> Nat] /\ s.delay \in [Ends -> BOOLEAN] /\ s.user \in [Ends -> Users]
  BY PipeAssumption DEF Users
<1>4. pipe \in [Ends -> Pipes]
  <2> SUFFICES ASSUME NEW e \in Ends PROVE pipe[e] \in Pipes BY <1>1
  <2>1. /\ s.hwm[e] \in Nat /\ compute_lwm(s.hwm[Peer(e)]) \in Nat
        /\ s.delay[e] \in BOOLEAN /\ s.user[e] \in Users
    BY <1>2, <1>3, Peers
  <2>2. Peer(e) \in Nat /\ e \in Nat BY DEF Peer, Ends
  <2> QED BY <1>1, <2>1, <2>2 DEF Pipes, States
<1>5. Empty \in Queues /\ Bare(Empty) /\ Shape(Empty) /\ ~Ended(Empty)
  BY DEF Empty, Queues, Bare, Shape, Whole, Ended
<1>6. queue \in Seq(Queues) /\ Len(queue) = 2 /\ \A i \in DOMAIN queue : queue[i] = Empty
  BY <1>5 DEF Init
<1>7. /\ \A e \in Ends : mailbox[e] = << >> /\ State(e) = "active"
      /\ \A e \in Ends : pipe[e].inpipe = Peer(e) /\ pipe[e].outpipe = e
  BY <1>1 DEF Init, State
<1>8. TypeOK
  <2>1. << >> \in Seq(Cmds) OBVIOUS
  <2>2. mailbox \in [Ends -> Seq(Cmds)] BY <2>1 DEF Init
  <2>3. terminating \subseteq Ends /\ failed \in BOOLEAN BY DEF Init
  <2>4. Len(queue) >= 2 BY <1>6
  <2> QED BY <1>4, <1>6, <2>2, <2>3, <2>4 DEF TypeOK
<1>9. /\ \A t : ~Has(<< >>, t)
      /\ Ordered(<< >>) /\ Rising(<< >>) /\ Renewed(<< >>) = {}
  BY DEF Has, Ordered, Rising, Renewed
<1>10. Handshake
  <2> SUFFICES ASSUME NEW e \in Ends PROVE Shake(e) BY DEF Handshake, Init
  <2>1. State(e) = "active" /\ State(Peer(e)) = "active" BY <1>7, Peers
  <2>2. Told(e) BY <1>7, <1>9, <2>1 DEF Told, Asked, NotTold, Answered
  <2>3. pipe[e].outpipe # Null BY <1>7 DEF Ends, Null
  <2> QED BY <2>1, <2>2, <2>3 DEF Shake, Partners, Answered, Init
<1>11. Addresses
  <2>1. pipe[1].inpipe = 2 /\ pipe[2].inpipe = 1 /\ pipe[1].outpipe = 1 /\ pipe[2].outpipe = 2
    BY <1>7 DEF Ends, Peer
  <2>2. DOMAIN queue = {1, 2} BY <1>6
  <2>3. freed = {} BY DEF Init
  <2>4. mailbox[1] = << >> /\ mailbox[2] = << >> /\ State(1) = "active" /\ State(2) = "active"
    BY <1>7 DEF Ends
  <2> QED BY <1>6, <1>9, <2>1, <2>2, <2>3, <2>4 DEF Addresses, Newest, Null, NotTold
<1>12. Contents
  <2>1. \A e \in Ends : ~Ended(Out(e))
    BY <1>5, <1>6, <1>7 DEF Out, Ends
  <2>2. \A e \in Ends : Drained(e) BY <1>7 DEF Drained
  <2> QED BY <1>5, <1>6, <2>1, <2>2 DEF Contents
<1> QED BY <1>8, <1>10, <1>11, <1>12 DEF IInv

\* What pipe_t::inpipe and pipe_t::outpipe point to, for an end that still
\* exists.
LEMMA Links ==
  ASSUME IInv, NEW e \in Ends
  PROVE  /\ Null \notin DOMAIN queue /\ DOMAIN queue = 1..Len(queue) /\ Len(queue) \in Nat
         /\ Newest(queue) \in DOMAIN queue \ {2}
         /\ \A i \in DOMAIN queue \ {2} : i <= Newest(queue)
         /\ pipe[e].outpipe = Null <=> State(e) \in Answered
         /\ Alive(e) => /\ pipe[e].inpipe \in DOMAIN queue \ freed
                        /\ In(e) \in Queues /\ Shape(In(e))
         /\ pipe[e].outpipe # Null => /\ pipe[e].outpipe \in DOMAIN queue \ freed
                                      /\ Out(e) \in Queues /\ Shape(Out(e))
         /\ Alive(e) /\ pipe[Peer(e)].outpipe # Null =>
               pipe[e].inpipe = pipe[Peer(e)].outpipe \/ Bare(In(e))
         /\ Alive(e) => pipe[e].inpipe # pipe[e].outpipe
         /\ Alive(e) => pipe[e].inpipe # pipe[Peer(e)].inpipe
<1>1. /\ Null = 0 /\ Len(queue) \in Nat /\ Len(queue) >= 2 /\ DOMAIN queue = 1..Len(queue)
      /\ \A i \in DOMAIN queue : queue[i] \in Queues
  BY DEF Null, IInv, TypeOK
<1>2. Newest(queue) \in DOMAIN queue \ {2} /\ \A i \in DOMAIN queue \ {2} : i <= Newest(queue)
  BY <1>1 DEF Newest
<1>3. \A d \in Ends : pipe[d].outpipe = Null <=> State(d) \in Answered
  BY DEF IInv, Handshake, Shake
<1>4. /\ State(1) \in States /\ State(2) \in States
      /\ State(2) \in Partners(State(1)) /\ State(1) \in Partners(State(2))
  BY DEF IInv, TypeOK, Handshake, Shake, Peer, Ends, Pipes, State
<1>5. \A d \in Ends : pipe[d].outpipe \in Nat /\ pipe[d].inpipe \in Nat
  BY DEF IInv, TypeOK, Pipes
<1>6. \A i \in DOMAIN queue : Shape(queue[i]) BY DEF IInv, Contents
<1>7. Alive(e) => pipe[e].inpipe \in DOMAIN queue \ freed
  <2>1. CASE e = 1 BY <1>1, <2>1 DEF IInv, Addresses, Alive, State
  <2>2. CASE e = 2 
    <3>1. CASE pipe[1].outpipe = Null
      BY <1>1, <1>2, <2>2, <3>1 DEF IInv, Addresses, Alive, State
    <3>2. CASE pipe[1].outpipe # Null
      <4>1. pipe[1].outpipe <= Newest(queue) BY <1>2, <3>2 DEF IInv, Addresses
      <4>2. Newest(queue) \notin freed BY <1>1, <1>2, <1>5, <3>2, <4>1 DEF IInv, Addresses, Ends
      <4> QED BY <1>2, <2>2, <4>2 DEF IInv, Addresses, Alive, State
    <3> QED BY <3>1, <3>2
  <2> QED BY <2>1, <2>2 DEF Ends
<1>8. pipe[e].outpipe # Null => pipe[e].outpipe \in DOMAIN queue \ freed
  <2>1. CASE e = 1
    BY <1>1, <1>5, <2>1 DEF IInv, Addresses, Ends
  <2>2. CASE e = 2
    BY <1>1, <1>3, <1>4, <2>2 DEF IInv, Addresses, Ends, Partners, Answered
  <2> QED BY <2>1, <2>2 DEF Ends
<1>9. Alive(e) /\ pipe[Peer(e)].outpipe # Null =>
               pipe[e].inpipe = pipe[Peer(e)].outpipe \/ Bare(In(e))
  <2>1. CASE e = 1
    <3>1. Peer(e) = 2 BY <2>1 DEF Peer
    <3> QED BY <2>1, <3>1 DEF IInv, Addresses, Alive, State
  <2>2. CASE e = 2
    <3>1. Peer(e) = 1 BY <2>2 DEF Peer
    <3> SUFFICES ASSUME Alive(e), pipe[1].outpipe # Null, Newest(queue) # pipe[1].outpipe
                 PROVE  Bare(In(e))
      BY <2>2, <3>1 DEF IInv, Addresses, Alive, State
    <3>2. pipe[1].outpipe \in DOMAIN queue \ {2} BY DEF IInv, Addresses
    <3>3. pipe[1].outpipe < Newest(queue) BY <1>1, <1>2, <3>2
    <3>4. pipe[e].inpipe = Newest(queue) BY <2>2 DEF IInv, Addresses, Alive, State
    <3> QED BY <1>2, <3>3, <3>4 DEF IInv, Contents, In
  <2> QED BY <2>1, <2>2 DEF Ends
<1>10. Alive(e) => pipe[e].inpipe # pipe[e].outpipe
  BY <1>1, <1>2 DEF IInv, Addresses, Alive, State, Ends
<1>11. Alive(e) => pipe[e].inpipe # pipe[Peer(e)].inpipe
  BY <1>1, <1>2 DEF IInv, Addresses, Alive, State, Ends, Peer
<1> QED BY <1>1, <1>2, <1>3, <1>6, <1>7, <1>8, <1>9, <1>10, <1>11 DEF In, Out
-----------------------------------------------------------------------------
\* Concatenation of frames, position by position.
LEMMA Joined ==
  ASSUME NEW s \in Seq(Items), NEW t \in Seq(Items)
  PROVE  /\ s \o t \in Seq(Items)
         /\ \A i \in DOMAIN (s \o t) :
               \/ i \in DOMAIN s /\ (s \o t)[i] = s[i]
               \/ i - Len(s) \in DOMAIN t /\ (s \o t)[i] = t[i - Len(s)]
         /\ \A i \in DOMAIN t : Len(s) + i \in DOMAIN (s \o t) /\ (s \o t)[Len(s) + i] = t[i]
         /\ \A i \in DOMAIN s : i \in DOMAIN (s \o t) /\ (s \o t)[i] = s[i]
         /\ Len(s \o t) = Len(s) + Len(t) /\ Len(s) \in Nat /\ Len(t) \in Nat
         /\ DOMAIN s = 1..Len(s) /\ DOMAIN t = 1..Len(t) /\ DOMAIN (s \o t) = 1..(Len(s) + Len(t))
         /\ t # << >> => s \o t # << >> /\ (s \o t)[Len(s \o t)] = t[Len(t)]
<1>1. /\ s \o t \in Seq(Items)
      /\ Len(s \o t) = Len(s) + Len(t) /\ Len(s) \in Nat /\ Len(t) \in Nat
      /\ DOMAIN s = 1..Len(s) /\ DOMAIN t = 1..Len(t) /\ DOMAIN (s \o t) = 1..(Len(s) + Len(t))
  OBVIOUS
<1>2. \A i \in 1..(Len(s) + Len(t)) :
        (s \o t)[i] = IF i <= Len(s) THEN s[i] ELSE t[i - Len(s)]
  OBVIOUS
<1>3. t # << >> => Len(t) > 0 OBVIOUS
<1> DEFINE a == s \o t
<1> HIDE DEF a
<1>4. \A i \in DOMAIN a : \/ i \in DOMAIN s /\ a[i] = s[i]
                          \/ i - Len(s) \in DOMAIN t /\ a[i] = t[i - Len(s)]
  BY <1>1, <1>2 DEF a
<1>5. \A i \in DOMAIN t : Len(s) + i \in DOMAIN a /\ a[Len(s) + i] = t[i]
  <2> TAKE i \in DOMAIN t
  <2>1. Len(s) + i \in 1..(Len(s) + Len(t)) /\ ~(Len(s) + i <= Len(s)) /\ Len(s) + i - Len(s) = i
    BY <1>1
  <2> QED BY <1>1, <1>2, <2>1 DEF a
<1>6. \A i \in DOMAIN s : i \in DOMAIN a /\ a[i] = s[i] BY <1>1, <1>2 DEF a
<1>7. t # << >> => a # << >> /\ a[Len(a)] = t[Len(t)]
  <2> SUFFICES ASSUME t # << >> PROVE a # << >> /\ a[Len(a)] = t[Len(t)] OBVIOUS
  <2>1. Len(t) \in DOMAIN t /\ Len(a) = Len(s) + Len(t) BY <1>1, <1>3 DEF a
  <2> QED BY <1>1, <1>5, <2>1 DEF a
<1> QED BY <1>1, <1>4, <1>5, <1>6, <1>7 DEF a

\* pipe_t::rollback and the flush of a ypipe keep a queue in shape: only
\* flushing shows the reader what was pending.
LEMMA Shapes ==
  ASSUME NEW q \in Queues, Shape(q)
  PROVE  /\ RolledBack(q) \in Queues /\ Shape(RolledBack(q))
         /\ RolledBack(q).flushed = q.flushed /\ RolledBack(q).pending = q.pending
         /\ RolledBack(q).partial = << >>
         /\ Flushed(q) \in Queues /\ Shape(Flushed(q)) 
         /\ Ended(Flushed(q)) => Ended(q)
         /\ Bare(q) => Bare(Flushed(q))
<1> DEFINE r == RolledBack(q)
           f == Flushed(q)
<1>1. /\ q.flushed \in Seq(Items) /\ q.pending \in Seq(Items) /\ q.partial \in Seq(Items)
      /\ q.asleep \in BOOLEAN
  BY DEF Queues
<1>2. << >> \in Seq(Items) OBVIOUS
<1>3. /\ r \in Queues /\ r.flushed = q.flushed /\ r.pending = q.pending /\ r.partial = << >>
  BY <1>1, <1>2 DEF RolledBack, Queues
<1>4. Shape(r) BY <1>3 DEF Shape, Ended
<1>5. CASE q.pending = << >>
  <2>1. f = q BY <1>5 DEF Flushed
  <2> QED BY <1>3, <1>4, <2>1
<1>6. CASE q.pending # << >>
  <2> DEFINE a == q.flushed \o q.pending
  <2>1. a \in Seq(Items) BY <1>1, Joined
  <2>2. f = [q EXCEPT !.flushed = a, !.pending = << >>, !.asleep = FALSE]
    BY <1>6 DEF Flushed, Queues
  <2>3. ~Ended(q) BY <1>6 DEF Shape
  <2>4. \A i \in DOMAIN a : a[i] # "delimiter"
    <3> TAKE i \in DOMAIN a
    <3>1. CASE i \in DOMAIN q.flushed /\ a[i] = q.flushed[i] BY <2>3, <3>1 DEF Ended
    <3>2. CASE i - Len(q.flushed) \in DOMAIN q.pending /\ a[i] = q.pending[i - Len(q.flushed)]
      BY <3>2 DEF Shape
    <3>3. \/ i \in DOMAIN q.flushed /\ a[i] = q.flushed[i]
          \/ i - Len(q.flushed) \in DOMAIN q.pending /\ a[i] = q.pending[i - Len(q.flushed)]
      BY <1>1, Joined, ZenonT(60)
    <3> QED BY <3>1, <3>2, <3>3
  <2>5. Whole(a)
    <3>1. a[Len(a)] = q.pending[Len(q.pending)] BY <1>1, <1>6, Joined
    <3> QED BY <1>6, <3>1 DEF Shape, Whole
  <2> HIDE DEF a
  <2>9. /\ f \in Queues /\ f.flushed = a /\ f.pending = << >> /\ f.partial = q.partial
    BY <1>1, <1>2, <2>1, <2>2 DEF Queues
  <2> HIDE DEF f
  <2>6. Shape(f) BY <2>4, <2>5, <2>9 DEF Shape, Ended, Whole
  <2>7. ~Ended(f) BY <2>4, <2>9 DEF Ended
  <2>8. ~Bare(q) BY <1>6 DEF Bare
  <2> QED BY <1>3, <1>4, <2>6, <2>7, <2>8, <2>9 DEF f
<1> QED BY <1>5, <1>6

\* nothing is written after the delimiter
LEMMA Writes ==
  ASSUME NEW q \in Queues, Shape(q), ~Ended(q)
  PROVE  /\ \A f \in Frames : LET w == Written(q, f)
                              IN  w \in Queues /\ Shape(w) /\ ~Ended(w)
         /\ LET w == Written(RolledBack(q), "delimiter")
            IN  /\ w \in Queues /\ w.pending # << >> /\ w.asleep = q.asleep
                /\ Flushed(w) \in Queues /\ Shape(Flushed(w)) 
<1>1. /\ q.flushed \in Seq(Items) /\ q.pending \in Seq(Items) /\ q.partial \in Seq(Items)
      /\ q.asleep \in BOOLEAN /\ << >> \in Seq(Items)
  BY DEF Queues
<1>2. ASSUME NEW f \in Frames
      PROVE  Written(q, f) \in Queues /\ Shape(Written(q, f)) /\ ~Ended(Written(q, f))
  <2> DEFINE w == Written(q, f)
             s == Append(q.partial, f)
  <2>1. f \in Items /\ f # "delimiter" BY DEF Items, Frames
  <2>2. /\ s \in Seq(Items) /\ Len(s) = Len(q.partial) + 1 /\ s[Len(s)] = f /\ Len(q.partial) \in Nat
        /\ \A i \in DOMAIN s : s[i] # "delimiter"
    BY <1>1, <2>1 DEF Shape
  <2>3. CASE f = "part"
    <3>1. /\ w \in Queues /\ w.flushed = q.flushed /\ w.pending = q.pending /\ w.partial = s
      BY <1>1, <2>2, <2>3 DEF Written, Queues
    <3> QED BY <2>2, <3>1 DEF Shape, Ended
  <2>4. CASE f # "part"
    <3>6. w = [q EXCEPT !.pending = @ \o s, !.partial = << >>] BY <2>4 DEF Written, Queues
    <3> HIDE DEF s
    <3> DEFINE t == q.pending \o s
    <3>1. t \in Seq(Items) BY <1>1, <2>2, Joined
    <3>2. w = [q EXCEPT !.pending = t, !.partial = << >>] BY <3>6
    <3>3. Whole(t)
      <4>1. s # << >> BY <2>2
      <4>2. t[Len(t)] = s[Len(s)] BY <1>1, <2>2, <4>1, Joined
      <4> QED BY <2>2, <2>4, <4>2 DEF Whole
    <3>4. \A i \in DOMAIN t : t[i] # "delimiter"
      <4> TAKE i \in DOMAIN t
      <4>1. CASE i \in DOMAIN q.pending /\ t[i] = q.pending[i] BY <4>1 DEF Shape
      <4>2. CASE i - Len(q.pending) \in DOMAIN s /\ t[i] = s[i - Len(q.pending)] BY <2>2, <4>2
      <4>3. \/ i \in DOMAIN q.pending /\ t[i] = q.pending[i]
            \/ i - Len(q.pending) \in DOMAIN s /\ t[i] = s[i - Len(q.pending)]
        BY <1>1, <2>2, Joined, SMTT(30)
      <4> QED BY <4>1, <4>2, <4>3
    <3> HIDE DEF t
    <3>5. w \in Queues /\ w.flushed = q.flushed /\ w.pending = t /\ w.partial = << >>
      BY <1>1, <3>1, <3>2 DEF Queues
    <3> QED BY <3>3, <3>4, <3>5 DEF Shape, Ended
  <2> QED BY <2>3, <2>4
<1>3. LET w == Written(RolledBack(q), "delimiter")
      IN  /\ w \in Queues /\ w.pending # << >> /\ w.asleep = q.asleep
          /\ Flushed(w) \in Queues /\ Shape(Flushed(w))
  <2> DEFINE w == Written(RolledBack(q), "delimiter")
             f == Flushed(w)
             t == Append(q.pending, "delimiter")
  <2>1. /\ t \in Seq(Items) /\ Len(t) = Len(q.pending) + 1 /\ Len(q.pending) \in Nat
        /\ \A i \in 1..Len(q.pending) : t[i] = q.pending[i]
        /\ t[Len(t)] = "delimiter"
    BY <1>1 DEF Items
  <2>2. q.pending \o Append(<< >>, "delimiter") = t BY <1>1
  <2>3. t # << >> BY <2>1
  <2>4. w = [RolledBack(q) EXCEPT !.pending = t, !.partial = << >>]
    BY <2>2 DEF Written, RolledBack, Queues
  <2>5. /\ w \in Queues /\ w.flushed = q.flushed /\ w.pending = t /\ w.partial = << >>
        /\ w.asleep = q.asleep
    BY <1>1, <2>1, <2>4 DEF RolledBack, Queues
  <2> HIDE DEF w, t
  <2> DEFINE a == q.flushed \o t
  <2>6. /\ a \in Seq(Items) /\ Len(a) = Len(q.flushed) + Len(t) /\ Len(q.flushed) \in Nat
        /\ DOMAIN a = 1..Len(a) /\ DOMAIN q.flushed = 1..Len(q.flushed) /\ DOMAIN t = 1..Len(t)
    BY <1>1, <2>1, Joined
  <2>13. \A i \in DOMAIN a :
            \/ i \in DOMAIN q.flushed /\ a[i] = q.flushed[i]
            \/ i - Len(q.flushed) \in DOMAIN t /\ a[i] = t[i - Len(q.flushed)]
    BY <1>1, <2>1, Joined
  <2>14. \A i \in DOMAIN t : a[Len(q.flushed) + i] = t[i] BY <1>1, <2>1, Joined, SMTT(30)
  <2>15. \A i \in DOMAIN q.flushed : a[i] = q.flushed[i] BY <1>1, <2>1, Joined
  <2>9. a[Len(a)] = "delimiter" BY <1>1, <2>1, <2>3, Joined
  <2> HIDE DEF a
  <2>10. \A i \in DOMAIN a : i # Len(a) => a[i] # "delimiter"
    <3> TAKE i \in DOMAIN a
    <3> SUFFICES ASSUME i # Len(a) PROVE a[i] # "delimiter" OBVIOUS
    <3>1. CASE i \in DOMAIN q.flushed /\ a[i] = q.flushed[i] BY <3>1 DEF Ended
    <3>2. CASE i - Len(q.flushed) \in DOMAIN t /\ a[i] = t[i - Len(q.flushed)]
      <4>1. i - Len(q.flushed) \in 1..Len(q.pending)
        <5>1. Len(t) = Len(q.pending) + 1 /\ Len(q.pending) \in Nat BY <2>1
        <5>2. DOMAIN t = 1..Len(t) /\ DOMAIN a = 1..Len(a) BY <2>6
        <5>3. Len(a) = Len(q.flushed) + Len(t) /\ Len(q.flushed) \in Nat BY <2>6
        <5>4. i - Len(q.flushed) \in 1..Len(t) /\ i \in 1..Len(a) BY <3>2, <5>2
        <5>5. \A n, m \in Nat : \A k \in 1..(m + (n + 1)) :
                k - m \in 1..(n + 1) /\ k # m + (n + 1) => k - m \in 1..n
          OBVIOUS
        <5> QED BY <5>1, <5>3, <5>4, <5>5
      <4>2. t[i - Len(q.flushed)] = q.pending[i - Len(q.flushed)] BY <2>1, <4>1
      <4>3. i - Len(q.flushed) \in DOMAIN q.pending BY <1>1, <4>1
      <4> QED BY <3>2, <4>2, <4>3 DEF Shape
    <3> QED BY <2>13, <3>1, <3>2
  <2>11. Len(a) > 1 => a[Len(a) - 1] # "part"
    <3> SUFFICES ASSUME Len(a) > 1 PROVE a[Len(a) - 1] # "part" OBVIOUS
    <3>1. CASE q.pending = << >>
      <4>1. Len(a) - 1 = Len(q.flushed) BY <1>1, <2>1, <2>6, <3>1
      <4>2. Len(q.flushed) \in DOMAIN q.flushed BY <1>1, <2>6, <4>1
      <4>3. a[Len(a) - 1] = q.flushed[Len(q.flushed)] /\ q.flushed # << >>
        BY <2>15, <4>1, <4>2
      <4> QED BY <4>3 DEF Shape, Whole
    <3>2. CASE q.pending # << >>
      <4>1. Len(q.pending) > 0 BY <1>1, <3>2
      <4>2. Len(q.pending) \in DOMAIN t /\ Len(a) - 1 = Len(q.flushed) + Len(q.pending)
        <5>1. Len(t) = Len(q.pending) + 1 /\ Len(q.pending) \in Nat BY <2>1
        <5>2. DOMAIN t = 1..Len(t) BY <2>6
        <5>3. Len(a) = Len(q.flushed) + Len(t) /\ Len(q.flushed) \in Nat /\ Len(a) \in Nat BY <2>6
        <5>4. \A n \in Nat : n > 0 => n \in 1..(n + 1) OBVIOUS
        <5>5. Len(a) - 1 = Len(q.flushed) + Len(q.pending)
          <6>1. Len(a) = Len(q.flushed) + (Len(q.pending) + 1) BY <5>1, <5>3
          <6>2. \A n, m, l \in Nat : l = m + (n + 1) => l - 1 = m + n OBVIOUS
          <6> QED BY <5>1, <5>3, <6>1, <6>2, Zenon
        <5>6. Len(q.pending) \in DOMAIN t BY <4>1, <5>1, <5>2, <5>4
        <5> QED BY <5>5, <5>6
      <4>3. a[Len(a) - 1] = t[Len(q.pending)] BY <2>14, <4>2
      <4>4. t[Len(q.pending)] = q.pending[Len(q.pending)] BY <2>1, <4>1
      <4> QED BY <3>2, <4>3, <4>4 DEF Shape, Whole
    <3> QED BY <3>1, <3>2
  <2>7. /\ f \in Queues /\ f.flushed = a /\ f.pending = << >> /\ f.partial = << >>
    BY <1>1, <2>3, <2>5, <2>6 DEF Flushed, Queues, a
  <2> HIDE DEF f
  <2>12. Shape(f)
    <3>1. Whole(f.flushed) /\ Whole(f.pending) BY <2>7, <2>9 DEF Whole
    <3>2. ~(\E i \in DOMAIN f.pending : TRUE) /\ ~(\E i \in DOMAIN f.partial : TRUE) BY <2>7
    <3> QED BY <2>7, <2>10, <2>11, <3>1, <3>2 DEF Shape
  <2> QED BY <2>3, <2>5, <2>7, <2>12 DEF w, f
<1> QED BY <1>2, <1>3

\* Taking the first frame from a queue: a delimiter is the last one.
LEMMA ReadQueue ==
  ASSUME NEW q \in Queues, Shape(q), q.flushed # << >>,
         NEW r, r = [q EXCEPT !.flushed = Tail(@)]
  PROVE  /\ r \in Queues /\ Shape(r) /\ (Ended(r) => Ended(q))
         /\ Head(q.flushed) = "delimiter" => Ended(q) /\ Bare(r)
         /\ Head(q.flushed) \in Items /\ ~Bare(q)
<1> DEFINE s == q.flushed
           t == Tail(q.flushed)
<1>1. /\ q.flushed \in Seq(Items) /\ q.pending \in Seq(Items) /\ q.partial \in Seq(Items)
      /\ q.asleep \in BOOLEAN
  BY DEF Queues
<1>2. /\ t \in Seq(Items) /\ Len(t) = Len(s) - 1 /\ Len(s) \in Nat \ {0} /\ DOMAIN t = 1..Len(t)
      /\ \A i \in 1..Len(t) : t[i] = s[i + 1] /\ i + 1 \in DOMAIN s
      /\ Head(s) = s[1] /\ Head(s) \in Items /\ 1 \in DOMAIN s
  BY <1>1
<1>3. /\ r \in Queues /\ r.flushed = t /\ r.pending = q.pending /\ r.partial = q.partial
  BY <1>1, <1>2 DEF Queues
<1> HIDE DEF t
<1>4. Ended(r) => Ended(q) BY <1>2, <1>3 DEF Ended
<1>5. Whole(t)
  <2> SUFFICES ASSUME t # << >> PROVE t[Len(t)] # "part" BY DEF Whole
  <2>1. Len(t) \in 1..Len(t) BY <1>2
  <2>2. t[Len(t)] = s[Len(s)] BY <1>2, <2>1
  <2> QED BY <1>2, <2>2 DEF Shape, Whole
<1>6. ASSUME NEW i \in DOMAIN t, t[i] = "delimiter"
      PROVE  i = Len(t) /\ (i > 1 => t[i - 1] # "part")
  <2>1. i + 1 \in DOMAIN s /\ s[i + 1] = "delimiter" BY <1>2, <1>6
  <2>7. i \in Nat /\ i + 1 > 1 BY <1>2
  <2>2. i + 1 = Len(s) /\ s[i + 1 - 1] # "part" BY <2>1, <2>7 DEF Shape
  <2>3. i > 1 => t[i - 1] = s[i - 1 + 1] BY <1>2, SMTT(30)
  <2>4. i \in 1..Len(t) /\ Len(t) \in Nat BY <1>2
  <2>5. i = Len(t) BY <1>2, <2>2, <2>4
  <2>6. i > 1 => i - 1 \in 1..Len(t) BY <2>4
  <2> QED BY <1>2, <2>2, <2>3, <2>4, <2>5, <2>6
<1>7. Shape(r) BY <1>3, <1>4, <1>5, <1>6 DEF Shape
<1>8. ASSUME Head(s) = "delimiter" PROVE Ended(q) /\ Bare(r)
  <2>1. Ended(q) BY <1>2, <1>8 DEF Ended
  <2>2. Len(s) = 1 BY <1>2, <1>8 DEF Shape
  <2>3. t = << >> BY <1>2, <2>2
  <2> QED BY <1>3, <2>1, <2>3 DEF Shape, Bare
<1>9. ~Bare(q) BY DEF Bare
<1> QED BY <1>2, <1>3, <1>4, <1>7, <1>8, <1>9
-----------------------------------------------------------------------------
\* What a step may change of a mailbox that no other part of the argument sees.
Alike(b, c) ==
    /\ \A t \in {"hiccup", "pipe_term", "pipe_term_ack"} : Has(c, t) <=> Has(b, t)
    /\ Ordered(b) => Ordered(c)
    /\ Renewed(c) = Renewed(b)
    /\ Rising(b) => Rising(c)

Quiet(boxes, new) ==
    /\ new \in [Ends -> Seq(Cmds)]
    /\ \A d \in Ends : Alike(boxes[d], new[d]) /\ (State(d) = "deleted" /\ boxes[d] = << >> => new[d] = << >>)

Unmoved ==
    \A d \in Ends : /\ pipe'[d].state = pipe[d].state
                    /\ pipe'[d].inpipe = pipe[d].inpipe /\ pipe'[d].outpipe = pipe[d].outpipe
                    /\ pipe'[d].delay = pipe[d].delay

Steady ==
    /\ pipe' \in [Ends -> Pipes] /\ Unmoved
    /\ queue' \in Seq(Queues) /\ Len(queue') = Len(queue)
    /\ Quiet(mailbox, mailbox')
    /\ terminating' \subseteq terminating
    /\ UNCHANGED <<freed, failed>>

\* What a mailbox may hold, by the states of the two ends.
LEMMA Boxes ==
  ASSUME IInv, NEW e \in Ends
  PROVE  /\ mailbox \in [Ends -> Seq(Cmds)]
         /\ mailbox[e] \in Seq(Cmds) /\ Ordered(mailbox[e])
         /\ Has(mailbox[e], "hiccup") => e = 1 /\ Rising(mailbox[e])
         /\ Has(mailbox[e], "pipe_term") <=> State(Peer(e)) \in Asked /\ State(e) \in NotTold
         /\ Has(mailbox[e], "pipe_term_ack") <=> State(Peer(e)) \in Answered /\ State(e) # "deleted"
         /\ State(e) = "deleted" => mailbox[e] = << >>
         /\ State(e) \in States /\ State(Peer(e)) \in States
         /\ State(Peer(e)) \in Partners(State(e)) /\ State(e) \in Partners(State(Peer(e)))
         /\ e \in terminating => State(e) \in {"term_req_sent1", "waiting_for_delimiter"}
         /\ pipe[e] \in Pipes /\ pipe \in [Ends -> Pipes]
BY Peers DEF IInv, TypeOK, Handshake, Shake, Told, Addresses, Pipes, State

\* A mailbox with no hiccup in it carries no new ypipe.
LEMMA NoHiccup ==
  ASSUME NEW b, b \in Seq(Cmds), ~Has(b, "hiccup")
  PROVE  Renewed(b) = {} /\ Rising(b)
BY DEF Has, Renewed, Rising

\* An activate_read or activate_write sent to the peer leaves the handshake
\* where it was.
LEMMA WakesQuietly ==
  ASSUME IInv, NEW e \in Ends, State(e) \notin Answered,
         NEW c \in Cmds, c.type \in {"activate_read", "activate_write"}
  PROVE  Quiet(mailbox, Deliver(mailbox, Peer(e), c))
<1> DEFINE p == Peer(e)
           new == Deliver(mailbox, p, c)
<1>1. p \in Ends /\ p # e /\ Ends = {e, p} /\ Peer(p) = e BY Peers
<1>2. /\ mailbox \in [Ends -> Seq(Cmds)] /\ mailbox[p] \in Seq(Cmds)
      /\ ~Has(mailbox[p], "pipe_term_ack") /\ State(p) # "deleted"
  BY <1>1, Boxes DEF Partners, Answered
<1>3. /\ new \in [Ends -> Seq(Cmds)] /\ new[p] = Append(mailbox[p], c)
      /\ new[e] = mailbox[e]
  BY <1>1, <1>2 DEF Deliver
<1>4. Alike(mailbox[p], new[p])
  <2> DEFINE b == mailbox[p]
             a == Append(b, c)
  <2>1. /\ \A t : Has(a, t) <=> Has(b, t) \/ c.type = t
        /\ Ordered(b) => Ordered(a)
        /\ Rising(b) => Rising(a)
    BY <1>2, Posted
  <2>2. Renewed(a) = Renewed(b) \cup (IF c.type = "hiccup" THEN {c.arg} ELSE {})
    BY <1>2, Posted
  <2>3. c.type \notin {"hiccup", "pipe_term", "pipe_term_ack"} OBVIOUS
  <2> HIDE DEF a, b
  <2>4. Alike(b, a) BY <2>1, <2>2, <2>3 DEF Alike
  <2> QED BY <1>3, <2>4 DEF a, b
<1>5. Alike(mailbox[e], new[e]) BY <1>3 DEF Alike
<1> QED BY <1>1, <1>2, <1>3, <1>4, <1>5 DEF Quiet

\* So does taking one of them from the mailbox.
LEMMA TakesQuietly ==
  ASSUME IInv, NEW e \in Ends, mailbox[e] # << >>,
         Head(mailbox[e]).type \in {"activate_read", "activate_write"}
  PROVE  Quiet(mailbox, [mailbox EXCEPT ![e] = Tail(@)])
<1> DEFINE new == [mailbox EXCEPT ![e] = Tail(@)]
<1>1. mailbox \in [Ends -> Seq(Cmds)] /\ mailbox[e] \in Seq(Cmds) /\ Tail(mailbox[e]) \in Seq(Cmds)
  BY Boxes, Taken
<1>2. /\ new \in [Ends -> Seq(Cmds)] /\ new[e] = Tail(mailbox[e])
      /\ \A d \in Ends \ {e} : new[d] = mailbox[d]
  BY <1>1
<1>3. Alike(mailbox[e], new[e])
  <2> DEFINE b == mailbox[e]
             r == Tail(b)
             h == Head(b)
  <2>1. /\ \A t : Has(b, t) <=> Has(r, t) \/ h.type = t
        /\ Ordered(b) => Ordered(r)
        /\ Rising(b) => Rising(r)
    BY <1>1, Taken
  <2>2. Renewed(b) = Renewed(r) \cup (IF h.type = "hiccup" THEN {h.arg} ELSE {})
    BY <1>1, Taken
  <2>3. h.type \notin {"hiccup", "pipe_term", "pipe_term_ack"} OBVIOUS
  <2> HIDE DEF b, r, h
  <2>4. Alike(b, r) BY <2>1, <2>2, <2>3 DEF Alike
  <2> QED BY <1>2, <2>4 DEF b, r
<1>4. \A d \in Ends \ {e} : Alike(mailbox[d], new[d]) BY <1>2 DEF Alike
<1> QED BY <1>2, <1>3, <1>4 DEF Quiet

\* A step that moves no state of an end, no pointer and no termination
\* command keeps the handshake and the addresses.
LEMMA SteadyKeeps ==
  ASSUME IInv, Steady
  PROVE  TypeOK' /\ Handshake' /\ Addresses'
<1>1. TypeOK' BY DEF IInv, TypeOK, Steady, Quiet
<1>2. \A d \in Ends : State(d)' = State(d) BY DEF Steady, Unmoved, State
<1>3. Handshake'
  <2>1. ~failed' BY DEF IInv, Handshake, Steady
  <2> SUFFICES ASSUME NEW e \in Ends PROVE Shake(e)' BY <2>1 DEF Handshake
  <2>2. Peer(e) \in Ends BY Peers
  <2>3. Shake(e) /\ Alike(mailbox[e], mailbox'[e]) BY DEF IInv, Handshake, Steady, Quiet
  <2>4. State(e) = "deleted" => mailbox'[e] = << >>
    BY Boxes DEF Steady, Quiet
  <2>5. Told(e)' BY <1>2, <2>2, <2>3, <2>4 DEF Shake, Told, Alike
  <2> QED BY <1>2, <2>2, <2>3, <2>5 DEF Shake, Steady, Unmoved
<1>4. Addresses'
  <2>1. Newest(queue') = Newest(queue) /\ DOMAIN queue' = DOMAIN queue
    BY DEF Newest, Steady, IInv, TypeOK
  <2>2. Alike(mailbox[1], mailbox'[1]) /\ Alike(mailbox[2], mailbox'[2])
    BY DEF Steady, Quiet, Ends
  <2>3. /\ State(1)' = State(1) /\ State(2)' = State(2) /\ freed' = freed
        /\ pipe'[1].inpipe = pipe[1].inpipe /\ pipe'[1].outpipe = pipe[1].outpipe
        /\ pipe'[2].inpipe = pipe[2].inpipe /\ pipe'[2].outpipe = pipe[2].outpipe
    BY <1>2 DEF Ends, Steady, Unmoved
  <2> QED BY <2>1, <2>2, <2>3 DEF IInv, Addresses, Alike
<1> QED BY <1>1, <1>3, <1>4

\* Steps that take from the ypipes, or move what is in them.
LEMMA NothingAdded ==
  ASSUME IInv, Steady,
         \A i \in DOMAIN queue : /\ Shape(queue'[i]) 
                                 /\ Bare(queue[i]) => Bare(queue'[i])
                                 /\ Ended(queue'[i]) => Ended(queue[i])
  PROVE  IInv'
<1>1. DOMAIN queue' = DOMAIN queue BY DEF IInv, TypeOK, Steady
<1>2. /\ \A d \in Ends : State(d)' = State(d) /\ pipe'[d].outpipe = pipe[d].outpipe
                         /\ pipe'[d].inpipe = pipe[d].inpipe /\ pipe'[d].delay = pipe[d].delay
      /\ terminating' \subseteq terminating
  BY DEF Steady, Unmoved, State
<1>3. pipe'[1].outpipe # Null =>
          \A i \in DOMAIN queue' \ {2} : i > pipe'[1].outpipe => Bare(queue'[i])
  BY <1>1, <1>2 DEF IInv, Contents, Ends
<1>4. ASSUME NEW d \in Ends, pipe'[d].outpipe # Null, Ended(Out(d))'
      PROVE  State(d)' \notin {"active", "delimiter_received"} /\ d \notin terminating'
  <2>1. pipe[d].outpipe # Null /\ pipe[d].outpipe \in DOMAIN queue BY <1>2, <1>4, Links
  <2>2. Ended(queue'[pipe[d].outpipe]) BY <1>2, <1>4 DEF Out
  <2>3. Ended(Out(d)) BY <2>1, <2>2 DEF Out
  <2> QED BY <1>2, <2>1, <2>3 DEF IInv, Contents
<1>5. ASSUME NEW d \in Ends PROVE Drained(d)'
  <2> SUFFICES ASSUME State(d)' = "delimiter_received"
                        \/ (State(d)' = "term_ack_sent" /\ pipe'[d].delay)
               PROVE  Bare(In(d))' /\ Gone(Peer(d))'
    BY DEF Drained
  <2>1. Peer(d) \in Ends BY Peers
  <2>2. Bare(In(d)) /\ Gone(Peer(d)) BY <1>2 DEF IInv, Contents, Drained
  <2>3. pipe[d].inpipe \in DOMAIN queue BY <1>2, Links DEF Alive, State
  <2> QED BY <1>2, <2>1, <2>2, <2>3 DEF In, Gone
<1>6. Contents' BY <1>1, <1>3, <1>4, <1>5 DEF Contents
<1> QED BY <1>6, SteadyKeeps DEF IInv

\* Steps that write to an outpipe.
LEMMA Added ==
  ASSUME IInv, Steady, NEW e \in Ends, pipe[e].outpipe # Null, ~Gone(e),
         NEW q \in Queues, Shape(q),
         Ended(q) => State(e) \notin {"active", "delimiter_received"} /\ e \notin terminating',
         queue' = [queue EXCEPT ![pipe[e].outpipe] = q]
  PROVE  IInv'
<1> DEFINE o == pipe[e].outpipe
           p == Peer(e)
<1>1. /\ o \in DOMAIN queue /\ queue \in Seq(Queues) /\ DOMAIN queue' = DOMAIN queue
      /\ queue'[o] = q /\ \A i \in DOMAIN queue \ {o} : queue'[i] = queue[i]
      /\ Null \notin DOMAIN queue
  BY Links DEF IInv, TypeOK
<1>2. /\ \A d \in Ends : State(d)' = State(d) /\ pipe'[d].outpipe = pipe[d].outpipe
                         /\ pipe'[d].inpipe = pipe[d].inpipe /\ pipe'[d].delay = pipe[d].delay
      /\ terminating' \subseteq terminating
  BY DEF Steady, Unmoved, State
<1>3. p \in Ends /\ p # e /\ Ends = {e, p} /\ Peer(p) = e /\ Ends = {1, 2} BY Peers
<1>4. pipe[p].outpipe # o
  BY <1>1, <1>3 DEF IInv, Addresses
<1>5. ASSUME pipe'[1].outpipe # Null, NEW i \in DOMAIN queue' \ {2}, i > pipe'[1].outpipe
      PROVE  Bare(queue'[i])
  <2>1. i # o BY <1>2, <1>3, <1>5, Links DEF IInv, Addresses, Ends
  <2> QED BY <1>1, <1>2, <1>5, <2>1 DEF IInv, Contents, Ends
<1>6. ASSUME NEW d \in Ends, pipe'[d].outpipe # Null, Ended(Out(d))'
      PROVE  State(d)' \notin {"active", "delimiter_received"} /\ d \notin terminating'
  <2>1. CASE d = e BY <1>1, <1>2, <1>6, <2>1 DEF Out
  <2>2. CASE d = p
    <3>1. pipe[p].outpipe \in DOMAIN queue /\ pipe[p].outpipe # Null BY <1>2, <1>3, <1>6, <2>2, Links
    <3>2. Ended(Out(p)) BY <1>1, <1>2, <1>3, <1>4, <1>6, <2>2, <3>1 DEF Out
    <3> QED BY <1>2, <1>3, <2>2, <3>1, <3>2 DEF IInv, Contents
  <2> QED BY <1>3, <2>1, <2>2
<1>7. ASSUME NEW d \in Ends PROVE Drained(d)'
  <2> SUFFICES ASSUME State(d)' = "delimiter_received"
                        \/ (State(d)' = "term_ack_sent" /\ pipe'[d].delay)
               PROVE  Bare(In(d))' /\ Gone(Peer(d))'
    BY DEF Drained
  <2>1. Bare(In(d)) /\ Gone(Peer(d)) BY <1>2 DEF IInv, Contents, Drained
  <2>2. d = e BY <1>3, <2>1
  <2>3. pipe[d].inpipe \in DOMAIN queue \ {o} BY <1>2, <2>2, Links DEF Alive, State
  <2> QED BY <1>1, <1>2, <1>3, <2>1, <2>2, <2>3 DEF In, Gone
<1>8. Contents'
  <2>1. \A i \in DOMAIN queue' : Shape(queue'[i]) BY <1>1 DEF IInv, Contents
  <2> QED BY <2>1, <1>5, <1>6, <1>7 DEF Contents
<1> QED BY <1>8, SteadyKeeps DEF IInv
-----------------------------------------------------------------------------
\* Changing one ypipe leaves the others alone.
LEMMA Refill ==
  ASSUME IInv, NEW i \in DOMAIN queue, NEW q \in Queues
  PROVE  LET new == [queue EXCEPT ![i] = q]
         IN  /\ new \in Seq(Queues) /\ Len(new) = Len(queue) /\ DOMAIN new = DOMAIN queue
             /\ new[i] = q /\ \A j \in DOMAIN queue \ {i} : new[j] = queue[j]
BY DEF IInv, TypeOK

\* Leaving the mailboxes alone leaves the handshake alone.
LEMMA Nothing == ASSUME IInv PROVE Quiet(mailbox, mailbox)
<1>1. mailbox \in [Ends -> Seq(Cmds)] BY DEF IInv, TypeOK
<1>2. \A b : Alike(b, b) BY DEF Alike
<1> QED BY <1>1, <1>2 DEF Quiet

\* pipe_t::check_read and read finding nothing to read.
LEMMA ReadNothingKeeps ==
  ASSUME IInv, NEW e \in Ends, ReadNothing(e) PROVE IInv'
<1> DEFINE i == pipe[e].inpipe
           q == [queue[i] EXCEPT !.asleep = TRUE]
<1>1. i \in DOMAIN queue /\ In(e) \in Queues /\ Shape(In(e))
  BY Links DEF ReadNothing, Runs
<1>2. /\ q \in Queues /\ q.flushed = In(e).flushed /\ q.pending = In(e).pending
      /\ q.partial = In(e).partial
  BY <1>1 DEF Queues, In
<1>3. queue' = [queue EXCEPT ![i] = q] BY DEF ReadNothing
<1> HIDE DEF i, q
<1>4. pipe' \in [Ends -> Pipes] /\ Unmoved
  <2>1. pipe' = [pipe EXCEPT ![e].in_active = FALSE] BY DEF ReadNothing
  <2> QED BY <2>1, Boxes, ZenonT(60) DEF Pipes, Unmoved
<1>5. Steady
  <2>1. queue' \in Seq(Queues) /\ Len(queue') = Len(queue) BY <1>1, <1>2, <1>3, Refill
  <2>2. Quiet(mailbox, mailbox') BY Nothing DEF ReadNothing
  <2> QED BY <1>4, <2>1, <2>2 DEF ReadNothing, Steady
<1>6. Shape(q) /\ (Bare(In(e)) => Bare(q)) /\ (Ended(q) => Ended(In(e)))
  BY <1>1, <1>2 DEF Shape, Bare, Ended
<1>7. \A j \in DOMAIN queue : Shape(queue[j]) BY DEF IInv, Contents
<1>8. queue'[i] = q /\ \A j \in DOMAIN queue \ {i} : queue'[j] = queue[j]
  BY <1>1, <1>2, <1>3, Refill
<1> QED BY <1>1, <1>5, <1>6, <1>7, <1>8, NothingAdded DEF In, i

\* pipe_t::check_write refusing at the high-water mark.
LEMMA WriteRefusedKeeps ==
  ASSUME IInv, NEW e \in Ends, WriteRefused(e) PROVE IInv'
<1>1. pipe' \in [Ends -> Pipes] /\ Unmoved
  <2>1. pipe' = [pipe EXCEPT ![e].out_active = FALSE] BY DEF WriteRefused
  <2> QED BY <2>1, Boxes, ZenonT(60) DEF Pipes, Unmoved
<1>2. Steady
  <2>1. queue' = queue /\ mailbox' = mailbox BY DEF WriteRefused
  <2>2. Quiet(mailbox, mailbox') BY <2>1, Nothing
  <2> QED BY <1>1, <2>1, <2>2 DEF WriteRefused, Steady, IInv, TypeOK
<1>3. queue' = queue /\ \A j \in DOMAIN queue : Shape(queue[j])
  BY DEF WriteRefused, IInv, Contents
<1> QED BY <1>2, <1>3, NothingAdded

\* pipe_t::write of one frame.
LEMMA WriteKeeps ==
  ASSUME IInv, NEW e \in Ends, NEW f \in pipe[e].user.frames, Write(e, f) PROVE IInv'
<1> DEFINE i == pipe[e].outpipe
           q == Written(queue[i], f)
<1>1. State(e) = "active" /\ pipe[e].out_active BY DEF Write, State
<1>2. i # Null /\ i \in DOMAIN queue /\ Out(e) \in Queues /\ Shape(Out(e))
  BY <1>1, Links DEF Answered
<1>3. ~Ended(Out(e)) BY <1>1, <1>2 DEF IInv, Contents
<1>4. f \in Frames BY Boxes DEF Pipes, Users
<1>5. q \in Queues /\ Shape(q) /\ ~Ended(q) BY <1>2, <1>3, <1>4, Writes DEF Out
<1>6. queue' = [queue EXCEPT ![i] = q] BY DEF Write
<1> HIDE DEF q
<1>7. pipe' \in [Ends -> Pipes] /\ Unmoved
  <2>1. pipe' = [pipe EXCEPT ![e].msgs_written = IF f \in {"last", "credential"} THEN @ + 1 ELSE @]
    BY DEF Write
  <2> DEFINE n == IF f \in {"last", "credential"} THEN pipe[e].msgs_written + 1
                  ELSE pipe[e].msgs_written
  <2>2. n \in Int BY Boxes DEF Pipes
  <2>3. pipe' = [pipe EXCEPT ![e].msgs_written = n] BY <2>1
  <2> HIDE DEF n
  <2> QED BY <2>2, <2>3, Boxes, ZenonT(60) DEF Pipes, Unmoved
<1>8. Steady
  <2>1. queue' \in Seq(Queues) /\ Len(queue') = Len(queue) BY <1>2, <1>5, <1>6, Refill
  <2>2. Quiet(mailbox, mailbox') BY Nothing DEF Write
  <2> QED BY <1>7, <2>1, <2>2 DEF Write, Steady
<1>9. ~Gone(e) BY <1>1 DEF Gone
<1> QED BY <1>2, <1>5, <1>6, <1>8, <1>9, Added

\* pipe_t::rollback.
LEMMA RollbackKeeps ==
  ASSUME IInv, NEW e \in Ends, Rollback(e) PROVE IInv'
<1> DEFINE i == pipe[e].outpipe
           q == RolledBack(queue[i])
<1>1. i # Null /\ i \in DOMAIN queue /\ Out(e) \in Queues /\ Shape(Out(e)) /\ Out(e).partial # << >>
  BY Links DEF Rollback
<1>2. /\ q \in Queues /\ Shape(q) /\ (Ended(q) => Ended(Out(e))) /\ ~Bare(Out(e))
  BY <1>1, Shapes DEF Out, Bare, Ended
<1>3. queue' = [queue EXCEPT ![i] = q] BY DEF Rollback
<1> HIDE DEF i, q
<1>4. Steady
  <2>1. queue' \in Seq(Queues) /\ Len(queue') = Len(queue) BY <1>1, <1>2, <1>3, Refill
  <2>2. Quiet(mailbox, mailbox') BY Nothing DEF Rollback
  <2>3. pipe' \in [Ends -> Pipes] /\ Unmoved BY Boxes DEF Unmoved, Rollback
  <2> QED BY <2>1, <2>2, <2>3 DEF Rollback, Steady
<1>5. \A j \in DOMAIN queue : Shape(queue[j]) BY DEF IInv, Contents
<1>6. queue'[i] = q /\ \A j \in DOMAIN queue \ {i} : queue'[j] = queue[j]
  BY <1>1, <1>2, <1>3, Refill
<1> QED BY <1>1, <1>2, <1>4, <1>5, <1>6, NothingAdded DEF Out, i

\* what a flush does to the mailboxes
LEMMA FlushToIsSteady ==
  ASSUME IInv, NEW e \in Ends, pipe[e].outpipe # Null, NEW q \in Queues,
         Flushed(q) \in Queues, FlushTo(e, q, mailbox), UNCHANGED <<pipe, freed, failed>>,
         terminating' \subseteq terminating
  PROVE  Steady /\ queue' = [queue EXCEPT ![pipe[e].outpipe] = Flushed(q)]
<1>1. pipe[e].outpipe \in DOMAIN queue /\ State(e) \notin Answered BY Links
<1>2. queue' = [queue EXCEPT ![pipe[e].outpipe] = Flushed(q)] BY DEF FlushTo
<1>3. queue' \in Seq(Queues) /\ Len(queue') = Len(queue)
  BY <1>1, <1>2, Refill
<1>4. Quiet(mailbox, mailbox')
  <2>1. Cmd("activate_read", 0) \in Cmds /\ Cmd("activate_read", 0).type = "activate_read"
    BY DEF Cmd, Cmds
  <2>2. \/ mailbox' = mailbox
        \/ mailbox' = Deliver(mailbox, Peer(e), Cmd("activate_read", 0))
    BY DEF FlushTo
  <2>3. Quiet(mailbox, Deliver(mailbox, Peer(e), Cmd("activate_read", 0)))
    BY <1>1, <2>1, WakesQuietly
  <2> QED BY <2>2, <2>3, Nothing
<1>5. pipe' \in [Ends -> Pipes] /\ Unmoved BY Boxes DEF Unmoved
<1> QED BY <1>2, <1>3, <1>4, <1>5 DEF Steady

\* pipe_t::flush, which wakes the reader when it sleeps.
LEMMA FlushKeeps ==
  ASSUME IInv, NEW e \in Ends, Flush(e) PROVE IInv'
<1> DEFINE i == pipe[e].outpipe
           q == Flushed(Out(e))
<1>1. i # Null /\ i \in DOMAIN queue /\ Out(e) \in Queues /\ Shape(Out(e))
  BY Links DEF Flush
<1>2. q \in Queues /\ Shape(q) /\ (Ended(q) => Ended(Out(e))) /\ (Bare(Out(e)) => Bare(q))
  BY <1>1, Shapes
<1>3. Steady /\ queue' = [queue EXCEPT ![i] = q]
  BY <1>1, <1>2, FlushToIsSteady DEF Flush
<1> HIDE DEF i, q
<1>4. \A j \in DOMAIN queue : Shape(queue[j]) BY DEF IInv, Contents
<1>5. queue'[i] = q /\ \A j \in DOMAIN queue \ {i} : queue'[j] = queue[j]
  BY <1>1, <1>2, <1>3, Refill
<1> QED BY <1>1, <1>2, <1>3, <1>4, <1>5, NothingAdded DEF Out, i

\* The second part of pipe_t::terminate: the unfinished message is dropped
\* and the delimiter written and flushed.
LEMMA WriteDelimiterKeeps ==
  ASSUME IInv, NEW e \in Ends, WriteDelimiter(e) PROVE IInv'
<1> DEFINE i == pipe[e].outpipe
           w == Written(RolledBack(Out(e)), "delimiter")
           q == Flushed(w)
<1>1. e \in terminating /\ State(e) \in {"term_req_sent1", "waiting_for_delimiter"}
  BY Boxes DEF WriteDelimiter
<1>2. i # Null /\ i \in DOMAIN queue /\ Out(e) \in Queues /\ Shape(Out(e))
  BY <1>1, Links DEF Answered
<1>3. ~Ended(Out(e)) BY <1>1, <1>2 DEF IInv, Contents
<1>4. w \in Queues /\ q \in Queues /\ Shape(q)
  BY <1>2, <1>3, Writes
<1>5. Steady /\ queue' = [queue EXCEPT ![i] = q]
  <2>1. FlushTo(e, w, mailbox) /\ UNCHANGED <<pipe, freed, failed>> BY DEF WriteDelimiter
  <2>2. terminating' \subseteq terminating BY DEF WriteDelimiter
  <2> HIDE DEF w
  <2> QED BY <1>2, <1>4, <2>1, <2>2, FlushToIsSteady
<1>6. e \notin terminating' BY DEF WriteDelimiter
<1>7. ~Gone(e) BY <1>1 DEF Gone
<1> HIDE DEF i, q
<1> QED BY <1>1, <1>2, <1>4, <1>5, <1>6, <1>7, Added DEF i
-----------------------------------------------------------------------------
Mailboxes == [Ends -> Seq(Cmds)]

SameHiccups(boxes, new) ==
    \A d \in Ends : /\ Has(new[d], "hiccup") <=> Has(boxes[d], "hiccup")
                    /\ Renewed(new[d]) = Renewed(boxes[d])
                    /\ Rising(boxes[d]) => Rising(new[d])

\* The two mailboxes after a command other than hiccup was sent to one of
\* them.
LEMMA PostedBox ==
  ASSUME NEW boxes \in Mailboxes, NEW p \in Ends, NEW c \in Cmds, c.type # "hiccup"
  PROVE  /\ Deliver(boxes, p, c) \in Mailboxes /\ SameHiccups(boxes, Deliver(boxes, p, c))
         /\ \A t : Has(Deliver(boxes, p, c)[p], t) <=> Has(boxes[p], t) \/ c.type = t
         /\ Ordered(boxes[p]) /\ ~Has(boxes[p], "pipe_term_ack")
              /\ (Has(boxes[p], "pipe_term") => c.type # "pipe_term") => Ordered(Deliver(boxes, p, c)[p])
         /\ \A d \in Ends \ {p} : Deliver(boxes, p, c)[d] = boxes[d]
<1> DEFINE new == Deliver(boxes, p, c)
           b == boxes[p]
           a == Append(b, c)
<1>1. b \in Seq(Cmds) BY DEF Mailboxes
<1>2. /\ a \in Seq(Cmds) /\ \A t : Has(a, t) <=> Has(b, t) \/ c.type = t
      /\ Rising(b) => Rising(a)
  BY <1>1, Posted
<1>3. Renewed(a) = Renewed(b) \cup (IF c.type = "hiccup" THEN {c.arg} ELSE {})
  BY <1>1, Posted
<1>4. Ordered(b) /\ ~Has(b, "pipe_term_ack")
        /\ (Has(b, "pipe_term") => c.type # "pipe_term") => Ordered(a)
  BY <1>1, Posted
<1>5. /\ new \in Mailboxes /\ new[p] = a
      /\ \A d \in Ends \ {p} : new[d] = boxes[d]
  BY <1>2 DEF Deliver, Mailboxes
<1> HIDE DEF a, new
<1>6. SameHiccups(boxes, new) BY <1>2, <1>3, <1>5 DEF SameHiccups
<1> QED BY <1>2, <1>4, <1>5, <1>6 DEF new

\* The same of the step that sends it to the peer.
LEMMA Delivered ==
  ASSUME NEW b \in Mailboxes, NEW e \in Ends, NEW c \in Cmds, c.type # "hiccup",
         mailbox' = Deliver(b, Peer(e), c)
  PROVE  /\ mailbox' \in Mailboxes /\ SameHiccups(b, mailbox')
         /\ \A t : Has(mailbox'[Peer(e)], t) <=> Has(b[Peer(e)], t) \/ c.type = t
         /\ Ordered(b[Peer(e)]) /\ ~Has(b[Peer(e)], "pipe_term_ack")
              /\ (Has(b[Peer(e)], "pipe_term") => c.type # "pipe_term")
            => Ordered(mailbox'[Peer(e)])
         /\ mailbox'[e] = b[e]
<1> DEFINE p == Peer(e)
<1>1. p \in Ends /\ e \in Ends \ {p} BY Peers
<1> HIDE DEF p
<1>2. Deliver(b, p, c) \in Mailboxes /\ SameHiccups(b, Deliver(b, p, c))
  BY <1>1, PostedBox
<1>3. \A t : Has(Deliver(b, p, c)[p], t) <=> Has(b[p], t) \/ c.type = t BY <1>1, PostedBox
<1>4. Ordered(b[p]) /\ ~Has(b[p], "pipe_term_ack")
        /\ (Has(b[p], "pipe_term") => c.type # "pipe_term") => Ordered(Deliver(b, p, c)[p])
  BY <1>1, PostedBox
<1>5. Deliver(b, p, c)[e] = b[e] BY <1>1, PostedBox
<1>6. mailbox' = Deliver(b, p, c) BY DEF p
<1> QED BY <1>2, <1>3, <1>4, <1>5, <1>6 DEF p

Rest(boxes, e) == [boxes EXCEPT ![e] = Tail(@)]

\* The two mailboxes after one of them gave up its first command.
LEMMA TakenBox ==
  ASSUME NEW boxes \in Mailboxes, NEW e \in Ends, boxes[e] # << >>,
         Head(boxes[e]).type # "hiccup"
  PROVE  /\ Rest(boxes, e) \in Mailboxes /\ SameHiccups(boxes, Rest(boxes, e))
         /\ \A t : Has(boxes[e], t) <=> Has(Rest(boxes, e)[e], t) \/ Head(boxes[e]).type = t
         /\ Ordered(boxes[e]) =>
              /\ Ordered(Rest(boxes, e)[e])
              /\ Head(boxes[e]).type = "pipe_term_ack" => Rest(boxes, e)[e] = << >>
              /\ Head(boxes[e]).type = "pipe_term" =>
                   ~Has(Rest(boxes, e)[e], "pipe_term") /\ ~Has(Rest(boxes, e)[e], "hiccup")
         /\ \A d \in Ends \ {e} : Rest(boxes, e)[d] = boxes[d]
<1> DEFINE new == Rest(boxes, e)
           b == boxes[e]
           r == Tail(b)
           h == Head(b)
<1>1. b \in Seq(Cmds) BY DEF Mailboxes
<1>2. /\ r \in Seq(Cmds) /\ \A t : Has(b, t) <=> Has(r, t) \/ h.type = t
      /\ Rising(b) => Rising(r)
  BY <1>1, Taken
<1>3. Renewed(b) = Renewed(r) \cup (IF h.type = "hiccup" THEN {h.arg} ELSE {})
  BY <1>1, Taken
<1>4. Ordered(b) =>
        /\ Ordered(r)
        /\ h.type = "pipe_term_ack" => r = << >>
        /\ h.type = "pipe_term" => ~Has(r, "pipe_term") /\ ~Has(r, "hiccup")
  BY <1>1, Taken
<1>5. /\ new \in Mailboxes /\ new[e] = r
      /\ \A d \in Ends \ {e} : new[d] = boxes[d]
  BY <1>2 DEF Rest, Mailboxes
<1>6. h.type # "hiccup" OBVIOUS
<1> HIDE DEF r, h, new
<1>7. SameHiccups(boxes, new) BY <1>2, <1>3, <1>5, <1>6 DEF SameHiccups
<1> QED BY <1>2, <1>4, <1>5, <1>7 DEF h, new

\* A step that creates and frees no ypipe keeps the addresses, when an end
\* lets go of its outpipe only with no hiccup on its way.
LEMMA AddressesStay ==
  ASSUME IInv, Len(queue') = Len(queue), DOMAIN queue' = DOMAIN queue, freed' = freed,
         \A d \in Ends : /\ pipe'[d].inpipe = pipe[d].inpipe
                         /\ pipe'[d].outpipe \in {pipe[d].outpipe, Null}
                         /\ State(d)' = "deleted" <=> State(d) = "deleted",
         SameHiccups(mailbox, mailbox'),
         (pipe'[1].outpipe = Null /\ pipe[1].outpipe # Null)
           \/ (State(1)' \notin NotTold /\ State(1) \in NotTold) => ~Has(mailbox[1], "hiccup")
  PROVE  Addresses'
<1>1. Newest(queue') = Newest(queue) BY DEF Newest
<1>2. /\ pipe'[1].inpipe = pipe[1].inpipe /\ pipe'[1].outpipe \in {pipe[1].outpipe, Null}
      /\ pipe'[2].inpipe = pipe[2].inpipe /\ pipe'[2].outpipe \in {pipe[2].outpipe, Null}
      /\ State(1)' = "deleted" <=> State(1) = "deleted"
      /\ State(2)' = "deleted" <=> State(2) = "deleted"
      /\ Has(mailbox'[2], "hiccup") <=> Has(mailbox[2], "hiccup")
      /\ Has(mailbox'[1], "hiccup") <=> Has(mailbox[1], "hiccup")
      /\ Renewed(mailbox'[1]) = Renewed(mailbox[1])
      /\ Rising(mailbox'[1])
  BY DEF Ends, SameHiccups, IInv, Addresses
<1>3. CASE pipe'[1].outpipe = Null /\ pipe[1].outpipe # Null
  <2>1. ~Has(mailbox[1], "hiccup") /\ mailbox[1] \in Seq(Cmds) /\ State(2) # "deleted"
    BY <1>3, Boxes, Links DEF Ends, Peer, Partners, Answered
  <2>2. Renewed(mailbox[1]) = {} BY <2>1, NoHiccup
  <2>3. /\ pipe[1].outpipe \in DOMAIN queue \ {2} /\ pipe[1].outpipe \in Nat
        /\ Newest(queue) \in DOMAIN queue \ {2} /\ DOMAIN queue \subseteq Nat
        /\ \A i \in DOMAIN queue \ {2} : i <= Newest(queue)
    <3>1. pipe[1].outpipe \in DOMAIN queue \ {2} BY <1>3 DEF IInv, Addresses
    <3>2. DOMAIN queue \subseteq Nat BY DEF IInv, TypeOK
    <3>3. /\ Newest(queue) \in DOMAIN queue \ {2}
          /\ \A i \in DOMAIN queue \ {2} : i <= Newest(queue)
      BY Links DEF Ends
    <3> QED BY <3>1, <3>2, <3>3
  <2>4. {i \in DOMAIN queue \ {2} : i > pipe[1].outpipe} = {}
    BY <1>3, <2>2 DEF IInv, Addresses
  <2>5. pipe[1].outpipe = Newest(queue) BY <2>3, <2>4
  <2>6. freed \ {2} = {i \in DOMAIN queue \ {2} : i < Newest(queue)}
    BY <1>3, <2>5 DEF IInv, Addresses
  <2>7. freed \ {2, Newest(queue)} = DOMAIN queue \ {2, Newest(queue)} /\ Newest(queue) \notin freed
    BY <2>3, <2>6
  <2>8. freed' \ {2, Newest(queue')} = DOMAIN queue' \ {2, Newest(queue')}
    BY <1>1, <2>7
  <2>9. Newest(queue') \in freed' <=> State(2)' = "deleted" BY <1>1, <1>2, <2>1, <2>7
  <2>10. State(1)' \notin NotTold => ~Has(mailbox'[1], "hiccup") BY <1>2, <2>1
  <2>11. /\ pipe'[1].inpipe = (IF State(1)' = "deleted" THEN Null ELSE 2)
         /\ pipe'[2].inpipe = (IF State(2)' = "deleted" THEN Null ELSE Newest(queue'))
         /\ pipe'[2].outpipe \in {2, Null}
         /\ pipe'[1].outpipe \in (DOMAIN queue' \cup {Null}) \ {2}
    BY <1>1, <1>2, <1>3 DEF IInv, Addresses, Null
  <2>12. /\ ~Has(mailbox'[2], "hiccup") /\ Rising(mailbox'[1])
         /\ freed' \subseteq DOMAIN queue' /\ (2 \in freed' <=> State(1)' = "deleted")
    BY <1>1, <1>2 DEF IInv, Addresses
  <2> QED BY <1>3, <2>8, <2>9, <2>10, <2>11, <2>12 DEF Addresses
<1>4. CASE pipe'[1].outpipe = pipe[1].outpipe
  <2>1. State(1)' \notin NotTold => ~Has(mailbox'[1], "hiccup")
    BY <1>2 DEF IInv, Addresses
  <2> QED BY <1>1, <1>2, <1>4, <2>1 DEF IInv, Addresses
<1> QED BY <1>2, <1>3, <1>4

\* A step that adds nothing to the queues keeps what is known of their
\* contents.
LEMMA LessContents ==
  ASSUME IInv, DOMAIN queue' = DOMAIN queue,
         \A i \in DOMAIN queue : /\ Shape(queue'[i])
                                 /\ Bare(queue[i]) => Bare(queue'[i])
                                 /\ Ended(queue'[i]) => Ended(queue[i]),
         \A d \in Ends : /\ pipe'[d].outpipe \in {pipe[d].outpipe, Null}
                         /\ pipe'[d].outpipe # Null /\ Ended(Out(d)) =>
                              /\ State(d)' \notin {"active", "delimiter_received"} 
                              /\ d \notin terminating'
                         /\ Drained(d)'
  PROVE  Contents'
<1>1. pipe'[1].outpipe # Null =>
          \A i \in DOMAIN queue' \ {2} : i > pipe'[1].outpipe => Bare(queue'[i])
  <2>1. pipe'[1].outpipe # Null => pipe'[1].outpipe = pipe[1].outpipe BY DEF Ends
  <2> QED BY <2>1 DEF IInv, Contents
<1>2. ASSUME NEW d \in Ends, pipe'[d].outpipe # Null, Ended(Out(d))'
      PROVE  State(d)' \notin {"active", "delimiter_received"} /\ d \notin terminating'
  <2>1. pipe[d].outpipe = pipe'[d].outpipe /\ pipe[d].outpipe \in DOMAIN queue BY <1>2, Links
  <2>2. Ended(queue'[pipe[d].outpipe]) BY <1>2, <2>1 DEF Out
  <2>3. Ended(Out(d)) BY <2>1, <2>2 DEF Out
  <2> QED BY <1>2, <2>3
<1> QED BY <1>1, <1>2 DEF Contents
-----------------------------------------------------------------------------
\* An end that has waited for the delimiter lets go: it acknowledges the termination.
LEMMA LetsGo ==
  ASSUME IInv, NEW e \in Ends, State(e) = "waiting_for_delimiter", e \notin terminating,
         NEW r \in Pipes, r.state = "term_ack_sent", r.outpipe = Null, r.inpipe = pipe[e].inpipe,
         pipe' = [pipe EXCEPT ![e] = r],
         mailbox' = Deliver(mailbox, Peer(e), Cmd("pipe_term_ack", 0)),
         UNCHANGED <<freed, failed, terminating>>,
         queue' \in Seq(Queues), Len(queue') = Len(queue),
         \A i \in DOMAIN queue : /\ Shape(queue'[i])
                                 /\ Bare(queue[i]) => Bare(queue'[i])
                                 /\ Ended(queue'[i]) => Ended(queue[i]),
         r.delay => Bare(queue'[r.inpipe]) /\ Gone(Peer(e))
  PROVE  IInv'
<1> DEFINE p == Peer(e)
           c == Cmd("pipe_term_ack", 0)
<1>1. p \in Ends /\ p # e /\ Ends = {e, p} /\ Peer(p) = e /\ Ends = {1, 2} BY Peers
<1>2. /\ pipe' \in [Ends -> Pipes] /\ pipe'[e] = r /\ pipe'[p] = pipe[p]
      /\ State(e)' = "term_ack_sent" /\ State(p)' = State(p)
  BY <1>1, Boxes DEF State
<1>3. c \in Cmds /\ c.type = "pipe_term_ack" BY DEF Cmd, Cmds
<1>4. State(p) = "term_req_sent1" BY Boxes DEF Partners
<1>5. /\ mailbox' \in Mailboxes /\ SameHiccups(mailbox, mailbox')
      /\ \A t : Has(mailbox'[p], t) <=> Has(mailbox[p], t) \/ c.type = t
      /\ Ordered(mailbox[p]) /\ ~Has(mailbox[p], "pipe_term_ack")
           /\ (Has(mailbox[p], "pipe_term") => c.type # "pipe_term") => Ordered(mailbox'[p])
      /\ mailbox'[e] = mailbox[e]
  <2>1. mailbox \in Mailboxes BY Boxes DEF Mailboxes
  <2>2. c.type # "hiccup" BY <1>3
  <2>3. mailbox' = Deliver(mailbox, p, c) OBVIOUS
  <2> HIDE DEF c
  <2> QED BY <1>3, <2>1, <2>2, <2>3, Delivered
<1> HIDE DEF c
<1>6. TypeOK' BY <1>2, <1>5 DEF IInv, TypeOK, Mailboxes
<1>7. Told(p)'
  <2>1. ~Has(mailbox[p], "pipe_term_ack") /\ ~Has(mailbox[p], "pipe_term") /\ Ordered(mailbox[p])
    BY <1>1, Boxes DEF Asked, Answered
  <2>2. State(p)' = "term_req_sent1" /\ Peer(p) = e BY <1>1, <1>2, <1>4
  <2> QED BY <1>2, <1>3, <1>5, <2>1, <2>2 DEF Told, Asked, Answered, NotTold
<1>8. Told(e)'
  <2>1. ~Has(mailbox[e], "pipe_term_ack") /\ ~Has(mailbox[e], "pipe_term") /\ Ordered(mailbox[e])
    BY <1>4, Boxes DEF NotTold, Answered
  <2> QED BY <1>2, <1>4, <1>5, <2>1 DEF Told, Asked, Answered, NotTold
<1>9. Handshake'
  <2>1. Shake(e)' BY <1>2, <1>4, <1>8 DEF Shake, Partners, Answered
  <2>2. Shake(p)'
    <3>1. Shake(p) BY <1>1 DEF IInv, Handshake
    <3> QED BY <1>1, <1>2, <1>4, <1>7, <3>1 DEF Shake, Partners, States
  <2> QED BY <1>1, <2>1, <2>2 DEF Handshake, IInv
<1>10. DOMAIN queue' = DOMAIN queue BY DEF IInv, TypeOK
<1>11. Addresses'
  <2>1. \A d \in Ends : /\ pipe'[d].inpipe = pipe[d].inpipe
                        /\ pipe'[d].outpipe \in {pipe[d].outpipe, Null}
                        /\ State(d)' = "deleted" <=> State(d) = "deleted"
    BY <1>1, <1>2
  <2>2. e = 1 => ~Has(mailbox[1], "hiccup") BY DEF IInv, Addresses, NotTold
  <2>3. (pipe'[1].outpipe = Null /\ pipe[1].outpipe # Null)
           \/ (State(1)' \notin NotTold /\ State(1) \in NotTold) => ~Has(mailbox[1], "hiccup")
    BY <1>1, <1>2, <2>2
  <2> QED BY <1>5, <1>10, <2>1, <2>3, AddressesStay
<1>12. Contents'
  <2>1. ASSUME NEW d \in Ends, pipe'[d].outpipe # Null, Ended(Out(d))
        PROVE  State(d)' \notin {"active", "delimiter_received"} /\ d \notin terminating'
    <3>1. d = p BY <1>1, <1>2, <2>1
    <3> QED BY <1>2, <2>1, <3>1 DEF IInv, Contents
  <2>2. Drained(p)' BY <1>2, <1>4 DEF Drained
  <2>3. Drained(e)'
    BY <1>1, <1>2, <1>4 DEF Drained, In, Gone
  <2> QED BY <1>1, <1>2, <1>10, <2>1, <2>2, <2>3, LessContents
<1> QED BY <1>6, <1>9, <1>11, <1>12 DEF IInv

\* what the reader of a delimiter knows of the writer
LEMMA WriterDone ==
  ASSUME IInv, NEW e \in Ends, State(e) \in {"active", "waiting_for_delimiter"}, Ended(In(e))
  PROVE  State(Peer(e)) = "term_req_sent1" /\ Peer(e) \notin terminating
<1> DEFINE p == Peer(e)
<1>1. p \in Ends /\ Peer(p) = e BY Peers
<1>2. State(p) \in {"active", "delimiter_received", "term_req_sent1"} BY Boxes DEF Partners
<1>3. pipe[p].outpipe # Null BY <1>1, <1>2, Links DEF Answered
<1>4. ~Bare(In(e)) BY DEF Bare, Ended
<1>5. Out(p) = In(e) BY <1>3, <1>4, Links DEF Alive, State, In, Out
<1> QED BY <1>1, <1>2, <1>3, <1>5 DEF IInv, Contents

\* pipe_t::read, with pipe_t::delimit when what it took was the delimiter.
LEMMA ReadKeeps ==
  ASSUME IInv, NEW e \in Ends, Read(e) PROVE IInv'
<1> DEFINE i == pipe[e].inpipe
           f == Head(In(e).flushed)
           q == [In(e) EXCEPT !.flushed = Tail(@)]
           n == IF f = "last" THEN pipe[e].msgs_read + 1 ELSE pipe[e].msgs_read
           p == Peer(e)
<1>1. /\ State(e) \in {"active", "waiting_for_delimiter"} /\ e \notin terminating
      /\ In(e).flushed # << >> /\ Alive(e)
  BY DEF Read, Runs, Readable, State
<1>2. i \in DOMAIN queue /\ In(e) \in Queues /\ Shape(In(e)) BY <1>1, Links
<1>3. /\ q \in Queues /\ Shape(q) /\ (Ended(q) => Ended(In(e)))
      /\ f = "delimiter" => Ended(In(e)) /\ Bare(q)
      /\ f \in Items /\ ~Bare(In(e))
  BY <1>1, <1>2, ReadQueue
<1>4. queue' = [queue EXCEPT ![i] = q] BY DEF Read, In
<1>5. UNCHANGED <<freed, terminating, failed>> BY DEF Read
<1>6. \/ f = "credential" /\ UNCHANGED <<pipe, mailbox>>
      \/ f = "delimiter" /\ Delimited(e, pipe[e], mailbox)
      \/ /\ pipe' = [pipe EXCEPT ![e].msgs_read = n]
         /\ mailbox' = mailbox \/ mailbox' = Deliver(mailbox, p, Cmd("activate_write", n))
  BY DEF Read
<1>7. n \in Nat BY Boxes DEF Pipes
<1> HIDE DEF q, n, f, i
<1>8. /\ queue' \in Seq(Queues) /\ Len(queue') = Len(queue) /\ DOMAIN queue' = DOMAIN queue
      /\ queue'[i] = q /\ \A j \in DOMAIN queue \ {i} : queue'[j] = queue[j]
  BY <1>2, <1>3, <1>4, Refill
<1>9. \A j \in DOMAIN queue : /\ Shape(queue'[j])
                              /\ Bare(queue[j]) => Bare(queue'[j])
                              /\ Ended(queue'[j]) => Ended(queue[j])
  <2>1. \A j \in DOMAIN queue : Shape(queue[j]) BY DEF IInv, Contents
  <2> QED BY <1>3, <1>8, <2>1 DEF In, i
<1>10. CASE f = "credential" /\ UNCHANGED <<pipe, mailbox>>
  <2>1. pipe' \in [Ends -> Pipes] /\ Unmoved BY <1>10, Boxes DEF Unmoved
  <2>2. Quiet(mailbox, mailbox') BY <1>10, Nothing
  <2>3. Steady BY <1>5, <1>8, <2>1, <2>2 DEF Steady
  <2> QED BY <1>9, <2>3, NothingAdded
<1>11. CASE /\ pipe' = [pipe EXCEPT ![e].msgs_read = n]
            /\ mailbox' = mailbox \/ mailbox' = Deliver(mailbox, p, Cmd("activate_write", n))
  <2>1. pipe' \in [Ends -> Pipes] /\ Unmoved BY <1>7, <1>11, Boxes, ZenonT(60) DEF Unmoved, Pipes
  <2>2. Quiet(mailbox, mailbox')
    <3>1. Cmd("activate_write", n) \in Cmds /\ Cmd("activate_write", n).type = "activate_write"
      BY <1>7 DEF Cmd, Cmds
    <3>2. State(e) \notin Answered BY <1>1 DEF Answered
    <3>3. Quiet(mailbox, Deliver(mailbox, p, Cmd("activate_write", n)))
      BY <3>1, <3>2, WakesQuietly
    <3> QED BY <1>11, <3>3, Nothing
  <2>3. Steady BY <1>5, <1>8, <2>1, <2>2 DEF Steady
  <2> QED BY <1>9, <2>3, NothingAdded
<1>12. CASE f = "delimiter" /\ Delimited(e, pipe[e], mailbox)
  <2>1. Ended(In(e)) /\ Bare(q) BY <1>3, <1>12
  <2>2. State(p) = "term_req_sent1" /\ p \notin terminating BY <1>1, <2>1, WriterDone
  <2>3. CASE State(e) = "waiting_for_delimiter"
    <3> DEFINE r == Acked(pipe[e])
    <3>1. /\ r \in Pipes /\ r.state = "term_ack_sent" /\ r.outpipe = Null
          /\ r.inpipe = pipe[e].inpipe
      <4>1. pipe[e] \in Pipes BY Boxes
      <4> QED BY <4>1 DEF Acked, Pipes, Null, States
    <3>2. /\ pipe' = [pipe EXCEPT ![e] = r]
          /\ mailbox' = Deliver(mailbox, Peer(e), Cmd("pipe_term_ack", 0))
      BY <1>12, <2>3 DEF Delimited, State
    <3>3. Bare(queue'[r.inpipe]) /\ Gone(Peer(e)) BY <1>8, <2>1, <2>2, <3>1 DEF Gone, i
    <3> HIDE DEF r
    <3> QED BY <1>1, <1>5, <1>8, <1>9, <2>3, <3>1, <3>2, <3>3, LetsGo
  <2>4. CASE State(e) = "active"
    <3> DEFINE r == [pipe[e] EXCEPT !.state = "delimiter_received"]
    <3>1. /\ r \in Pipes /\ r.state = "delimiter_received" /\ r.outpipe = pipe[e].outpipe
          /\ r.inpipe = pipe[e].inpipe
      <4>1. pipe[e] \in Pipes BY Boxes
      <4> QED BY <4>1 DEF Pipes, States
    <3>2. pipe' = [pipe EXCEPT ![e] = r] /\ mailbox' = mailbox
      BY <1>12, <2>4 DEF Delimited, State
    <3> HIDE DEF r
    <3>3. p \in Ends /\ p # e /\ Ends = {e, p} /\ Peer(p) = e /\ Ends = {1, 2} BY Peers
    <3>4. /\ pipe' \in [Ends -> Pipes] /\ pipe'[e] = r /\ pipe'[p] = pipe[p]
          /\ State(e)' = "delimiter_received" /\ State(p)' = State(p)
      BY <3>1, <3>2, <3>3, Boxes DEF State
    <3>5. TypeOK' BY <1>5, <1>8, <3>2, <3>4 DEF IInv, TypeOK
    <3>6. Handshake'
      <4>1. Shake(e) /\ Shake(p) /\ ~failed BY <3>3 DEF IInv, Handshake
      <4>2. Told(e)' BY <2>4, <3>2, <3>4, <4>1 DEF Shake, Told, NotTold
      <4>3. Told(p)' BY <2>4, <3>2, <3>3, <3>4, <4>1 DEF Shake, Told, Asked, Answered
      <4>4. Shake(e)' BY <1>5, <2>2, <2>4, <3>1, <3>4, <4>1, <4>2 DEF Shake, Partners, Answered
      <4>5. Shake(p)' BY <1>5, <2>2, <3>3, <3>4, <4>1, <4>3 DEF Shake, Partners, States
      <4> QED BY <1>5, <3>3, <4>1, <4>4, <4>5 DEF Handshake
    <3>7. Addresses'
      <4>1. \A d \in Ends : /\ pipe'[d].inpipe = pipe[d].inpipe
                            /\ pipe'[d].outpipe = pipe[d].outpipe
                            /\ State(d)' = "deleted" <=> State(d) = "deleted"
                            /\ State(d)' \in NotTold <=> State(d) \in NotTold
        BY <2>4, <3>1, <3>3, <3>4 DEF NotTold
      <4>2. SameHiccups(mailbox, mailbox') BY <3>2 DEF SameHiccups
      <4> QED BY <1>5, <1>8, <3>3, <4>1, <4>2, AddressesStay
    <3>8. Contents'
      <4>1. ASSUME NEW d \in Ends, pipe'[d].outpipe # Null, Ended(Out(d))
            PROVE  State(d)' \notin {"active", "delimiter_received"} /\ d \notin terminating'
        <5>1. pipe[d].outpipe # Null BY <3>1, <3>3, <3>4, <4>1
        <5>2. State(d) \notin {"active", "delimiter_received"} /\ d \notin terminating
          BY <4>1, <5>1 DEF IInv, Contents
        <5> QED BY <1>5, <2>4, <3>3, <3>4, <5>2
      <4>2. Drained(p)' BY <2>2, <3>4 DEF Drained
      <4>3. Drained(e)'
        <5>1. In(e)' = q BY <1>8, <3>1, <3>4 DEF In, i
        <5>2. Gone(p)' BY <1>5, <2>2, <3>4 DEF Gone
        <5> QED BY <2>1, <5>1, <5>2 DEF Drained
      <4> QED BY <1>8, <1>9, <3>1, <3>3, <3>4, <4>1, <4>2, <4>3, LessContents
    <3> QED BY <3>5, <3>6, <3>7, <3>8 DEF IInv
  <2> QED BY <1>1, <2>3, <2>4
<1> QED BY <1>6, <1>10, <1>11, <1>12

\* The first part of pipe_t::terminate, in each of the states it may be
\* called in.
LEMMA TerminateKeeps ==
  ASSUME IInv, NEW e \in Ends, NEW delay \in Lingers, Terminate(e, delay) PROVE IInv'
<1> DEFINE p == Peer(e)
           t == [pipe[e] EXCEPT !.delay = delay, !.out_active = FALSE]
<1>1. p \in Ends /\ p # e /\ Ends = {e, p} /\ Peer(p) = e /\ Ends = {1, 2} BY Peers
<1>2. /\ t \in Pipes /\ t.state = State(e) /\ t.delay = delay
      /\ t.inpipe = pipe[e].inpipe /\ t.outpipe = pipe[e].outpipe
  <2>1. pipe[e] \in Pipes /\ delay \in BOOLEAN BY Boxes, PipeAssumption
  <2> QED BY <2>1 DEF Pipes, State
<1>3. /\ State(e) \in {"active", "delimiter_received", "waiting_for_delimiter"}
      /\ e \notin terminating /\ queue' = queue /\ freed' = freed /\ failed' = failed
      /\ State(e) = "waiting_for_delimiter" => ~delay \/ "delimiter" \notin ToSet(Out(e).flushed)
  BY DEF Terminate, Runs, State
<1>4. IF State(e) # "waiting_for_delimiter"
        THEN /\ pipe' = [pipe EXCEPT ![e] = [t EXCEPT !.state = "term_req_sent1"]]
             /\ mailbox' = Deliver(mailbox, Peer(e), Cmd("pipe_term", 0))
             /\ terminating' = terminating \cup {e}
        ELSE IF delay
        THEN /\ pipe' = [pipe EXCEPT ![e] = t]
             /\ terminating' = terminating \cup {e} /\ UNCHANGED mailbox
        ELSE /\ pipe' = [pipe EXCEPT ![e] = Acked(t)]
             /\ mailbox' = Deliver(mailbox, Peer(e), Cmd("pipe_term_ack", 0))
             /\ UNCHANGED terminating
  BY <1>2 DEF Terminate
<1> HIDE DEF t
<1>5. /\ queue \in Seq(Queues) /\ queue' \in Seq(Queues) /\ Len(queue') = Len(queue)
      /\ DOMAIN queue' = DOMAIN queue
      /\ \A j \in DOMAIN queue : /\ Shape(queue'[j])
                                 /\ Bare(queue[j]) => Bare(queue'[j])
                                 /\ Ended(queue'[j]) => Ended(queue[j])
  <2>1. \A j \in DOMAIN queue : Shape(queue[j]) BY DEF IInv, Contents
  <2> QED BY <1>3, <2>1 DEF IInv, TypeOK
<1>6. CASE State(e) = "waiting_for_delimiter" /\ ~delay
  <2> DEFINE r == Acked(t)
  <2>1. /\ r \in Pipes /\ r.state = "term_ack_sent" /\ r.outpipe = Null
        /\ r.inpipe = pipe[e].inpipe /\ r.delay = delay
    BY <1>2 DEF Acked, Pipes, Null, States
  <2>2. /\ pipe' = [pipe EXCEPT ![e] = r]
        /\ mailbox' = Deliver(mailbox, Peer(e), Cmd("pipe_term_ack", 0))
        /\ UNCHANGED terminating
    BY <1>4, <1>6
  <2> HIDE DEF r
  <2> QED BY <1>3, <1>5, <1>6, <2>1, <2>2, LetsGo
<1>7. CASE State(e) = "waiting_for_delimiter" /\ delay
  <2>1. /\ pipe' = [pipe EXCEPT ![e] = t] /\ mailbox' = mailbox
        /\ terminating' = terminating \cup {e}
    BY <1>4, <1>7
  <2>2. /\ pipe' \in [Ends -> Pipes] /\ pipe'[e] = t /\ pipe'[p] = pipe[p]
        /\ State(e)' = State(e) /\ State(p)' = State(p)
    BY <1>1, <1>2, <2>1, Boxes DEF State
  <2>3. State(p) = "term_req_sent1" BY <1>7, Boxes DEF Partners
  <2>4. TypeOK' BY <1>3, <1>5, <2>1, <2>2 DEF IInv, TypeOK
  <2>5. Handshake'
    <3>1. Shake(e) /\ Shake(p) /\ ~failed BY <1>1 DEF IInv, Handshake
    <3>2. Shake(e)' BY <1>2, <1>7, <2>1, <2>2, <3>1 DEF Shake, Told
    <3>3. Shake(p)' BY <1>1, <2>1, <2>2, <3>1 DEF Shake, Told
    <3> QED BY <1>1, <1>3, <3>1, <3>2, <3>3 DEF Handshake
  <2>6. Addresses'
    <3>1. \A d \in Ends : /\ pipe'[d].inpipe = pipe[d].inpipe
                          /\ pipe'[d].outpipe = pipe[d].outpipe
                          /\ State(d)' = State(d)
      BY <1>1, <1>2, <2>2
    <3>2. SameHiccups(mailbox, mailbox') BY <2>1 DEF SameHiccups
    <3> QED BY <1>1, <1>3, <1>5, <3>1, <3>2, AddressesStay
  <2>7. Contents'
    <3>1. ~Ended(Out(e)) BY <1>3, <1>7 DEF Ended, ToSet
    <3>2. ASSUME NEW d \in Ends, pipe'[d].outpipe # Null, Ended(Out(d))
          PROVE  State(d)' \notin {"active", "delimiter_received"} /\ d \notin terminating'
      <4>1. d = p BY <1>1, <3>1, <3>2
      <4> QED BY <1>1, <2>1, <2>2, <3>2, <4>1 DEF IInv, Contents
    <3>3. Drained(e)' /\ Drained(p)' BY <1>7, <2>2, <2>3 DEF Drained
    <3> QED BY <1>1, <1>2, <1>5, <2>2, <3>2, <3>3, LessContents
  <2> QED BY <2>4, <2>5, <2>6, <2>7 DEF IInv
<1>8. CASE State(e) # "waiting_for_delimiter"
  <2> DEFINE r == [t EXCEPT !.state = "term_req_sent1"]
             c == Cmd("pipe_term", 0)
  <2>1. /\ r \in Pipes /\ r.state = "term_req_sent1" /\ r.outpipe = pipe[e].outpipe
        /\ r.inpipe = pipe[e].inpipe
    BY <1>2 DEF Pipes, States
  <2>2. /\ pipe' = [pipe EXCEPT ![e] = r] /\ mailbox' = Deliver(mailbox, Peer(e), c)
        /\ terminating' = terminating \cup {e}
    BY <1>4, <1>8
  <2>3. c \in Cmds /\ c.type = "pipe_term" BY DEF Cmd, Cmds
  <2> HIDE DEF r, c
  <2>4. /\ pipe' \in [Ends -> Pipes] /\ pipe'[e] = r /\ pipe'[p] = pipe[p]
        /\ State(e)' = "term_req_sent1" /\ State(p)' = State(p)
    BY <1>1, <2>1, <2>2, Boxes DEF State
  <2>5. /\ mailbox' \in Mailboxes /\ SameHiccups(mailbox, mailbox')
        /\ \A x : Has(mailbox'[p], x) <=> Has(mailbox[p], x) \/ c.type = x
        /\ Ordered(mailbox[p]) /\ ~Has(mailbox[p], "pipe_term_ack")
             /\ (Has(mailbox[p], "pipe_term") => c.type # "pipe_term") => Ordered(mailbox'[p])
        /\ mailbox'[e] = mailbox[e]
    <3>1. mailbox \in Mailboxes BY Boxes DEF Mailboxes
    <3>2. c.type # "hiccup" BY <2>3
    <3> QED BY <2>2, <2>3, <3>1, <3>2, Delivered
  <2>6. State(p) \in NotTold BY <1>3, <1>8, Boxes DEF Partners, NotTold
  <2>7. TypeOK' BY <1>3, <1>5, <2>2, <2>4, <2>5 DEF IInv, TypeOK, Mailboxes
  <2>8. Handshake'
    <3>1. Shake(e) /\ Shake(p) /\ ~failed BY <1>1 DEF IInv, Handshake
    <3>2. Told(p)'
      <4>1. ~Has(mailbox[p], "pipe_term_ack") /\ ~Has(mailbox[p], "pipe_term") /\ Ordered(mailbox[p])
        BY <1>1, <1>3, <1>8, Boxes DEF Asked, Answered
      <4> QED BY <1>1, <2>3, <2>4, <2>5, <2>6, <4>1 DEF Told, Asked, Answered, NotTold
    <3>3. Told(e)'
      <4>1. State(e) \in NotTold BY <1>3, <1>8 DEF NotTold
      <4> QED BY <2>4, <2>5, <3>1, <4>1 DEF Shake, Told, NotTold
    <3>4. pipe[e].outpipe # Null BY <1>3, <1>8, Links DEF Answered
    <3>5. Shake(e)'
      BY <2>1, <2>4, <2>6, <3>3, <3>4 DEF Shake, Partners, NotTold, States, Answered
    <3>6. Shake(p)'
      BY <1>1, <2>2, <2>4, <2>6, <3>1, <3>2 DEF Shake, Partners, NotTold, States
    <3> QED BY <1>1, <1>3, <3>1, <3>5, <3>6 DEF Handshake
  <2>9. Addresses'
    <3>1. \A d \in Ends : /\ pipe'[d].inpipe = pipe[d].inpipe
                          /\ pipe'[d].outpipe = pipe[d].outpipe
                          /\ State(d)' = "deleted" <=> State(d) = "deleted"
                          /\ State(d)' \in NotTold <=> State(d) \in NotTold
      BY <1>1, <1>3, <1>8, <2>1, <2>4 DEF NotTold
    <3> QED BY <1>1, <1>3, <1>5, <2>5, <3>1, AddressesStay
  <2>10. Contents'
    <3>1. ASSUME NEW d \in Ends, pipe'[d].outpipe # Null, Ended(Out(d))
          PROVE  State(d)' \notin {"active", "delimiter_received"} /\ d \notin terminating'
      <4>1. pipe[d].outpipe # Null BY <1>1, <2>1, <2>4, <3>1
      <4>2. State(d) \notin {"active", "delimiter_received"} /\ d \notin terminating
        BY <3>1, <4>1 DEF IInv, Contents
      <4>3. d = p BY <1>1, <1>3, <1>8, <4>2
      <4> QED BY <1>1, <2>2, <2>4, <4>2, <4>3
    <3>2. Drained(e)' BY <2>4 DEF Drained
    <3>3. Drained(p)'
      <4>1. State(p) # "term_ack_sent" BY <2>6 DEF NotTold
      <4>2. ~Gone(e) BY <1>3, <1>8 DEF Gone
      <4>3. State(p) # "delimiter_received" BY <1>1, <4>2 DEF IInv, Contents, Drained
      <4> QED BY <2>4, <4>1, <4>3 DEF Drained
    <3> QED BY <1>1, <1>5, <2>1, <2>4, <3>1, <3>2, <3>3, LessContents
  <2> QED BY <2>7, <2>8, <2>9, <2>10 DEF IInv
<1> QED BY <1>6, <1>7, <1>8
-----------------------------------------------------------------------------
\* pipe_t::process_activate_read.
LEMMA ActivateReadKeeps ==
  ASSUME IInv, NEW e \in Ends, mailbox[e] # << >>, Head(mailbox[e]).type = "activate_read",
         process_activate_read(e, pipe[e], [mailbox EXCEPT ![e] = Tail(@)]),
         UNCHANGED terminating
  PROVE  IInv'
<1> DEFINE b == pipe[e].in_active \/ pipe[e].state \in {"active", "waiting_for_delimiter"}
<1>1. pipe' = [pipe EXCEPT ![e].in_active = b] /\ queue' = queue /\ UNCHANGED <<freed, failed>>
  BY DEF process_activate_read
<1>2. b \in BOOLEAN OBVIOUS
<1> HIDE DEF b
<1>3. pipe' \in [Ends -> Pipes] /\ Unmoved BY <1>1, <1>2, Boxes, ZenonT(60) DEF Pipes, Unmoved
<1>4. Quiet(mailbox, mailbox') BY TakesQuietly DEF process_activate_read
<1>5. Steady BY <1>1, <1>3, <1>4 DEF Steady, IInv, TypeOK
<1>6. \A j \in DOMAIN queue : Shape(queue[j]) BY DEF IInv, Contents
<1> QED BY <1>1, <1>5, <1>6, NothingAdded

\* pipe_t::process_activate_write.
LEMMA ActivateWriteKeeps ==
  ASSUME IInv, NEW e \in Ends, mailbox[e] # << >>, Head(mailbox[e]).type = "activate_write",
         process_activate_write(e, pipe[e], Head(mailbox[e]).arg, [mailbox EXCEPT ![e] = Tail(@)]),
         UNCHANGED terminating
  PROVE  IInv'
<1> DEFINE b == pipe[e].out_active \/ pipe[e].state = "active"
           n == Head(mailbox[e]).arg
<1>1. /\ pipe' = [pipe EXCEPT ![e].peers_msgs_read = n, ![e].out_active = b]
      /\ queue' = queue /\ UNCHANGED <<freed, failed>>
  BY DEF process_activate_write
<1>2. b \in BOOLEAN OBVIOUS
<1>3. n \in Nat
  <2>1. Head(mailbox[e]) \in Cmds BY Boxes, Taken
  <2> QED BY <2>1 DEF Cmds
<1> HIDE DEF b, n
<1>4. pipe' \in [Ends -> Pipes] /\ Unmoved
  <2> DEFINE r == [pipe[e] EXCEPT !.peers_msgs_read = n, !.out_active = b]
  <2>1. pipe[e] \in Pipes /\ pipe \in [Ends -> Pipes] BY Boxes
  <2>2. /\ r \in Pipes /\ r.state = pipe[e].state /\ r.delay = pipe[e].delay
        /\ r.inpipe = pipe[e].inpipe /\ r.outpipe = pipe[e].outpipe
    BY <1>2, <1>3, <2>1 DEF Pipes
  <2>3. pipe' = [pipe EXCEPT ![e] = r] BY <1>1, <2>1
  <2> HIDE DEF r
  <2> QED BY <2>1, <2>2, <2>3 DEF Unmoved
<1>5. Quiet(mailbox, mailbox') BY TakesQuietly DEF process_activate_write
<1>6. Steady BY <1>1, <1>4, <1>5 DEF Steady, IInv, TypeOK
<1>7. \A j \in DOMAIN queue : Shape(queue[j]) BY DEF IInv, Contents
<1> QED BY <1>1, <1>6, <1>7, NothingAdded

\* the first command is taken from the mailbox, and an acknowledgement may be sent
LEMMA TakenBy ==
  ASSUME IInv, NEW e \in Ends, mailbox[e] # << >>,
         Head(mailbox[e]).type \in {"pipe_term", "pipe_term_ack"},
         \/ mailbox' = Rest(mailbox, e)
         \/ mailbox' = Deliver(Rest(mailbox, e), Peer(e), Cmd("pipe_term_ack", 0))
  PROVE  /\ mailbox' \in Mailboxes /\ SameHiccups(mailbox, mailbox')
         /\ Ordered(mailbox'[e])
         /\ Head(mailbox[e]).type = "pipe_term" =>
              /\ Has(mailbox[e], "pipe_term") /\ ~Has(mailbox'[e], "pipe_term")
              /\ ~Has(mailbox[e], "hiccup")
              /\ Has(mailbox'[e], "pipe_term_ack") <=> Has(mailbox[e], "pipe_term_ack")
         /\ Head(mailbox[e]).type = "pipe_term_ack" =>
              /\ Has(mailbox[e], "pipe_term_ack") /\ mailbox'[e] = << >>
              /\ ~Has(mailbox[e], "hiccup")
         /\ mailbox' = Rest(mailbox, e) => mailbox'[Peer(e)] = mailbox[Peer(e)]
         /\ mailbox' = Deliver(Rest(mailbox, e), Peer(e), Cmd("pipe_term_ack", 0)) =>
              /\ Has(mailbox'[Peer(e)], "pipe_term_ack")
              /\ Has(mailbox'[Peer(e)], "pipe_term") <=> Has(mailbox[Peer(e)], "pipe_term")
              /\ ~Has(mailbox[Peer(e)], "pipe_term_ack") => Ordered(mailbox'[Peer(e)])
<1> DEFINE r == Rest(mailbox, e)
           p == Peer(e)
           c == Cmd("pipe_term_ack", 0)
           h == Head(mailbox[e])
<1>1. mailbox \in Mailboxes /\ Ordered(mailbox[e]) BY Boxes DEF Mailboxes
<1>2. p \in Ends /\ p # e /\ Ends = {e, p} BY Peers
<1>3. /\ r \in Mailboxes /\ SameHiccups(mailbox, r)
      /\ \A t : Has(mailbox[e], t) <=> Has(r[e], t) \/ h.type = t
      /\ Ordered(r[e])
      /\ h.type = "pipe_term_ack" => r[e] = << >>
      /\ h.type = "pipe_term" => ~Has(r[e], "pipe_term") /\ ~Has(r[e], "hiccup")
  <2>1. h.type # "hiccup" OBVIOUS
  <2> QED BY <1>1, <2>1, TakenBox
<1>4. r[p] = mailbox[p]
  <2>1. h.type # "hiccup" /\ p \in Ends \ {e} BY <1>2
  <2> HIDE DEF p
  <2> QED BY <1>1, <2>1, TakenBox
<1> HIDE DEF r, h
<1>5. /\ h.type = "pipe_term" => ~Has(mailbox[e], "hiccup")
      /\ h.type = "pipe_term_ack" => ~Has(mailbox[e], "hiccup")
  <2>1. ~Has(<< >>, "hiccup") BY DEF Has
  <2> QED BY <1>3, <2>1
<1>6. CASE mailbox' = r /\ mailbox' # Deliver(r, p, c)
  BY <1>3, <1>4, <1>5, <1>6 DEF r, h
<1>7. CASE mailbox' = Deliver(r, p, c)
  <2>1. c \in Cmds /\ c.type = "pipe_term_ack" BY DEF Cmd, Cmds
  <2>2. c.type # "hiccup" BY <2>1
  <2> HIDE DEF c
  <2>3. /\ mailbox' \in Mailboxes /\ SameHiccups(r, mailbox')
        /\ \A t : Has(mailbox'[p], t) <=> Has(r[p], t) \/ c.type = t
        /\ Ordered(r[p]) /\ ~Has(r[p], "pipe_term_ack")
             /\ (Has(r[p], "pipe_term") => c.type # "pipe_term") => Ordered(mailbox'[p])
        /\ mailbox'[e] = r[e]
    BY <1>3, <1>7, <2>1, <2>2, Delivered
  <2>4. SameHiccups(mailbox, mailbox') BY <1>3, <2>3 DEF SameHiccups
  <2>5. Ordered(mailbox[p]) BY <1>2, Boxes
  <2> QED BY <1>3, <1>4, <1>5, <1>7, <2>1, <2>3, <2>4, <2>5 DEF r, h
<1> QED BY <1>6, <1>7 DEF r

\* pipe_t::process_pipe_term, in each state: an answer at once, after the
\* delimiter, or to a request that crossed this one's own.
LEMMA PipeTermKeeps ==
  ASSUME IInv, NEW e \in Ends, mailbox[e] # << >>, Head(mailbox[e]).type = "pipe_term",
         e \notin terminating, UNCHANGED terminating,
         process_pipe_term(e, pipe[e], Rest(mailbox, e))
  PROVE  IInv'
<1> DEFINE p == Peer(e)
<1>1. p \in Ends /\ p # e /\ Ends = {e, p} /\ Peer(p) = e /\ Ends = {1, 2} BY Peers
<1>2. \/ mailbox' = Rest(mailbox, e)
      \/ mailbox' = Deliver(Rest(mailbox, e), Peer(e), Cmd("pipe_term_ack", 0))
  BY DEF process_pipe_term
<1>3. /\ mailbox' \in Mailboxes /\ SameHiccups(mailbox, mailbox')
      /\ Ordered(mailbox'[e])
      /\ Has(mailbox[e], "pipe_term") /\ ~Has(mailbox'[e], "pipe_term")
      /\ ~Has(mailbox[e], "hiccup")
      /\ Has(mailbox'[e], "pipe_term_ack") <=> Has(mailbox[e], "pipe_term_ack")
  BY <1>2, TakenBy
<1>4. /\ mailbox' = Rest(mailbox, e) => mailbox'[p] = mailbox[p]
      /\ mailbox' = Deliver(Rest(mailbox, e), p, Cmd("pipe_term_ack", 0)) =>
           /\ Has(mailbox'[p], "pipe_term_ack")
           /\ Has(mailbox'[p], "pipe_term") <=> Has(mailbox[p], "pipe_term")
           /\ ~Has(mailbox[p], "pipe_term_ack") => Ordered(mailbox'[p])
  BY <1>2, TakenBy
<1>5. State(e) \in NotTold /\ State(p) \in Asked BY <1>3, Boxes
<1>6. State(e) # "term_req_sent1" => State(p) = "term_req_sent1"
  BY <1>5, Boxes DEF Partners, NotTold, Asked
<1>7. failed' = FALSE BY <1>5 DEF process_pipe_term, NotTold, State
<1>8. PICK r \in Pipes :
        /\ pipe' = [pipe EXCEPT ![e] = r] /\ r.inpipe = pipe[e].inpipe /\ r.delay = pipe[e].delay
        /\ \/ /\ State(e) = "active" /\ r.state = "waiting_for_delimiter"
              /\ r.outpipe = pipe[e].outpipe /\ mailbox' = Rest(mailbox, e)
           \/ /\ State(e) = "delimiter_received" \/ (State(e) = "active" /\ ~pipe[e].delay)
              /\ r.state = "term_ack_sent" /\ r.outpipe = Null
              /\ mailbox' = Deliver(Rest(mailbox, e), Peer(e), Cmd("pipe_term_ack", 0))
           \/ /\ State(e) = "term_req_sent1" /\ r.state = "term_req_sent2" /\ r.outpipe = Null
              /\ mailbox' = Deliver(Rest(mailbox, e), Peer(e), Cmd("pipe_term_ack", 0))
  <2>1. pipe[e] \in Pipes /\ pipe \in [Ends -> Pipes] BY Boxes
  <2>2. CASE /\ pipe[e].state = "active" /\ pipe[e].delay
             /\ pipe' = [pipe EXCEPT ![e].state = "waiting_for_delimiter"]
             /\ mailbox' = Rest(mailbox, e)
    <3> DEFINE r == [pipe[e] EXCEPT !.state = "waiting_for_delimiter"]
    <3>1. r \in Pipes BY <2>1 DEF Pipes, States
    <3>2. pipe' = [pipe EXCEPT ![e] = r] BY <2>2
    <3>3. /\ r.inpipe = pipe[e].inpipe /\ r.delay = pipe[e].delay /\ r.outpipe = pipe[e].outpipe
          /\ r.state = "waiting_for_delimiter"
      BY <2>1 DEF Pipes
    <3> QED BY <2>2, <3>1, <3>2, <3>3 DEF State
  <2>3. CASE /\ pipe[e].state = "delimiter_received" \/ (pipe[e].state = "active" /\ ~pipe[e].delay)
             /\ pipe' = [pipe EXCEPT ![e] = Acked(pipe[e])]
             /\ mailbox' = Deliver(Rest(mailbox, e), Peer(e), Cmd("pipe_term_ack", 0))
    <3> DEFINE r == Acked(pipe[e])
    <3>1. /\ r \in Pipes /\ r.state = "term_ack_sent" /\ r.outpipe = Null
          /\ r.inpipe = pipe[e].inpipe /\ r.delay = pipe[e].delay
      BY <2>1 DEF Acked, Pipes, Null, States
    <3> HIDE DEF r
    <3>2. pipe' = [pipe EXCEPT ![e] = r] BY <2>3 DEF r
    <3> QED BY <2>3, <3>1, <3>2 DEF State
  <2>4. CASE /\ pipe[e].state = "term_req_sent1"
             /\ pipe' = [pipe EXCEPT ![e].state = "term_req_sent2", ![e].outpipe = Null]
             /\ mailbox' = Deliver(Rest(mailbox, e), Peer(e), Cmd("pipe_term_ack", 0))
    <3> DEFINE r == [pipe[e] EXCEPT !.state = "term_req_sent2", !.outpipe = Null]
    <3>1. /\ r \in Pipes /\ r.state = "term_req_sent2" /\ r.outpipe = Null
          /\ r.inpipe = pipe[e].inpipe /\ r.delay = pipe[e].delay
      BY <2>1 DEF Pipes, Null, States
    <3>2. pipe' = [pipe EXCEPT ![e] = r] BY <2>1, <2>4
    <3> QED BY <2>4, <3>1, <3>2 DEF State
  <2> QED BY <1>7, <2>2, <2>3, <2>4 DEF process_pipe_term
<1>9. /\ pipe' \in [Ends -> Pipes] /\ pipe'[e] = r /\ pipe'[p] = pipe[p]
      /\ State(e)' = r.state /\ State(p)' = State(p)
  BY <1>1, <1>8, Boxes DEF State
<1>10. queue' = queue /\ freed' = freed BY DEF process_pipe_term
<1>11. TypeOK' BY <1>3, <1>7, <1>9, <1>10 DEF IInv, TypeOK, Mailboxes
<1>12. Handshake'
  <2>1. Shake(e) /\ Shake(p) BY <1>1 DEF IInv, Handshake
  <2>2. Told(e)'
    BY <1>3, <1>5, <1>8, <1>9, <2>1 DEF Shake, Told, NotTold
  <2>3. Told(p)'
    <3>1. /\ State(e) \notin Answered /\ State(p) # "deleted" BY <1>5 DEF NotTold, Asked, Answered
    <3>2. ~Has(mailbox[p], "pipe_term_ack") /\ Ordered(mailbox[p])
      BY <1>1, <3>1, Boxes
    <3>3. Has(mailbox[p], "pipe_term") <=> State(e) \in Asked /\ State(p) \in NotTold
      BY <1>1, Boxes
    <3>4. CASE r.state = "waiting_for_delimiter"
      BY <1>1, <1>4, <1>8, <1>9, <3>1, <3>2, <3>3, <3>4 DEF Told, Asked, Answered, NotTold
    <3>5. CASE r.state # "waiting_for_delimiter"
      <4>1. r.state \in Answered /\ (r.state \in Asked <=> State(e) \in Asked)
        BY <1>8, <3>5 DEF Answered, Asked
      <4>2. /\ Has(mailbox'[p], "pipe_term_ack")
            /\ Has(mailbox'[p], "pipe_term") <=> Has(mailbox[p], "pipe_term")
            /\ Ordered(mailbox'[p])
        BY <1>4, <1>8, <3>2, <3>5
      <4> QED BY <1>1, <1>9, <3>1, <3>3, <4>1, <4>2 DEF Told
    <3> QED BY <3>4, <3>5
  <2>4. Shake(e)'
    BY <1>5, <1>6, <1>8, <1>9, <2>1, <2>2 DEF Shake, Partners, Answered, Asked, NotTold
  <2>5. Shake(p)'
    BY <1>1, <1>5, <1>6, <1>8, <1>9, <2>1, <2>3 DEF Shake, Partners, Answered, Asked, States
  <2> QED BY <1>1, <1>7, <2>4, <2>5 DEF Handshake
<1>13. Addresses'
  <2>1. \A d \in Ends : /\ pipe'[d].inpipe = pipe[d].inpipe
                        /\ pipe'[d].outpipe \in {pipe[d].outpipe, Null}
                        /\ State(d)' = "deleted" <=> State(d) = "deleted"
    BY <1>1, <1>8, <1>9
  <2>2. (pipe'[1].outpipe = Null /\ pipe[1].outpipe # Null)
           \/ (State(1)' \notin NotTold /\ State(1) \in NotTold) => ~Has(mailbox[1], "hiccup")
    BY <1>1, <1>3, <1>9
  <2>3. Len(queue') = Len(queue) /\ DOMAIN queue' = DOMAIN queue BY <1>10
  <2> QED BY <1>3, <1>10, <2>1, <2>2, <2>3, AddressesStay
<1>14. Contents'
  <2>1. ASSUME NEW d \in Ends, pipe'[d].outpipe # Null, Ended(Out(d))
        PROVE  State(d)' \notin {"active", "delimiter_received"} /\ d \notin terminating'
    <3>1. CASE d = e BY <1>8, <1>9, <3>1
    <3>2. CASE d = p BY <1>9, <2>1, <3>2 DEF IInv, Contents
    <3> QED BY <1>1, <3>1, <3>2
  <2>2. Drained(p)' BY <1>5, <1>9 DEF Drained, Asked
  <2>3. Drained(e)'
    <3> SUFFICES ASSUME State(e)' = "delimiter_received"
                          \/ (State(e)' = "term_ack_sent" /\ pipe'[e].delay)
                 PROVE  Bare(In(e))' /\ Gone(p)'
      BY DEF Drained
    <3>1. State(e) = "delimiter_received" BY <1>8, <1>9
    <3>2. Bare(In(e)) /\ Gone(p) BY <1>1, <3>1 DEF IInv, Contents, Drained
    <3> QED BY <1>8, <1>9, <1>10, <3>2 DEF In, Gone
  <2>4. \A j \in DOMAIN queue : Shape(queue[j]) BY DEF IInv, Contents
  <2> QED BY <1>1, <1>8, <1>9, <1>10, <2>1, <2>2, <2>3, <2>4, LessContents
<1> QED BY <1>11, <1>12, <1>13, <1>14 DEF IInv

\* When no hiccup is on its way, every ypipe to the session but the newest is deleted.
LEMMA Settled ==
  ASSUME IInv, ~Has(mailbox[1], "hiccup")
  PROVE  /\ freed \ {2, Newest(queue)} = DOMAIN queue \ {2, Newest(queue)}
         /\ Newest(queue) \in freed <=> State(2) = "deleted"
<1>1. CASE pipe[1].outpipe = Null BY <1>1 DEF IInv, Addresses
<1>2. CASE pipe[1].outpipe # Null
  <2>1. mailbox[1] \in Seq(Cmds) /\ State(2) # "deleted"
    BY <1>2, Boxes, Links DEF Ends, Peer, Partners, Answered
  <2>2. Renewed(mailbox[1]) = {} BY <2>1, NoHiccup
  <2>3. pipe[1].outpipe \in DOMAIN queue \ {2} BY <1>2 DEF IInv, Addresses
  <2>4. DOMAIN queue \subseteq Nat BY DEF IInv, TypeOK
  <2>5. /\ Newest(queue) \in DOMAIN queue \ {2}
        /\ \A i \in DOMAIN queue \ {2} : i <= Newest(queue)
    BY Links DEF Ends
  <2>6. {i \in DOMAIN queue \ {2} : i > pipe[1].outpipe} = {}
    BY <1>2, <2>2 DEF IInv, Addresses
  <2>7. pipe[1].outpipe = Newest(queue) BY <2>3, <2>4, <2>5, <2>6
  <2>8. freed \ {2} = {i \in DOMAIN queue \ {2} : i < Newest(queue)}
    BY <1>2, <2>7 DEF IInv, Addresses
  <2> QED BY <2>1, <2>4, <2>5, <2>8
<1> QED BY <1>1, <1>2

\* The ypipe that pipe_t::hiccup creates.
LEMMA EmptyQueue == Empty \in Queues /\ Bare(Empty) /\ Shape(Empty) /\ ~Ended(Empty)
BY DEF Empty, Queues, Bare, Shape, Whole, Ended

\* pipe_t::process_pipe_term_ack: the end answers if it still has to, frees
\* its inpipe and is deleted.
LEMMA PipeTermAckKeeps ==
  ASSUME IInv, NEW e \in Ends, mailbox[e] # << >>, Head(mailbox[e]).type = "pipe_term_ack",
         e \notin terminating, UNCHANGED terminating,
         process_pipe_term_ack(e, pipe[e], Rest(mailbox, e))
  PROVE  IInv'
<1> DEFINE p == Peer(e)
           i == pipe[e].inpipe
<1>1. p \in Ends /\ p # e /\ Ends = {e, p} /\ Peer(p) = e /\ Ends = {1, 2} BY Peers
<1>2. IF State(e) = "term_req_sent1"
        THEN mailbox' = Deliver(Rest(mailbox, e), Peer(e), Cmd("pipe_term_ack", 0))
        ELSE mailbox' = Rest(mailbox, e)
  BY DEF process_pipe_term_ack, State
<1>3. /\ mailbox' \in Mailboxes /\ SameHiccups(mailbox, mailbox')
      /\ Has(mailbox[e], "pipe_term_ack") /\ mailbox'[e] = << >> /\ Ordered(mailbox'[e])
      /\ ~Has(mailbox[e], "hiccup")
  BY <1>2, TakenBy
<1>4. /\ mailbox' = Rest(mailbox, e) => mailbox'[p] = mailbox[p]
      /\ mailbox' = Deliver(Rest(mailbox, e), p, Cmd("pipe_term_ack", 0)) =>
           /\ Has(mailbox'[p], "pipe_term_ack")
           /\ Has(mailbox'[p], "pipe_term") <=> Has(mailbox[p], "pipe_term")
           /\ ~Has(mailbox[p], "pipe_term_ack") => Ordered(mailbox'[p])
  BY <1>2, TakenBy
<1>5. State(p) \in Answered /\ State(e) # "deleted" BY <1>3, Boxes
<1>6. /\ State(e) \in {"term_ack_sent", "term_req_sent1", "term_req_sent2"}
      /\ State(e) = "term_req_sent1" => State(p) # "deleted"
  BY <1>5, Boxes DEF Partners, Answered
<1>7. i \in DOMAIN queue \ freed BY <1>5, Links DEF Alive, State
<1>8. failed' = FALSE BY <1>6, <1>7 DEF process_pipe_term_ack, State
<1>9. /\ pipe' \in [Ends -> Pipes] /\ pipe'[p] = pipe[p]
      /\ pipe'[e].state = "deleted" /\ pipe'[e].inpipe = Null /\ pipe'[e].outpipe = Null
  <2> DEFINE r == [pipe[e] EXCEPT !.state = "deleted", !.outpipe = Null, !.inpipe = Null]
  <2>1. pipe[e] \in Pipes /\ pipe \in [Ends -> Pipes] BY Boxes
  <2>2. r \in Pipes /\ r.state = "deleted" /\ r.inpipe = Null /\ r.outpipe = Null
    BY <2>1 DEF Pipes, Null, States
  <2>3. pipe' = [pipe EXCEPT ![e] = r] BY <2>1 DEF process_pipe_term_ack
  <2> HIDE DEF r
  <2> QED BY <1>1, <2>1, <2>2, <2>3
<1>10. State(e)' = "deleted" /\ State(p)' = State(p) BY <1>9 DEF State
<1>11. queue' = [queue EXCEPT ![i] = Empty] /\ freed' = freed \cup {i}
  BY DEF process_pipe_term_ack
<1>12. /\ queue' \in Seq(Queues) /\ Len(queue') = Len(queue) /\ DOMAIN queue' = DOMAIN queue
       /\ queue'[i] = Empty /\ \A j \in DOMAIN queue \ {i} : queue'[j] = queue[j]
  BY <1>7, <1>11, EmptyQueue, Refill
<1>13. TypeOK' BY <1>3, <1>8, <1>9, <1>12 DEF IInv, TypeOK, Mailboxes
<1>14. Handshake'
  <2>1. Told(e)'
    <3>1. \A t : ~Has(<< >>, t) BY DEF Has
    <3> QED BY <1>3, <1>10, <3>1 DEF Told, NotTold
  <2>2. Told(p)'
    <3>1. ~Has(mailbox[p], "pipe_term") /\ Ordered(mailbox[p])
      BY <1>1, <1>5, Boxes DEF NotTold, Answered
    <3>2. Has(mailbox[p], "pipe_term_ack") <=> State(e) \in Answered /\ State(p) # "deleted"
      BY <1>1, Boxes
    <3>3. State(p) = "deleted" => mailbox[p] = << >> BY <1>1, Boxes
    <3>4. CASE State(e) = "term_req_sent1"
      <4>1. ~Has(mailbox[p], "pipe_term_ack") BY <3>2, <3>4 DEF Answered
      <4> QED BY <1>1, <1>2, <1>4, <1>6, <1>10, <3>1, <3>4, <4>1 DEF Told, Asked, Answered
    <3>5. CASE State(e) # "term_req_sent1"
      <4>1. State(e) \in Answered BY <1>6, <3>5 DEF Answered
      <4>2. mailbox'[p] = mailbox[p] BY <1>2, <1>4, <3>5
      <4> QED BY <1>1, <1>10, <3>1, <3>2, <3>3, <4>1, <4>2 DEF Told, Asked, Answered
    <3> QED BY <3>4, <3>5
  <2>3. Shake(e)' BY <1>5, <1>9, <1>10, <2>1 DEF Shake, Partners, Answered
  <2>4. Shake(p)'
    <3>1. Shake(p) BY <1>1 DEF IInv, Handshake
    <3> QED BY <1>1, <1>5, <1>9, <1>10, <2>2, <3>1 DEF Shake, Partners, Answered
  <2> QED BY <1>1, <1>8, <2>3, <2>4 DEF Handshake
<1>15. Addresses'
  <2>1. Newest(queue') = Newest(queue) /\ Newest(queue) # 2 /\ Newest(queue) \in DOMAIN queue
    BY <1>12, Links DEF Newest
  <2>2. /\ ~Has(mailbox[1], "hiccup") /\ ~Has(mailbox[2], "hiccup")
    <3>1. e = 2 => State(1) \notin NotTold BY <1>1, <1>5 DEF Answered, NotTold
    <3> QED BY <1>1, <1>3, <3>1 DEF IInv, Addresses
  <2>3. ~Has(mailbox'[1], "hiccup") /\ ~Has(mailbox'[2], "hiccup") /\ Rising(mailbox'[1])
    BY <1>1, <1>3, <2>2 DEF SameHiccups, IInv, Addresses
  <2>4. /\ freed \ {2, Newest(queue)} = DOMAIN queue \ {2, Newest(queue)}
        /\ Newest(queue) \in freed <=> State(2) = "deleted"
    BY <2>2, Settled
  <2>5. pipe'[1].outpipe = Null
    BY <1>1, <1>5, <1>9, Links, ZenonT(60)
  <2>6. CASE e = 1
    <3>1. i = 2 /\ State(1)' = "deleted" /\ State(2)' = State(2) /\ pipe'[1].inpipe = Null
      BY <1>1, <1>5, <1>9, <1>10, <2>6 DEF IInv, Addresses
    <3>2. pipe'[2] = pipe[2] BY <1>1, <1>9, <2>6
    <3>3. /\ freed' \subseteq DOMAIN queue' /\ 2 \in freed'
          /\ freed' \ {2, Newest(queue)} = DOMAIN queue' \ {2, Newest(queue)}
          /\ Newest(queue) \in freed' <=> State(2)' = "deleted"
      BY <1>7, <1>11, <1>12, <2>1, <2>4, <3>1 DEF IInv, Addresses
    <3>4. /\ pipe'[2].inpipe = (IF State(2)' = "deleted" THEN Null ELSE Newest(queue'))
          /\ pipe'[2].outpipe \in {2, Null}
      BY <2>1, <3>1, <3>2 DEF IInv, Addresses
    <3> QED BY <2>1, <2>3, <2>5, <3>1, <3>3, <3>4 DEF Addresses, Null
  <2>7. CASE e = 2
    <3>1. i = Newest(queue) /\ State(2)' = "deleted" /\ State(1)' = State(1) /\ pipe'[2].inpipe = Null
      BY <1>1, <1>5, <1>9, <1>10, <2>7 DEF IInv, Addresses
    <3>2. pipe'[1] = pipe[1] /\ pipe'[2].outpipe = Null BY <1>1, <1>9, <2>7
    <3>3. /\ freed' \subseteq DOMAIN queue' /\ (2 \in freed' <=> State(1)' = "deleted")
          /\ freed' \ {2, Newest(queue)} = DOMAIN queue' \ {2, Newest(queue)}
          /\ Newest(queue) \in freed'
      BY <1>7, <1>11, <1>12, <2>1, <2>4, <3>1 DEF IInv, Addresses
    <3>4. pipe'[1].inpipe = (IF State(1)' = "deleted" THEN Null ELSE 2)
      BY <3>1, <3>2 DEF IInv, Addresses
    <3> QED BY <2>1, <2>3, <2>5, <3>1, <3>2, <3>3, <3>4 DEF Addresses, Null
  <2> QED BY <1>1, <2>6, <2>7
<1>16. Contents'
  <2>1. ASSUME NEW d \in Ends, pipe'[d].outpipe # Null, Ended(Out(d))
        PROVE  State(d)' \notin {"active", "delimiter_received"} /\ d \notin terminating'
    <3>1. d = p BY <1>1, <1>9, <2>1
    <3> QED BY <1>9, <1>10, <2>1, <3>1 DEF IInv, Contents
  <2>2. Drained(e)' BY <1>10 DEF Drained
  <2>3. Drained(p)'
    <3> SUFFICES ASSUME State(p) = "delimiter_received"
                          \/ (State(p) = "term_ack_sent" /\ pipe[p].delay)
                 PROVE  Bare(In(p))' /\ Gone(e)'
      BY <1>1, <1>9, <1>10 DEF Drained
    <3>1. Bare(In(p)) BY <1>1 DEF IInv, Contents, Drained
    <3>2. pipe[p].inpipe \in DOMAIN queue BY <1>1, Links DEF Alive, State
    <3> QED BY <1>9, <1>10, <1>12, <3>1, <3>2, EmptyQueue DEF In, Gone
  <2>4. \A j \in DOMAIN queue : /\ Shape(queue'[j])
                                /\ Bare(queue[j]) => Bare(queue'[j])
                                /\ Ended(queue'[j]) => Ended(queue[j])
    <3>1. \A j \in DOMAIN queue : Shape(queue[j]) BY DEF IInv, Contents
    <3> QED BY <1>12, <3>1, EmptyQueue
  <2> QED BY <1>1, <1>9, <1>12, <2>1, <2>2, <2>3, <2>4, LessContents
<1> QED BY <1>13, <1>14, <1>15, <1>16 DEF IInv

\* pipe_t::process_hiccup: the old outpipe is freed and the new one taken
\* over.
LEMMA ProcessHiccupKeeps ==
  ASSUME IInv, NEW e \in Ends, mailbox[e] # << >>, Head(mailbox[e]).type = "hiccup",
         UNCHANGED terminating,
         process_hiccup(e, pipe[e], Head(mailbox[e]).arg, Rest(mailbox, e))
  PROVE  IInv'
<1> DEFINE new == Head(mailbox[e]).arg
           old == pipe[e].outpipe
           box == mailbox[e]
<1>1. /\ box \in Seq(Cmds) /\ Head(box) \in Cmds /\ Tail(box) \in Seq(Cmds)
      /\ \A t : Has(box, t) <=> Has(Tail(box), t) \/ Head(box).type = t
      /\ Ordered(Tail(box)) /\ mailbox \in [Ends -> Seq(Cmds)]
  BY Boxes, Taken
<1>2. e = 1 /\ Peer(e) = 2 /\ Rising(box) BY <1>1, Boxes DEF Peer
<1>3. /\ Renewed(box) = Renewed(Tail(box)) \cup {new}
      /\ Rising(Tail(box)) /\ \A a \in Renewed(Tail(box)) : new < a
  BY <1>1, <1>2, Taken
<1>4. /\ mailbox' = Rest(mailbox, e) /\ mailbox' \in [Ends -> Seq(Cmds)]
      /\ mailbox'[1] = Tail(box) /\ mailbox'[2] = mailbox[2]
  BY <1>1, <1>2 DEF process_hiccup, Rest, Ends
<1>5. State(1) \in NotTold BY <1>1, <1>2 DEF IInv, Addresses
<1>6. /\ old # Null /\ old \in DOMAIN queue \ {2} /\ Out(e) \in Queues /\ Shape(Out(e))
      /\ DOMAIN queue = 1..Len(queue) /\ Len(queue) \in Nat
      /\ Newest(queue) \in DOMAIN queue \ {2} /\ \A i \in DOMAIN queue \ {2} : i <= Newest(queue)
  <2>1. State(e) \notin Answered BY <1>2, <1>5 DEF NotTold, Answered
  <2> QED BY <1>2, <2>1, Links DEF IInv, Addresses
<1>7. /\ freed \ {2} = {i \in DOMAIN queue \ {2} : i < old}
      /\ Renewed(box) = {i \in DOMAIN queue \ {2} : i > old}
  BY <1>2, <1>6 DEF IInv, Addresses
<1>8. new \in DOMAIN queue \ {2} /\ new > old BY <1>3, <1>7
<1>9. failed' = FALSE BY <1>6 DEF process_hiccup
<1>10. freed' = freed \cup {old} /\ queue' = [queue EXCEPT ![old] = Empty]
  BY DEF process_hiccup
<1>11. /\ queue' \in Seq(Queues) /\ Len(queue') = Len(queue) /\ DOMAIN queue' = DOMAIN queue
       /\ queue'[old] = Empty /\ \A j \in DOMAIN queue \ {old} : queue'[j] = queue[j]
  BY <1>6, <1>10, EmptyQueue, Refill
<1>12. PICK n \in Int :
         pipe' = [pipe EXCEPT ![e].outpipe = new, ![e].out_active = TRUE, ![e].msgs_written = n]
  <2> DEFINE o    == Flushed(queue[old]).flushed
             left == {i \in DOMAIN o : o[i] # "part"}
  <2>1. o \in Seq(Items) BY <1>6, Shapes DEF Out, Queues
  <2>2. IsFiniteSet(1..Len(o)) BY <2>1, FS_Interval
  <2>3. left \subseteq 1..Len(o) BY <2>1
  <2>4. Cardinality(left) \in Nat BY <2>2, <2>3, FS_Subset, FS_CardinalityType
  <2>5. pipe[e].msgs_written \in Int BY Boxes DEF Pipes
  <2>6. pipe' = [pipe EXCEPT ![e].outpipe = new, ![e].out_active = TRUE,
                             ![e].msgs_written = @ - Cardinality(left)]
    BY DEF process_hiccup
  <2> DEFINE m == pipe[e].msgs_written - Cardinality(left)
  <2>7. m \in Int BY <2>4, <2>5
  <2>8. pipe' = [pipe EXCEPT ![e].outpipe = new, ![e].out_active = TRUE, ![e].msgs_written = m]
    BY <2>6
  <2> HIDE DEF m
  <2> QED BY <2>7, <2>8
<1>13. /\ pipe' \in [Ends -> Pipes] /\ pipe'[2] = pipe[2]
       /\ pipe'[1].outpipe = new /\ pipe'[1].inpipe = pipe[1].inpipe
       /\ pipe'[1].state = pipe[1].state /\ pipe'[1].delay = pipe[1].delay
  <2> DEFINE r == [pipe[e] EXCEPT !.outpipe = new, !.out_active = TRUE, !.msgs_written = n]
  <2>1. pipe[e] \in Pipes /\ pipe \in [Ends -> Pipes] BY Boxes
  <2>2. new \in Nat BY <1>1 DEF Cmds
  <2> HIDE DEF new
  <2>3. /\ r \in Pipes /\ r.outpipe = new /\ r.inpipe = pipe[e].inpipe
        /\ r.state = pipe[e].state /\ r.delay = pipe[e].delay
    BY <2>1, <2>2 DEF Pipes
  <2>4. pipe' = [pipe EXCEPT ![e] = r] BY <1>12, <2>1
  <2> HIDE DEF r
  <2> QED BY <1>2, <2>1, <2>3, <2>4 DEF Ends
<1> HIDE DEF new, old
<1>14. State(1)' = State(1) /\ State(2)' = State(2) BY <1>13 DEF State
<1>15. TypeOK' BY <1>4, <1>9, <1>11, <1>13 DEF IInv, TypeOK
<1>16. Handshake'
  <2>1. Shake(1) /\ Shake(2) /\ Peer(1) = 2 /\ Peer(2) = 1 BY DEF IInv, Handshake, Ends, Peer
  <2>2. Told(1)'
    BY <1>1, <1>2, <1>4, <1>5, <1>14, <2>1 DEF Shake, Told, NotTold
  <2>3. Told(2)' BY <1>4, <1>14, <2>1 DEF Shake, Told
  <2>4. new # Null BY <1>8, <1>6 DEF Null
  <2>5. State(1) \notin Answered BY <1>5 DEF NotTold, Answered
  <2>6. Shake(1)' BY <1>13, <1>14, <2>1, <2>2, <2>4, <2>5 DEF Shake
  <2>7. Shake(2)' BY <1>13, <1>14, <2>1, <2>3 DEF Shake
  <2> QED BY <1>9, <2>6, <2>7 DEF Handshake, Ends
<1>17. Renewed(Tail(box)) = {i \in DOMAIN queue \ {2} : i > new}
  <2>1. ASSUME NEW a \in Renewed(Tail(box)) PROVE a \in DOMAIN queue \ {2} /\ a > new
    <3>1. a \in DOMAIN queue \ {2} /\ a > old BY <1>3, <1>7, <2>1
    <3>2. new < a BY <1>3, <2>1
    <3> QED BY <1>6, <1>8, <3>1, <3>2
  <2>2. ASSUME NEW i \in DOMAIN queue \ {2}, i > new PROVE i \in Renewed(Tail(box))
    <3>1. i > old /\ i # new BY <1>6, <1>8, <2>2
    <3> QED BY <1>3, <1>7, <3>1
  <2> QED BY <2>1, <2>2
<1>18. freed' \ {2} = {i \in DOMAIN queue \ {2} : i < new}
  <2>1. ASSUME NEW i \in freed' \ {2} PROVE i \in DOMAIN queue \ {2} /\ i < new
    <3>1. i = old \/ (i \in DOMAIN queue \ {2} /\ i < old) BY <1>7, <1>10, <2>1
    <3> QED BY <1>6, <1>8, <3>1
  <2>2. ASSUME NEW i \in DOMAIN queue \ {2}, i < new PROVE i \in freed'
    <3>1. CASE i < old BY <1>7, <1>10, <3>1
    <3>2. CASE i = old BY <1>10, <3>2
    <3>3. CASE i > old
      <4>1. i \in Renewed(Tail(box)) \/ i = new BY <1>3, <1>7, <3>3
      <4>2. new < i \/ i = new BY <1>3, <4>1
      <4> QED BY <1>6, <1>8, <2>2, <4>2
    <3> QED BY <1>6, <3>1, <3>2, <3>3
  <2> QED BY <2>1, <2>2
<1>19. Addresses'
  <2>1. Newest(queue') = Newest(queue) BY <1>11 DEF Newest
  <2>2. /\ freed' \subseteq DOMAIN queue' /\ (2 \in freed' <=> State(1)' = "deleted")
    BY <1>6, <1>10, <1>11, <1>14 DEF IInv, Addresses
  <2>3. /\ pipe'[1].inpipe = (IF State(1)' = "deleted" THEN Null ELSE 2)
        /\ pipe'[2].inpipe = (IF State(2)' = "deleted" THEN Null ELSE Newest(queue'))
        /\ pipe'[2].outpipe \in {2, Null}
    BY <1>13, <1>14, <2>1 DEF IInv, Addresses
  <2>4. pipe'[1].outpipe \in (DOMAIN queue' \cup {Null}) \ {2} /\ pipe'[1].outpipe # Null
    BY <1>6, <1>8, <1>11, <1>13 DEF Null
  <2>5. ~Has(mailbox'[2], "hiccup") /\ Rising(mailbox'[1])
    BY <1>3, <1>4 DEF IInv, Addresses
  <2>6. /\ freed' \ {2} = {i \in DOMAIN queue' \ {2} : i < pipe'[1].outpipe}
        /\ Renewed(mailbox'[1]) = {i \in DOMAIN queue' \ {2} : i > pipe'[1].outpipe}
    BY <1>4, <1>11, <1>13, <1>17, <1>18
  <2> QED BY <1>5, <1>14, <2>2, <2>3, <2>4, <2>5, <2>6 DEF Addresses
<1>20. Contents'
  <2>1. \A j \in DOMAIN queue' : Shape(queue'[j])
    BY <1>11, EmptyQueue DEF IInv, Contents
  <2>2. \A i \in DOMAIN queue \ {2} : i > old => Bare(queue[i])
    BY <1>2, <1>6 DEF IInv, Contents, old
  <2>3. \A i \in DOMAIN queue' \ {2} : i > pipe'[1].outpipe => Bare(queue'[i])
    <3> SUFFICES ASSUME NEW i \in DOMAIN queue \ {2}, i > new PROVE Bare(queue'[i])
      BY <1>11, <1>13
    <3>1. i > old /\ i # old BY <1>6, <1>8
    <3> QED BY <1>11, <2>2, <3>1
  <2>4. ~Ended(Out(1))'
    <3>1. Bare(queue[new]) /\ new # old BY <1>6, <1>8, <2>2
    <3>2. Out(1)' = queue[new] BY <1>8, <1>11, <1>13, <3>1 DEF Out
    <3> QED BY <3>1, <3>2 DEF Bare, Ended
  <2>5. pipe'[2].outpipe # Null /\ Ended(Out(2))' =>
          State(2)' \notin {"active", "delimiter_received"} /\ 2 \notin terminating'
    <3> SUFFICES ASSUME pipe'[2].outpipe # Null, Ended(Out(2))'
                 PROVE  State(2)' \notin {"active", "delimiter_received"} /\ 2 \notin terminating'
      OBVIOUS
    <3>1. pipe[2].outpipe = 2 BY <1>13 DEF IInv, Addresses
    <3>2. 2 \in DOMAIN queue /\ 2 # old /\ pipe[2].outpipe # Null
      BY <1>6, <1>13, <3>1, Links DEF Ends
    <3>3. Out(2)' = Out(2) BY <1>11, <1>13, <3>1, <3>2 DEF Out
    <3> QED BY <1>14, <3>2, <3>3 DEF IInv, Contents, Ends
  <2>6. ASSUME NEW d \in Ends PROVE Drained(d)'
    <3> SUFFICES ASSUME State(d)' = "delimiter_received"
                          \/ (State(d)' = "term_ack_sent" /\ pipe'[d].delay)
                 PROVE  Bare(In(d))' /\ Gone(Peer(d))'
      BY DEF Drained
    <3>1. /\ State(d)' = State(d) /\ pipe'[d].delay = pipe[d].delay /\ pipe'[d].inpipe = pipe[d].inpipe
          /\ State(Peer(d))' = State(Peer(d))
      BY <1>13, <1>14 DEF Ends, Peer
    <3>2. Bare(In(d)) /\ Gone(Peer(d)) BY <3>1 DEF IInv, Contents, Drained
    <3>3. pipe[d].inpipe \in DOMAIN queue /\ Alive(d) BY <3>1, Links DEF Alive, State
    <3>4. pipe[d].inpipe # old
      <4>1. CASE d = 1 BY <1>6, <3>3, <4>1 DEF IInv, Addresses, Alive, State
      <4>2. CASE d = 2
        <5>1. pipe[d].inpipe = Newest(queue) BY <3>3, <4>2 DEF IInv, Addresses, Alive, State
        <5>2. new <= Newest(queue) BY <1>6, <1>8
        <5> QED BY <1>6, <1>8, <5>1, <5>2
      <4> QED BY <4>1, <4>2 DEF Ends
    <3> QED BY <1>11, <3>1, <3>2, <3>3, <3>4 DEF In, Gone
  <2> QED BY <2>1, <2>3, <2>4, <2>5, <2>6 DEF Contents, Ends
<1> QED BY <1>15, <1>16, <1>19, <1>20 DEF IInv

\* pipe_t::hiccup: the session's end turns to a new inpipe and tells its
\* peer.
LEMMA HiccupKeeps == ASSUME IInv, Hiccup PROVE IInv'
<1> DEFINE n == Len(queue) + 1
           c == Cmd("hiccup", n)
<1>1. State(2) = "active" /\ Peer(2) = 1 /\ Peer(1) = 2 /\ 1 \in Ends /\ 2 \in Ends
  BY DEF Hiccup, State, Peer, Ends
<1>2. /\ queue \in Seq(Queues) /\ Len(queue) \in Nat /\ Len(queue) >= 2
      /\ DOMAIN queue = 1..Len(queue) /\ n \in Nat
  BY DEF IInv, TypeOK
<1>3. queue' = Append(queue, Empty) BY DEF Hiccup
<1>4. /\ queue' \in Seq(Queues) /\ Len(queue') = n /\ DOMAIN queue' = DOMAIN queue \cup {n}
      /\ queue'[n] = Empty /\ \A i \in DOMAIN queue : queue'[i] = queue[i]
      /\ \A i \in DOMAIN queue : i < n /\ i \in Nat
  BY <1>2, <1>3, EmptyQueue
<1>5. /\ pipe' = [pipe EXCEPT ![2].inpipe = n, ![2].in_active = TRUE]
      /\ mailbox' = Deliver(mailbox, 1, c)
      /\ UNCHANGED <<freed, terminating, failed>>
  BY <1>4 DEF Hiccup
<1>6. c \in Cmds /\ c.type = "hiccup" /\ c.arg = n BY <1>2 DEF Cmd, Cmds
<1> HIDE DEF n, c
<1>7. /\ pipe' \in [Ends -> Pipes] /\ pipe'[1] = pipe[1]
      /\ pipe'[2].inpipe = n /\ pipe'[2].outpipe = pipe[2].outpipe /\ pipe'[2].state = pipe[2].state
  <2> DEFINE r == [pipe[2] EXCEPT !.inpipe = n, !.in_active = TRUE]
  <2>1. pipe[2] \in Pipes /\ pipe \in [Ends -> Pipes] BY <1>1, Boxes
  <2>2. r \in Pipes /\ r.inpipe = n /\ r.outpipe = pipe[2].outpipe /\ r.state = pipe[2].state
    BY <1>2, <2>1 DEF Pipes
  <2>3. pipe' = [pipe EXCEPT ![2] = r] BY <1>5, <2>1
  <2> HIDE DEF r
  <2> QED BY <1>1, <2>1, <2>2, <2>3
<1>8. State(1)' = State(1) /\ State(2)' = State(2) BY <1>7 DEF State
<1>9. State(1) \in NotTold BY <1>1, Boxes DEF Partners, NotTold
<1>10. /\ pipe[1].outpipe # Null /\ pipe[1].outpipe \in DOMAIN queue \ {2}
  <2>1. State(1) \notin Answered BY <1>9 DEF NotTold, Answered
  <2> QED BY <1>1, <2>1, Links DEF IInv, Addresses
<1>11. /\ freed \ {2} = {i \in DOMAIN queue \ {2} : i < pipe[1].outpipe}
       /\ Renewed(mailbox[1]) = {i \in DOMAIN queue \ {2} : i > pipe[1].outpipe}
  BY <1>10 DEF IInv, Addresses
<1>12. mailbox[1] \in Seq(Cmds) /\ mailbox \in [Ends -> Seq(Cmds)] BY <1>1, Boxes
<1>13. /\ mailbox' \in [Ends -> Seq(Cmds)] /\ mailbox'[2] = mailbox[2]
       /\ mailbox'[1] = Append(mailbox[1], c) /\ Append(mailbox[1], c) \in Seq(Cmds)
  <2>1. Append(mailbox[1], c) \in Seq(Cmds) BY <1>6, <1>12, Posted
  <2> QED BY <1>1, <1>5, <1>12, <2>1 DEF Deliver
<1>14. /\ \A t : Has(mailbox'[1], t) <=> Has(mailbox[1], t) \/ t = "hiccup"
       /\ Ordered(mailbox'[1])
  <2>1. ~Has(mailbox[1], "pipe_term_ack") /\ ~Has(mailbox[1], "pipe_term") /\ Ordered(mailbox[1])
    BY <1>1, Boxes DEF Asked, Answered
  <2> QED BY <1>6, <1>12, <1>13, <2>1, Posted
<1>15. Renewed(mailbox'[1]) = Renewed(mailbox[1]) \cup {n}
  BY <1>6, <1>12, <1>13, Posted
<1>16. Rising(mailbox'[1])
  <2>1. \A a \in Renewed(mailbox[1]) : a < n BY <1>4, <1>11
  <2>2. Rising(mailbox[1]) BY DEF IInv, Addresses
  <2> QED BY <1>6, <1>12, <1>13, <2>1, <2>2, Posted
<1>17. TypeOK' BY <1>2, <1>4, <1>5, <1>7, <1>13 DEF IInv, TypeOK, n
<1>18. Handshake'
  <2>1. Shake(1) /\ Shake(2) /\ ~failed BY <1>1 DEF IInv, Handshake
  <2>2. Told(1)' BY <1>1, <1>8, <1>9, <1>14, <2>1 DEF Shake, Told, NotTold
  <2>3. Told(2)' BY <1>1, <1>8, <1>13, <2>1 DEF Shake, Told
  <2>4. Shake(1)' BY <1>1, <1>5, <1>7, <1>8, <2>1, <2>2 DEF Shake
  <2>5. Shake(2)' BY <1>1, <1>5, <1>7, <1>8, <2>1, <2>3 DEF Shake
  <2> QED BY <1>5, <2>1, <2>4, <2>5 DEF Handshake, Ends
<1>19. Addresses'
  <2>1. Newest(queue') = n BY <1>2, <1>4 DEF Newest, n
  <2>2. /\ pipe'[1].inpipe = (IF State(1)' = "deleted" THEN Null ELSE 2)
        /\ pipe'[2].inpipe = (IF State(2)' = "deleted" THEN Null ELSE Newest(queue'))
        /\ pipe'[2].outpipe \in {2, Null}
        /\ pipe'[1].outpipe \in (DOMAIN queue' \cup {Null}) \ {2} /\ pipe'[1].outpipe # Null
    BY <1>1, <1>4, <1>7, <1>8, <1>10, <2>1 DEF IInv, Addresses
  <2>3. ~Has(mailbox'[2], "hiccup") BY <1>13 DEF IInv, Addresses
  <2>4. freed' \subseteq DOMAIN queue' /\ (2 \in freed' <=> State(1)' = "deleted")
    BY <1>4, <1>5, <1>8 DEF IInv, Addresses
  <2>5. n > pipe[1].outpipe /\ n # 2 /\ ~(n < pipe[1].outpipe) BY <1>2, <1>4, <1>10 DEF n
  <2>6. freed' \ {2} = {i \in DOMAIN queue' \ {2} : i < pipe'[1].outpipe}
    BY <1>4, <1>5, <1>7, <1>11, <2>5
  <2>7. Renewed(mailbox'[1]) = {i \in DOMAIN queue' \ {2} : i > pipe'[1].outpipe}
    BY <1>4, <1>7, <1>11, <1>15, <2>5
  <2> QED BY <1>8, <1>9, <1>16, <2>2, <2>3, <2>4, <2>6, <2>7 DEF Addresses
<1>20. Contents'
  <2>1. \A i \in DOMAIN queue' : Shape(queue'[i])
    BY <1>4, EmptyQueue DEF IInv, Contents
  <2>2. \A i \in DOMAIN queue' \ {2} : i > pipe'[1].outpipe => Bare(queue'[i])
    BY <1>4, <1>7, <1>10, EmptyQueue DEF IInv, Contents
  <2>3. ASSUME NEW d \in Ends, pipe'[d].outpipe # Null, Ended(Out(d))'
        PROVE  State(d)' \notin {"active", "delimiter_received"} /\ d \notin terminating'
    <3>1. pipe'[d].outpipe = pipe[d].outpipe /\ State(d)' = State(d) BY <1>7, <1>8 DEF Ends
    <3>2. pipe[d].outpipe \in DOMAIN queue BY <2>3, <3>1, Links
    <3>3. Ended(Out(d)) BY <1>4, <2>3, <3>1, <3>2 DEF Out
    <3> QED BY <1>5, <2>3, <3>1, <3>3 DEF IInv, Contents
  <2>4. Drained(2)' BY <1>1, <1>8 DEF Drained
  <2>5. Drained(1)'
    <3>1. ~Gone(2) BY <1>1 DEF Gone
    <3>2. State(1) # "delimiter_received" BY <1>1, <3>1 DEF IInv, Contents, Drained
    <3>3. State(1) # "term_ack_sent" BY <1>9 DEF NotTold
    <3> QED BY <1>8, <3>2, <3>3 DEF Drained
  <2> QED BY <2>1, <2>2, <2>3, <2>4, <2>5 DEF Contents, Ends
<1> QED BY <1>17, <1>18, <1>19, <1>20 DEF IInv
-----------------------------------------------------------------------------
\* Every command a pipe takes from its mailbox.
LEMMA ProcessCommandKeeps ==
  ASSUME IInv, NEW e \in Ends, ProcessCommand(e) PROVE IInv'
<1> DEFINE cmd  == Head(mailbox[e])
           rest == [mailbox EXCEPT ![e] = Tail(@)]
<1>1. /\ mailbox[e] # << >> /\ e \notin terminating /\ UNCHANGED terminating
      /\ rest = Rest(mailbox, e)
  BY DEF ProcessCommand, Runs, Rest
<1>2. \/ cmd.type = "activate_read" /\ process_activate_read(e, pipe[e], rest)
      \/ cmd.type = "activate_write" /\ process_activate_write(e, pipe[e], cmd.arg, rest)
      \/ cmd.type = "hiccup" /\ process_hiccup(e, pipe[e], cmd.arg, rest)
      \/ cmd.type = "pipe_term" /\ process_pipe_term(e, pipe[e], rest)
      \/ cmd.type = "pipe_term_ack" /\ process_pipe_term_ack(e, pipe[e], rest)
  BY DEF ProcessCommand
<1>3. CASE cmd.type = "activate_read" /\ process_activate_read(e, pipe[e], rest)
  BY <1>1, <1>3, ActivateReadKeeps
<1>4. CASE cmd.type = "activate_write" /\ process_activate_write(e, pipe[e], cmd.arg, rest)
  BY <1>1, <1>4, ActivateWriteKeeps
<1>5. CASE cmd.type = "hiccup" /\ process_hiccup(e, pipe[e], cmd.arg, rest)
  <2>1. process_hiccup(e, pipe[e], cmd.arg, Rest(mailbox, e)) BY <1>5 DEF Rest
  <2> QED BY <1>1, <1>5, <2>1, ProcessHiccupKeeps
<1>6. CASE cmd.type = "pipe_term" /\ process_pipe_term(e, pipe[e], rest)
  <2>1. process_pipe_term(e, pipe[e], Rest(mailbox, e)) BY <1>6 DEF Rest
  <2> QED BY <1>1, <1>6, <2>1, PipeTermKeeps
<1>7. CASE cmd.type = "pipe_term_ack" /\ process_pipe_term_ack(e, pipe[e], rest)
  <2>1. process_pipe_term_ack(e, pipe[e], Rest(mailbox, e)) BY <1>7 DEF Rest
  <2> QED BY <1>1, <1>7, <2>1, PipeTermAckKeeps
<1> QED BY <1>2, <1>3, <1>4, <1>5, <1>6, <1>7

\* A step that changes nothing.
LEMMA StuttersKeep == ASSUME IInv, UNCHANGED vars PROVE IInv'
<1>1. /\ pipe' = pipe /\ queue' = queue /\ freed' = freed /\ mailbox' = mailbox
      /\ terminating' = terminating /\ failed' = failed
  BY DEF vars
<1>2. Steady
  <2>1. Quiet(mailbox, mailbox') BY <1>1, Nothing
  <2> QED BY <1>1, <2>1 DEF Steady, Unmoved, IInv, TypeOK
<1>3. \A j \in DOMAIN queue : Shape(queue[j]) BY DEF IInv, Contents
<1> QED BY <1>1, <1>2, <1>3, NothingAdded

\* In every reachable state, for every scenario: the types, the states in
\* which the two ends may meet with the termination commands on their way
\* between them (Handshake), which ypipe each pointer addresses and which
\* have been freed (Addresses), and where a delimiter may lie (Contents).
THEOREM PipeInvariant == Spec => []IInv
<1>1. IInv /\ [Next]_vars => IInv'
  <2> SUFFICES ASSUME IInv, [Next]_vars PROVE IInv' OBVIOUS
  <2>1. ASSUME NEW e \in Ends, Reads(e) PROVE IInv'
    <3>1. CASE ReadNothing(e) BY <3>1, ReadNothingKeeps
    <3>2. CASE Read(e) BY <3>2, ReadKeeps
    <3> QED BY <2>1, <3>1, <3>2 DEF Reads
  <2>3. ASSUME NEW e \in Ends, WriteRefused(e) PROVE IInv' BY <2>3, WriteRefusedKeeps
  <2>4. ASSUME NEW e \in Ends, Rollback(e) PROVE IInv' BY <2>4, RollbackKeeps
  <2>5. ASSUME NEW e \in Ends, Flush(e) PROVE IInv' BY <2>5, FlushKeeps
  <2>6. ASSUME NEW e \in Ends, WriteDelimiter(e) PROVE IInv' BY <2>6, WriteDelimiterKeeps
  <2>7. ASSUME NEW e \in Ends, ProcessCommand(e) PROVE IInv' BY <2>7, ProcessCommandKeeps
  <2>8. ASSUME NEW e \in Ends, NEW f \in pipe[e].user.frames, Write(e, f) PROVE IInv'
    BY <2>8, WriteKeeps
  <2>9. ASSUME NEW e \in Ends, NEW delay \in Lingers, Terminate(e, delay) PROVE IInv'
    BY <2>9, TerminateKeeps
  <2>10. CASE Hiccup BY <2>10, HiccupKeeps
  <2>11. CASE UNCHANGED vars BY <2>11, StuttersKeep
  <2> QED BY <2>1, <2>3, <2>4, <2>5, <2>6, <2>7, <2>8, <2>9, <2>10, <2>11 DEF Next
<1> QED BY <1>1, Initially, PTL DEF Spec

\* pipe_t terminates safely for every high-water mark, every number of hiccups, whichever
\* end starts, both at once included, and whichever ends have set_nodelay (PUB, PUSH and
\* the session of a ZAP pipe) and answer with data unread: no assertion of its command handlers
\* fails, no command comes for an end that has been deleted, no end holds a ypipe that
\* was freed, and when both ends are gone every ypipe has been freed.
THEOREM PipeTerminationSafe == Spec => []TerminationSafe
<1>1. IInv => TerminationSafe
  <2> SUFFICES ASSUME IInv PROVE TerminationSafe OBVIOUS
  <2>1. ~failed BY DEF IInv, Handshake
  <2>2. ASSUME NEW e \in Ends, ~Alive(e) PROVE mailbox[e] = << >> /\ e \notin terminating
    BY <2>2, Boxes DEF Alive, State
  <2>3. ASSUME NEW e \in Ends PROVE {pipe[e].inpipe, pipe[e].outpipe} \cap freed = {}
    <3>1. freed \subseteq DOMAIN queue /\ Null \notin DOMAIN queue BY Links DEF IInv, Addresses
    <3>2. ~Alive(e) => pipe[e].inpipe = Null BY DEF Alive, State, IInv, Addresses, Ends
    <3>3. pipe[e].inpipe \notin freed BY <3>1, <3>2, Links
    <3>4. pipe[e].outpipe \notin freed BY <3>1, Links
    <3> QED BY <3>3, <3>4
  <2>4. ASSUME \A e \in Ends : ~Alive(e) PROVE freed = DOMAIN queue
    <3>1. State(1) = "deleted" /\ State(2) = "deleted" BY <2>4 DEF Ends, Alive, State
    <3>2. pipe[1].outpipe = Null BY <3>1, Links DEF Ends, Answered
    <3>3. /\ freed \subseteq DOMAIN queue /\ 2 \in freed /\ Newest(queue) \in freed
          /\ freed \ {2, Newest(queue)} = DOMAIN queue \ {2, Newest(queue)}
      BY <3>1, <3>2 DEF IInv, Addresses
    <3> QED BY <3>3
  <2> QED BY <2>1, <2>2, <2>3, <2>4 DEF TerminationSafe
<1> QED BY <1>1, PipeInvariant, PTL

\* An end with delay (pipe_t's default, without set_nodelay, or terminate's argument) has
\* nothing left to read when it has met the delimiter or acknowledged the peer's request;
\* and at any end the delimiter comes last, after a complete message.
THEOREM PipeDrainedBeforeAck == Spec => []DrainedBeforeAck
<1>1. IInv => DrainedBeforeAck
  <2> SUFFICES ASSUME IInv, NEW e \in Ends, Alive(e)
               PROVE  /\ pipe[e].state \in {"delimiter_received", "term_ack_sent"} /\ pipe[e].delay
                           => In(e).flushed = << >>
                      /\ \A i \in DOMAIN In(e).flushed : In(e).flushed[i] = "delimiter" =>
                            i = Len(In(e).flushed) /\ (i > 1 => In(e).flushed[i - 1] # "part")
    BY DEF DrainedBeforeAck
  <2>1. Drained(e) BY DEF IInv, Contents
  <2>2. Shape(In(e)) BY Links
  <2> QED BY <2>1, <2>2 DEF Drained, Bare, Shape, State
<1> QED BY <1>1, PipeInvariant, PTL
=============================================================================
