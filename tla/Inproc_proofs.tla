----------------------------- MODULE Inproc_proofs -----------------------------
(***************************************************************************)
(* For any sockets and options: whichever of bind and connect comes first, *)
(* the two sockets of an inproc connection agree on its limits, and the    *)
(* one that expects identities reads its peer's before anything else,      *)
(* unless the peer probes or the binder wrote in the middle of the         *)
(* connect.                                                                *)
(***************************************************************************)
EXTENDS Inproc, FiniteSetTheorems, TLAPS

Lives == {"absent", "open", "closed", "reaping", "destroyed", "deleted"}
Stages == {"active", "delimiter_received", "waiting_for_delimiter", "term_ack_sent",
           "term_req_sent1", "term_req_sent2"}
Items == {"identity", "message", "delimiter", "probe", "garbage"}
Types == {"bind", "inproc_connected", "stop", "pipe_term", "pipe_term_ack"}
Crashes == {"none", "deleted", "sink", "read", "write", "null"}
Option == [recv_identity : BOOLEAN, probe_router : BOOLEAN, sndhwm : Nat, rcvhwm : Nat]
Sides == {Null, "found", "bind_side", "connect_side", "greeted"}
EndState == [state : Stages, delay : BOOLEAN, in : Seq(Items), tid : All]
Limits == [snd : Nat, rcv : Nat]
Pipe == [made : BOOLEAN, deleted : SUBSET Ends, hwms : Limits, binder : All \cup {Null},
         side : Sides, ends : [Ends -> EndState]]
Socket == [life : Lives, terminating : BOOLEAN, sent_seqnum : Nat, processed_seqnum : Nat,
           term_acks : Int, pipes : SUBSET (Connecting \X Ends),
           inprocs : SUBSET (Connecting \X Ends), ctx_terminated : BOOLEAN]
Commands == [type : Types, conn : Connecting \cup {Null}, end : Ends \cup {Null}]
States == [sock : [All -> Socket], mail : [All -> Seq(Commands)], conn : [Connecting -> Pipe],
           crash : Crashes]
-----------------------------------------------------------------------------
(* The invariant. *)

\* a command about an end says which, and a bind is for the socket that is bound
Proper(r, s, m) ==
    /\ m.type # "stop" => m.conn \in Connecting /\ m.end \in Ends
    /\ m.type = "bind" => m.end = "b" /\ r.conn[m.conn].made /\ r.conn[m.conn].binder = s

\* who holds the ends of a pipe
Held(r, c) ==
    /\ \A s \in All : <<c, "c">> \in r.sock[s].pipes => s = c /\ r.conn[c].made
    /\ \A s \in All : <<c, "b">> \in r.sock[s].pipes => r.conn[c].made /\ r.conn[c].binder = s

\* whether an identity comes first: until a socket is bound, it does at the other end
Expects(x, c, e) ==
    x.made /\ IF e = "c" THEN x.binder # Null /\ options[c].recv_identity
                         ELSE x.binder = Null \/ options[x.binder].recv_identity
\* an identity is the first that is read or, when nothing was read, the first to be read
First(q, done, x) ==
    /\ \A i \in DOMAIN done : done[i] = "identity" <=> i = 1 /\ x
    /\ \A i \in DOMAIN q : q[i] = "identity" <=> i = 1 /\ x /\ done = << >>
    /\ x /\ done = << >> => q # << >>
Written(x, done, c, e) ==
    /\ ~Late(x, c, e) => First(x.ends[e].in, done, Expects(x, c, e))
    /\ x.made /\ x.binder = Null /\ e = "b" => x.ends[e].in # << >>
    /\ ~x.made \/ (e = "c" /\ x.binder = Null) => x.ends[e].in = << >>
    /\ x.binder = Null => done = << >>

Agreed(x, c) ==
    /\ ~x.made => x.binder = Null
    /\ x.made /\ x.binder # Null => x.hwms = PipeHwms(c, x.binder)

OfConn(r, rd, c) ==
    /\ Held(r, c) /\ Agreed(r.conn[c], c)
    /\ \A e \in Ends : Written(r.conn[c], rd[c][e], c, e)
OfSock(r, s) ==
    /\ r.sock[s].inprocs # {} => s \in Connecting /\ r.conn[s].made
    /\ r.sock[s].life = "open" => ~r.sock[s].terminating
    /\ \A i \in DOMAIN r.mail[s] : Proper(r, s, r.mail[s][i])
Fine(r, rd) == (\A c \in Connecting : OfConn(r, rd, c)) /\ (\A s \in All : OfSock(r, s))

Reads == [Connecting -> [Ends -> Seq(Items)]]
Doing == All \cup {"idle", "unbound", "connect_pending", "connecting", "greeting"}
TypeOK ==
    /\ State \in States /\ read \in Reads /\ options \in [All -> Option]
    /\ pc \in [All -> Doing] /\ endpoint \in All \cup {Null} /\ pending \in SUBSET Connecting
\* the connecter whose peer's identity is still to be written
Greets(s, f) ==
    /\ s \in Connecting /\ options[s].recv_identity
    /\ f[s].made /\ f[s].binder # Null /\ f[s].side = "connect_side"
Calling ==
    \A s \in All :
      /\ pc[s] # "idle" => sock[s].life = "open"
      /\ pc[s] \in All \cup {"unbound"} => s \in Connecting /\ ~conn[s].made
      /\ pc[s] = "greeting" => Greets(s, conn)
Waits == \A c \in pending : conn[c].made /\ conn[c].binder = Null

IInv == TypeOK /\ Fine(State, read) /\ Calling /\ Waits
-----------------------------------------------------------------------------
(* The operators of the model, field by field. *)

\* The names of the phases of a call are no names of sockets.
LEMMA Names ==
  /\ \A s \in All : s \notin {Null, "idle", "unbound", "connect_pending", "connecting", "greeting"}
  /\ \A c \in Connecting : c # Temporary
  /\ IsFiniteSet(Connecting) /\ Connecting \subseteq All /\ Binding \subseteq All
  /\ Sockets \subseteq All /\ Temporary \in All /\ Ends = {"c", "b"}
  /\ \A e \in Ends : Other(e) \in Ends /\ Other(Other(e)) = e
<1>1. Connecting \subseteq Sockets /\ IsFiniteSet(Sockets) BY InprocAssumption
<1>2. IsFiniteSet(Connecting) BY <1>1, FS_Subset
<1> QED BY <1>1, <1>2, InprocAssumption DEF All, Null, Ends, Other

\* Replacing one field of the state leaves the others.
LEMMA WithSock ==
  ASSUME NEW r \in States, NEW f \in [All -> Socket]
  PROVE  /\ [r EXCEPT !.sock = f] \in States /\ [r EXCEPT !.sock = f].sock = f
         /\ [r EXCEPT !.sock = f].mail = r.mail /\ [r EXCEPT !.sock = f].conn = r.conn
         /\ [r EXCEPT !.sock = f].crash = r.crash
  BY DEF States
\* The same for the mailboxes.
LEMMA WithMail ==
  ASSUME NEW r \in States, NEW f \in [All -> Seq(Commands)]
  PROVE  /\ [r EXCEPT !.mail = f] \in States /\ [r EXCEPT !.mail = f].mail = f
         /\ [r EXCEPT !.mail = f].sock = r.sock /\ [r EXCEPT !.mail = f].conn = r.conn
         /\ [r EXCEPT !.mail = f].crash = r.crash
  BY DEF States
\* The same for the pipes.
LEMMA WithConn ==
  ASSUME NEW r \in States, NEW f \in [Connecting -> Pipe]
  PROVE  /\ [r EXCEPT !.conn = f] \in States /\ [r EXCEPT !.conn = f].conn = f
         /\ [r EXCEPT !.conn = f].sock = r.sock /\ [r EXCEPT !.conn = f].mail = r.mail
         /\ [r EXCEPT !.conn = f].crash = r.crash
  BY DEF States

\* zmq_assert changes nothing else.
LEMMA ExpectFacts ==
  ASSUME NEW r \in States, NEW ok, NEW what \in Crashes
  PROVE  /\ Expect(r, ok, what) \in States /\ Expect(r, ok, what).sock = r.sock
         /\ Expect(r, ok, what).mail = r.mail /\ Expect(r, ok, what).conn = r.conn
  BY DEF Expect, States

\* One socket changes.
SockEdit(r, r2, s, y) ==
    /\ r2 \in States /\ r2.mail = r.mail /\ r2.conn = r.conn
    /\ r2.sock[s] = y /\ \A t \in All : t # s => r2.sock[t] = r.sock[t]
\* An assignment to the fields of one socket.
LEMMA SockStep ==
  ASSUME NEW r \in States, NEW s \in All, NEW y \in Socket, NEW r2,
         r2 = [r EXCEPT !.sock[s] = y]
  PROVE  SockEdit(r, r2, s, y)
<1> DEFINE f == [r.sock EXCEPT ![s] = y]
<1>1. f \in [All -> Socket] BY DEF States
<1>2. r2 = [r EXCEPT !.sock = f] OBVIOUS
<1>3. f[s] = y /\ \A t \in All : t # s => f[t] = r.sock[t] BY DEF States
<1> HIDE DEF f
<1> DEFINE z == [r EXCEPT !.sock = f]
<1>4. z \in States /\ z.sock = f /\ z.mail = r.mail /\ z.conn = r.conn BY <1>1, WithSock
<1>5. r2 = z BY <1>2
<1> HIDE DEF z
<1> QED BY <1>3, <1>4, <1>5, Zenon DEF SockEdit

\* One pipe changes.
ConnEdit(r, r2, c, x) ==
    /\ r2 \in States /\ r2.mail = r.mail /\ r2.sock = r.sock
    /\ r2.conn[c] = x /\ \A d \in Connecting : d # c => r2.conn[d] = r.conn[d]
\* An assignment to the fields of one pipe.
LEMMA ConnStep ==
  ASSUME NEW r \in States, NEW c \in Connecting, NEW x \in Pipe, NEW r2,
         r2 = [r EXCEPT !.conn[c] = x]
  PROVE  ConnEdit(r, r2, c, x)
<1> DEFINE f == [r.conn EXCEPT ![c] = x]
<1>1. f \in [Connecting -> Pipe] BY DEF States
<1>2. r2 = [r EXCEPT !.conn = f] OBVIOUS
<1>3. f[c] = x /\ \A d \in Connecting : d # c => f[d] = r.conn[d] BY DEF States
<1> HIDE DEF f
<1> DEFINE z == [r EXCEPT !.conn = f]
<1>4. z \in States /\ z.conn = f /\ z.mail = r.mail /\ z.sock = r.sock BY <1>1, WithConn
<1>5. r2 = z BY <1>2
<1> HIDE DEF z
<1> QED BY <1>3, <1>4, <1>5, Zenon DEF ConnEdit

\* object_t::send_command.
LEMMA SendFacts ==
  ASSUME NEW r \in States, NEW s \in All, NEW m \in Commands
  PROVE  /\ Send(r, s, m) \in States /\ Send(r, s, m).sock = r.sock /\ Send(r, s, m).conn = r.conn
         /\ Send(r, s, m).mail[s] = Append(r.mail[s], m)
         /\ \A t \in All : t # s => Send(r, s, m).mail[t] = r.mail[t]
<1> DEFINE x == Expect(r, r.sock[s].life # "deleted", "deleted")
           f == [r.mail EXCEPT ![s] = Append(r.mail[s], m)]
<1>1. x \in States /\ x.sock = r.sock /\ x.mail = r.mail /\ x.conn = r.conn
  BY ExpectFacts DEF Crashes
<1>2. f \in [All -> Seq(Commands)] BY DEF States
<1> HIDE DEF x
<1>3. Send(r, s, m) = [x EXCEPT !.mail = f] BY <1>1 DEF Send, x
<1>4. f[s] = Append(r.mail[s], m) /\ \A t \in All : t # s => f[t] = r.mail[t] BY DEF States
<1> HIDE DEF f
<1> QED BY <1>1, <1>2, <1>3, <1>4, WithMail

\* A socket of which at most the counters changed.
Counted(x, y) ==
    /\ y \in Socket /\ y.pipes = x.pipes /\ y.inprocs = x.inprocs
    /\ y.life = x.life /\ y.terminating = x.terminating
\* own_t::inc_seqnum.
LEMMA IncFacts ==
  ASSUME NEW r \in States, NEW s \in All
  PROVE  /\ inc_seqnum(r, s) \in States /\ inc_seqnum(r, s).mail = r.mail
         /\ inc_seqnum(r, s).conn = r.conn
         /\ \A t \in All : Counted(r.sock[t], inc_seqnum(r, s).sock[t])
<1> DEFINE x == Expect(r, r.sock[s].life # "deleted", "deleted")
           y == [r.sock[s] EXCEPT !.sent_seqnum = @ + 1]
<1>1. x \in States /\ x.sock = r.sock /\ x.mail = r.mail /\ x.conn = r.conn
  BY ExpectFacts DEF Crashes
<1>2. \A t \in All : r.sock[t] \in Socket BY DEF States
<1>3. y \in Socket /\ Counted(r.sock[s], y) BY <1>2 DEF Socket, Counted
<1> HIDE DEF x, y
<1>4. inc_seqnum(r, s) = [x EXCEPT !.sock[s] = y] BY <1>1 DEF inc_seqnum, x, y
<1>5. SockEdit(x, inc_seqnum(r, s), s, y) BY <1>1, <1>3, <1>4, SockStep
<1> QED BY <1>1, <1>2, <1>3, <1>5 DEF SockEdit, Counted
-----------------------------------------------------------------------------
(* Most steps are mild: nobody gets an end of a pipe, nothing but messages and *)
(* delimiters is written, and no bind is sent.                                 *)

Grown(q, p) ==
    /\ Len(q) <= Len(p) /\ \A i \in 1..Len(q) : p[i] = q[i]
    /\ \A i \in DOMAIN p : i > Len(q) => p[i] # "identity"
Writer(x, e) == x.made /\ (e = "b" => x.binder # Null)
SameLink(x, y) ==
    y.made = x.made /\ y.binder = x.binder /\ y.side = x.side /\ y.hwms = x.hwms
Less(x, y) ==
    /\ y.pipes \subseteq x.pipes /\ (y.inprocs # {} => x.inprocs # {})
    /\ y.life = "open" => x.life = "open" /\ y.terminating = x.terminating
Known(r, s, m) ==
    \/ \E j \in DOMAIN r.mail[s] : m = r.mail[s][j]
    \/ m.type = "stop"
    \/ /\ m.type \in {"pipe_term", "pipe_term_ack", "inproc_connected"}
       /\ m.conn \in Connecting /\ m.end \in Ends
Mild(r, r2) ==
    /\ r2 \in States
    /\ \A c \in Connecting : SameLink(r.conn[c], r2.conn[c])
    /\ \A c \in Connecting, e \in Ends :
         /\ Grown(r.conn[c].ends[e].in, r2.conn[c].ends[e].in)
         /\ r2.conn[c].ends[e].in = r.conn[c].ends[e].in \/ Writer(r.conn[c], Other(e))
    /\ \A s \in All : Less(r.sock[s], r2.sock[s])
    /\ \A s \in All : \A i \in DOMAIN r2.mail[s] : Known(r, s, r2.mail[s][i])
\* and a socket that is open stays open
Kept(r, r2) ==
    \A s \in All : r.sock[s].life = "open" /\ ~r.sock[s].terminating =>
                     r2.sock[s].life = "open" /\ ~r2.sock[s].terminating
Soft(r, r2) == Mild(r, r2) /\ Kept(r, r2)

\* A queue grows by what is written.
LEMMA GrownFacts ==
  /\ \A q \in Seq(Items) : Grown(q, q)
  /\ \A q \in Seq(Items), m \in Items : m # "identity" => Grown(q, Append(q, m))
  /\ \A q, p, t \in Seq(Items) : Grown(q, p) /\ Grown(p, t) => Grown(q, t)
<1>1. ASSUME NEW q \in Seq(Items) PROVE Grown(q, q) BY DEF Grown
<1>2. ASSUME NEW q \in Seq(Items), NEW m \in Items, m # "identity" PROVE Grown(q, Append(q, m))
  BY <1>2 DEF Grown
<1>3. ASSUME NEW q \in Seq(Items), NEW p \in Seq(Items), NEW t \in Seq(Items),
             Grown(q, p), Grown(p, t)
      PROVE  Grown(q, t)
  <2>1. /\ Len(q) \in Nat /\ Len(p) \in Nat /\ Len(t) \in Nat /\ Len(q) <= Len(p) /\ Len(p) <= Len(t)
        /\ DOMAIN p = 1..Len(p) /\ DOMAIN t = 1..Len(t)
    BY <1>3 DEF Grown
  <2>2. ASSUME NEW i \in 1..Len(q) PROVE t[i] = q[i]
    <3>1. i \in 1..Len(p) BY <2>1
    <3> QED BY <1>3, <3>1 DEF Grown
  <2>3. ASSUME NEW i \in DOMAIN t, i > Len(q) PROVE t[i] # "identity"
    <3>1. CASE i > Len(p) BY <1>3, <3>1 DEF Grown
    <3>2. CASE i \in 1..Len(p)
      <4>1. t[i] = p[i] /\ i \in DOMAIN p BY <1>3, <2>1, <3>2 DEF Grown
      <4> QED BY <1>3, <2>3, <4>1 DEF Grown
    <3> QED BY <2>1, <3>1, <3>2
  <2> QED BY <2>1, <2>2, <2>3 DEF Grown
<1> QED BY <1>1, <1>2, <1>3

\* What is in the queues.
LEMMA QueueType ==
  ASSUME NEW r \in States, NEW c \in Connecting, NEW e \in Ends
  PROVE  /\ r.conn[c] \in Pipe /\ r.conn[c].ends[e] \in EndState
         /\ r.conn[c].ends[e].in \in Seq(Items) /\ r.conn[c].ends[e].tid \in All
  BY DEF States, Pipe, EndState

\* Nothing happens.
LEMMA SoftSame ==
  ASSUME NEW r \in States
  PROVE  Soft(r, r)
<1>1. \A c \in Connecting, e \in Ends : Grown(r.conn[c].ends[e].in, r.conn[c].ends[e].in)
  BY QueueType, GrownFacts
<1> QED BY <1>1 DEF Soft, Mild, Kept, SameLink, Less, Known

\* One mild step after another is a mild step.
LEMMA SoftTrans ==
  ASSUME NEW r \in States, NEW r2, NEW r3, Soft(r, r2), Soft(r2, r3)
  PROVE  Soft(r, r3)
<1>1. r2 \in States /\ r3 \in States BY DEF Soft, Mild
<1>2. ASSUME NEW c \in Connecting PROVE SameLink(r.conn[c], r3.conn[c])
  BY DEF Soft, Mild, SameLink
<1>3. ASSUME NEW c \in Connecting, NEW e \in Ends
      PROVE  /\ Grown(r.conn[c].ends[e].in, r3.conn[c].ends[e].in)
             /\ r3.conn[c].ends[e].in = r.conn[c].ends[e].in \/ Writer(r.conn[c], Other(e))
  <2>1. /\ r.conn[c].ends[e].in \in Seq(Items) /\ r2.conn[c].ends[e].in \in Seq(Items)
        /\ r3.conn[c].ends[e].in \in Seq(Items)
    BY <1>1, QueueType
  <2>2. /\ Grown(r.conn[c].ends[e].in, r2.conn[c].ends[e].in)
        /\ Grown(r2.conn[c].ends[e].in, r3.conn[c].ends[e].in)
    BY DEF Soft, Mild
  <2>3. Writer(r2.conn[c], Other(e)) => Writer(r.conn[c], Other(e))
    BY DEF Soft, Mild, SameLink, Writer
  <2>4. /\ r2.conn[c].ends[e].in = r.conn[c].ends[e].in \/ Writer(r.conn[c], Other(e))
        /\ r3.conn[c].ends[e].in = r2.conn[c].ends[e].in \/ Writer(r2.conn[c], Other(e))
    BY DEF Soft, Mild
  <2> QED BY <2>1, <2>2, <2>3, <2>4, GrownFacts
<1>4. ASSUME NEW s \in All PROVE Less(r.sock[s], r3.sock[s])
  <2>1. Less(r.sock[s], r2.sock[s]) /\ Less(r2.sock[s], r3.sock[s]) BY DEF Soft, Mild
  <2> QED BY <2>1 DEF Less
<1>5. ASSUME NEW s \in All, NEW i \in DOMAIN r3.mail[s] PROVE Known(r, s, r3.mail[s][i])
  <2>1. Known(r2, s, r3.mail[s][i]) BY DEF Soft, Mild
  <2>2. \A j \in DOMAIN r2.mail[s] : Known(r, s, r2.mail[s][j]) BY DEF Soft, Mild
  <2> QED BY <2>1, <2>2 DEF Known
<1>6. Kept(r, r3) BY DEF Soft, Kept
<1> QED BY <1>1, <1>2, <1>3, <1>4, <1>5, <1>6 DEF Soft, Mild

\* A queue that grows keeps the identity where it is.
LEMMA GrownFirst ==
  ASSUME NEW q \in Seq(Items), NEW p \in Seq(Items), NEW done \in Seq(Items), NEW x,
         Grown(q, p), First(q, done, x)
  PROVE  First(p, done, x)
<1>1. ASSUME NEW i \in DOMAIN p PROVE p[i] = "identity" <=> i = 1 /\ x /\ done = << >>
  <2>1. CASE i <= Len(q)
    <3>1. i \in DOMAIN q /\ p[i] = q[i] BY <2>1 DEF Grown
    <3> QED BY <3>1 DEF First
  <2>2. CASE i > Len(q)
    <3>1. p[i] # "identity" BY <2>2 DEF Grown
    <3>2. i = 1 => q = << >> BY <2>2
    <3> QED BY <3>1, <3>2 DEF First
  <2> QED BY <2>1, <2>2
<1>2. x /\ done = << >> => p # << >> BY DEF First, Grown
<1> QED BY <1>1, <1>2 DEF First

\* The exceptions depend on the link only.
LEMMA LateSame ==
  ASSUME NEW x, NEW y, SameLink(x, y), NEW c, NEW e
  PROVE  Late(y, c, e) = Late(x, c, e)
  BY DEF Late, SameLink

\* What is written and read of a pipe whose queues grew.
LEMMA GrownWritten ==
  ASSUME NEW r \in States, NEW r2 \in States, NEW c \in Connecting, NEW e \in Ends,
         NEW done \in Seq(Items), Written(r.conn[c], done, c, e),
         SameLink(r.conn[c], r2.conn[c]), Grown(r.conn[c].ends[e].in, r2.conn[c].ends[e].in),
         r2.conn[c].ends[e].in = r.conn[c].ends[e].in \/ Writer(r.conn[c], Other(e))
  PROVE  Written(r2.conn[c], done, c, e)
<1> DEFINE q == r.conn[c].ends[e].in
           p == r2.conn[c].ends[e].in
           x == Expects(r.conn[c], c, e)
           l == Late(r.conn[c], c, e)
<1>1. q \in Seq(Items) /\ p \in Seq(Items) BY QueueType
<1>2. Expects(r2.conn[c], c, e) = x BY DEF Expects, SameLink
<1>3. Late(r2.conn[c], c, e) = l BY LateSame
<1>4. ~l => First(q, done, x) BY DEF Written
<1>5. ~r.conn[c].made \/ (e = "c" /\ r.conn[c].binder = Null) => p = << >>
  BY DEF Written, Writer, Other
<1>6. q # << >> => p # << >> BY <1>1 DEF Grown
<1>7. ~l => First(p, done, x)
  <2> HIDE DEF q, p, x, l
  <2>1. Grown(q, p) BY DEF q, p
  <2> QED BY <1>1, <1>4, <2>1, GrownFirst
<1> HIDE DEF x, l
<1> QED BY <1>2, <1>3, <1>5, <1>6, <1>7 DEF Written, SameLink

\* A mild step keeps the invariant.
LEMMA MildFine ==
  ASSUME NEW r \in States, NEW rd \in Reads, Fine(r, rd), NEW r2, Mild(r, r2)
  PROVE  Fine(r2, rd)
<1>1. ASSUME NEW c \in Connecting PROVE OfConn(r2, rd, c)
  <2>1. OfConn(r, rd, c) /\ SameLink(r.conn[c], r2.conn[c]) BY DEF Fine, Mild
  <2>2. Held(r2, c)
    <3>1. \A s \in All : r2.sock[s].pipes \subseteq r.sock[s].pipes BY DEF Mild, Less
    <3> QED BY <2>1, <3>1 DEF Held, OfConn, SameLink
  <2>3. Agreed(r2.conn[c], c) BY <2>1 DEF OfConn, Agreed, SameLink
  <2>4. ASSUME NEW e \in Ends PROVE Written(r2.conn[c], rd[c][e], c, e)
    <3>1. /\ Grown(r.conn[c].ends[e].in, r2.conn[c].ends[e].in) /\ r2 \in States
          /\ r2.conn[c].ends[e].in = r.conn[c].ends[e].in \/ Writer(r.conn[c], Other(e))
          /\ Written(r.conn[c], rd[c][e], c, e)
      BY <2>1 DEF Mild, OfConn
    <3>2. rd[c][e] \in Seq(Items) BY DEF Reads
    <3> QED BY <2>1, <3>1, <3>2, GrownWritten
  <2> QED BY <2>2, <2>3, <2>4 DEF OfConn
<1>2. ASSUME NEW s \in All PROVE OfSock(r2, s)
  <2>1. OfSock(r, s) /\ Less(r.sock[s], r2.sock[s]) BY DEF Fine, Mild
  <2>2. \A c \in Connecting : SameLink(r.conn[c], r2.conn[c]) BY DEF Mild
  <2>3. ASSUME NEW i \in DOMAIN r2.mail[s] PROVE Proper(r2, s, r2.mail[s][i])
    <3>1. Known(r, s, r2.mail[s][i]) BY DEF Mild
    <3>2. \A j \in DOMAIN r.mail[s] : Proper(r, s, r.mail[s][j]) BY <2>1 DEF OfSock
    <3>3. ASSUME NEW m, Proper(r, s, m) PROVE Proper(r2, s, m)
      BY <2>2, <3>3 DEF Proper, SameLink
    <3> QED BY <3>1, <3>2, <3>3 DEF Known, Proper
  <2>4. r2.sock[s].inprocs # {} => s \in Connecting /\ r2.conn[s].made
    BY <2>1, <2>2 DEF OfSock, Less, SameLink
  <2>5. r2.sock[s].life = "open" => ~r2.sock[s].terminating BY <2>1 DEF OfSock, Less
  <2> QED BY <2>3, <2>4, <2>5 DEF OfSock
<1> QED BY <1>1, <1>2 DEF Fine

\* One pipe changes mildly.
LEMMA SoftConn ==
  ASSUME NEW r \in States, NEW c \in Connecting, NEW x \in Pipe, SameLink(r.conn[c], x),
         \A e \in Ends : /\ Grown(r.conn[c].ends[e].in, x.ends[e].in)
                         /\ x.ends[e].in = r.conn[c].ends[e].in \/ Writer(r.conn[c], Other(e)),
         NEW r2, ConnEdit(r, r2, c, x)
  PROVE  Soft(r, r2)
<1>1. /\ r2 \in States /\ r2.mail = r.mail /\ r2.sock = r.sock
      /\ r2.conn[c] = x /\ \A d \in Connecting : d # c => r2.conn[d] = r.conn[d]
  BY DEF ConnEdit
<1>2. \A d \in Connecting, e \in Ends : Grown(r.conn[d].ends[e].in, r.conn[d].ends[e].in)
  BY QueueType, GrownFacts
<1>3. \A d \in Connecting, e \in Ends :
         /\ Grown(r.conn[d].ends[e].in, r2.conn[d].ends[e].in)
         /\ r2.conn[d].ends[e].in = r.conn[d].ends[e].in \/ Writer(r.conn[d], Other(e))
  BY <1>1, <1>2
<1>4. \A d \in Connecting : SameLink(r.conn[d], r2.conn[d]) BY <1>1 DEF SameLink
<1> QED BY <1>1, <1>3, <1>4 DEF Soft, Mild, Kept, Less, Known

\* One socket changes mildly.
LEMMA SoftSock ==
  ASSUME NEW r \in States, NEW s \in All, NEW y \in Socket, Less(r.sock[s], y),
         r.sock[s].life = "open" /\ ~r.sock[s].terminating => y.life = "open" /\ ~y.terminating,
         NEW r2, SockEdit(r, r2, s, y)
  PROVE  Soft(r, r2)
<1>1. /\ r2 \in States /\ r2.mail = r.mail /\ r2.conn = r.conn
      /\ r2.sock[s] = y /\ \A t \in All : t # s => r2.sock[t] = r.sock[t]
  BY DEF SockEdit
<1>2. \A d \in Connecting, e \in Ends : Grown(r.conn[d].ends[e].in, r.conn[d].ends[e].in)
  BY QueueType, GrownFacts
<1>3. \A t \in All : Less(r.sock[t], r.sock[t]) BY DEF Less
<1>4. \A t \in All : Less(r.sock[t], r2.sock[t]) BY <1>1, <1>3
<1> QED BY <1>1, <1>2, <1>4 DEF Soft, Mild, Kept, SameLink, Known

\* An assertion, a count of a command, and a command about an end are mild.
LEMMA SoftExpect ==
  ASSUME NEW r \in States, NEW ok, NEW what \in Crashes
  PROVE  Soft(r, Expect(r, ok, what))
<1>1. Soft(r, r) BY SoftSame
<1> QED BY <1>1, ExpectFacts DEF Soft, Mild, Kept

Plain == [type : {"pipe_term", "pipe_term_ack", "inproc_connected"}, conn : Connecting, end : Ends]
\* Such commands are commands.
LEMMA PlainFacts ==
  /\ Plain \subseteq Commands
  /\ \A r, s : \A m \in Plain : Known(r, s, m)
  /\ \A c \in Connecting, e \in Ends :
       \A t \in {"pipe_term", "pipe_term_ack", "inproc_connected"} : Cmd(t, c, e) \in Plain
  BY DEF Plain, Commands, Types, Known, Cmd

\* There are finitely many of them.
LEMMA PlainFinite == \A X \in SUBSET Plain : IsFiniteSet(X)
<1> DEFINE T == {"pipe_term", "pipe_term_ack", "inproc_connected"}
           S == (T \X Connecting) \X Ends
           f == [t \in S |-> [type |-> t[1][1], conn |-> t[1][2], end |-> t[2]]]
<1>1. IsFiniteSet(T) /\ IsFiniteSet(Ends)
  <2>1. IsFiniteSet({"c"}) /\ IsFiniteSet({"pipe_term"}) BY FS_Singleton
  <2>2. IsFiniteSet({"pipe_term"} \cup {"pipe_term_ack"}) BY <2>1, FS_AddElement
  <2>3. IsFiniteSet(({"pipe_term"} \cup {"pipe_term_ack"}) \cup {"inproc_connected"})
    BY <2>2, FS_AddElement
  <2>4. IsFiniteSet({"c"} \cup {"b"}) BY <2>1, FS_AddElement
  <2>5. /\ T = ({"pipe_term"} \cup {"pipe_term_ack"}) \cup {"inproc_connected"}
        /\ Ends = {"c"} \cup {"b"}
    BY DEF Ends
  <2> QED BY <2>3, <2>4, <2>5
<1>2. IsFiniteSet(Connecting) BY Names
<1>3. IsFiniteSet(T \X Connecting)
  <2> HIDE DEF T
  <2> QED BY <1>1, <1>2, FS_Product
<1>4. IsFiniteSet(S)
  <2> HIDE DEF T
  <2> QED BY <1>1, <1>3, FS_Product
<1>5. f \in Surjection(S, Plain)
  <2>1. f \in [S -> Plain] BY DEF Plain
  <2>2. ASSUME NEW m \in Plain PROVE \E t \in S : f[t] = m
    <3>1. <<<<m.type, m.conn>>, m.end>> \in S BY DEF Plain
    <3>2. f[<<<<m.type, m.conn>>, m.end>>] = m BY <3>1 DEF Plain
    <3> QED BY <3>1, <3>2
  <2> HIDE DEF f, S
  <2> QED BY <2>1, <2>2 DEF Surjection
<1> HIDE DEF f, S
<1>6. IsFiniteSet(Plain) BY <1>4, <1>5, FS_Surjection
<1> QED BY <1>6, FS_Subset

\* object_t::send_command, of a command about an end.
LEMMA SoftSend ==
  ASSUME NEW r \in States, NEW s \in All, NEW m \in Plain
  PROVE  Soft(r, Send(r, s, m))
<1> DEFINE z == Send(r, s, m)
<1>1. /\ z \in States /\ z.sock = r.sock /\ z.conn = r.conn
      /\ z.mail[s] = Append(r.mail[s], m) /\ \A t \in All : t # s => z.mail[t] = r.mail[t]
  BY SendFacts, PlainFacts
<1>2. Soft(r, r) BY SoftSame
<1>3. r.mail[s] \in Seq(Commands) /\ m \in Commands BY PlainFacts DEF States
<1> HIDE DEF z
<1>4. ASSUME NEW t \in All, NEW i \in DOMAIN z.mail[t] PROVE Known(r, t, z.mail[t][i])
  <2>1. CASE t # s BY <1>1, <2>1 DEF Known
  <2>2. CASE t = s
    <3>1. z.mail[t][i] = m \/ (i \in DOMAIN r.mail[t] /\ z.mail[t][i] = r.mail[t][i])
      BY <1>1, <1>3, <2>2
    <3>2. Known(r, t, m) BY PlainFacts
    <3>3. i \in DOMAIN r.mail[t] => Known(r, t, r.mail[t][i]) BY DEF Known
    <3> QED BY <3>1, <3>2, <3>3
  <2> QED BY <2>1, <2>2
<1>5. Mild(r, z) BY <1>1, <1>2, <1>4 DEF Soft, Mild
<1>6. Kept(r, z) BY <1>1 DEF Kept
<1> QED BY <1>5, <1>6 DEF Soft, z

\* own_t::inc_seqnum.
LEMMA SoftInc ==
  ASSUME NEW r \in States, NEW s \in All
  PROVE  Soft(r, inc_seqnum(r, s))
<1> DEFINE z == inc_seqnum(r, s)
<1>1. /\ z \in States /\ z.mail = r.mail /\ z.conn = r.conn
      /\ \A t \in All : Counted(r.sock[t], z.sock[t])
  BY IncFacts
<1> HIDE DEF z
<1>2. Soft(r, r) BY SoftSame
<1>3. \A t \in All : Less(r.sock[t], z.sock[t]) BY <1>1 DEF Counted, Less
<1>4. Mild(r, z) BY <1>1, <1>2, <1>3 DEF Soft, Mild, Known
<1>5. Kept(r, z) BY <1>1 DEF Kept, Counted
<1> QED BY <1>4, <1>5 DEF Soft, z

\* own_t::check_term_acks.
LEMMA SoftCheck ==
  ASSUME NEW r \in States, NEW s \in All
  PROVE  Soft(r, CheckTermAcks(r, s)) /\ CheckTermAcks(r, s).conn = r.conn
<1> DEFINE y == [r.sock[s] EXCEPT !.life = "destroyed"]
           z == [r EXCEPT !.sock[s] = y]
<1>1. r.sock[s] \in Socket BY DEF States
<1>2. y \in Socket /\ Less(r.sock[s], y) BY <1>1 DEF Socket, Lives, Less
<1>3. CheckTermAcks(r, s) = r \/ (r.sock[s].terminating /\ CheckTermAcks(r, s) = z)
  BY DEF CheckTermAcks
<1> HIDE DEF y
<1>4. SockEdit(r, z, s, y) BY <1>2, SockStep
<1>5. r.sock[s].terminating => Soft(r, z)
  <2> HIDE DEF z
  <2> QED BY <1>2, <1>4, SoftSock
<1>6. z.conn = r.conn BY <1>4 DEF SockEdit
<1> HIDE DEF z
<1> QED BY <1>3, <1>5, <1>6, SoftSame

\* own_t::process_seqnum.
LEMMA SoftSeqnum ==
  ASSUME NEW r \in States, NEW s \in All
  PROVE  Soft(r, process_seqnum(r, s)) /\ process_seqnum(r, s).conn = r.conn
<1> DEFINE y == [r.sock[s] EXCEPT !.processed_seqnum = @ + 1]
           z == [r EXCEPT !.sock[s] = y]
<1>1. r.sock[s] \in Socket BY DEF States
<1>2. y \in Socket /\ Counted(r.sock[s], y) BY <1>1 DEF Socket, Counted
<1>3. [r EXCEPT !.sock[s].processed_seqnum = @ + 1] = z OBVIOUS
<1> HIDE DEF y
<1>4. SockEdit(r, z, s, y) BY <1>2, SockStep
<1> HIDE DEF z
<1>5. Soft(r, z) BY <1>2, <1>4, SoftSock DEF Counted, Less
<1>6. z \in States /\ z.conn = r.conn BY <1>4 DEF SockEdit
<1>7. process_seqnum(r, s) = CheckTermAcks(z, s) BY <1>3 DEF process_seqnum
<1> QED BY <1>5, <1>6, <1>7, SoftCheck, SoftTrans

\* One pipe changes at an end that is not written to.
LEMMA SoftState ==
  ASSUME NEW r \in States, NEW c \in Connecting, NEW e \in Ends, NEW t \in Stages, NEW r2,
         r2 = [r EXCEPT !.conn[c].ends[e].state = t]
  PROVE  /\ Soft(r, r2) /\ r2.sock = r.sock
         /\ \A d \in Connecting : \A f \in Ends : r2.conn[d].ends[f].in = r.conn[d].ends[f].in
<1> DEFINE w == [r.conn[c].ends[e] EXCEPT !.state = t]
           x == [r.conn[c] EXCEPT !.ends[e] = w]
<1>1. r.conn[c] \in Pipe /\ r.conn[c].ends[e] \in EndState BY QueueType
<1>2. w \in EndState /\ w.in = r.conn[c].ends[e].in BY <1>1 DEF EndState
<1> HIDE DEF w
<1>3. /\ x \in Pipe /\ SameLink(r.conn[c], x)
      /\ \A f \in Ends : x.ends[f].in = r.conn[c].ends[f].in
  BY <1>1, <1>2 DEF Pipe, SameLink
<1>4. r2 = [r EXCEPT !.conn[c] = x] BY DEF x, w
<1> HIDE DEF x
<1>5. ConnEdit(r, r2, c, x) BY <1>3, <1>4, ConnStep
<1>6. \A f \in Ends : Grown(r.conn[c].ends[f].in, x.ends[f].in) BY <1>3, QueueType, GrownFacts
<1>7. Soft(r, r2) BY <1>3, <1>5, <1>6, SoftConn
<1> QED BY <1>3, <1>5, <1>7 DEF ConnEdit

\* pipe_t::write of a message.
LEMMA SoftWrite ==
  ASSUME NEW r \in States, NEW c \in Connecting, NEW e \in Ends, NEW m \in Items,
         m # "identity", Writer(r.conn[c], e)
  PROVE  /\ Soft(r, Write(r, c, e, m)) /\ Write(r, c, e, m).sock = r.sock
         /\ \A d \in Connecting : d # c => Write(r, c, e, m).conn[d] = r.conn[d]
<1> DEFINE o == Other(e)
           w == [r.conn[c].ends[o] EXCEPT !.in = Append(@, m)]
           x == [r.conn[c] EXCEPT !.ends[o] = w]
<1>1. o \in Ends /\ Other(o) = e BY Names
<1>2. r.conn[c] \in Pipe /\ r.conn[c].ends[o] \in EndState BY <1>1, QueueType
<1>3. w \in EndState /\ w.in = Append(r.conn[c].ends[o].in, m)
  <2> DEFINE q == Append(r.conn[c].ends[o].in, m)
  <2>1. q \in Seq(Items) BY <1>1, QueueType
  <2>2. w = [r.conn[c].ends[o] EXCEPT !.in = q] OBVIOUS
  <2> HIDE DEF q, w, o
  <2>3. w \in EndState /\ w.in = q BY <1>2, <2>1, <2>2 DEF EndState
  <2> QED BY <2>3 DEF q
<1>4. Write(r, c, e, m) = [r EXCEPT !.conn[c] = x] BY DEF Write
<1> HIDE DEF w
<1>5. /\ x \in Pipe /\ SameLink(r.conn[c], x) /\ x.ends[o] = w
      /\ \A f \in Ends : f # o => x.ends[f].in = r.conn[c].ends[f].in
  BY <1>1, <1>2, <1>3 DEF Pipe, SameLink
<1> HIDE DEF x, o
<1>6. ConnEdit(r, Write(r, c, e, m), c, x) BY <1>4, <1>5, ConnStep
<1>7. \A f \in Ends : r.conn[c].ends[f].in \in Seq(Items) BY QueueType
<1>8. ASSUME NEW f \in Ends
      PROVE  /\ Grown(r.conn[c].ends[f].in, x.ends[f].in)
             /\ x.ends[f].in = r.conn[c].ends[f].in \/ Writer(r.conn[c], Other(f))
  <2>1. CASE f = o
    <3>1. x.ends[f].in = Append(r.conn[c].ends[f].in, m) BY <1>3, <1>5, <2>1
    <3>2. Grown(r.conn[c].ends[f].in, Append(r.conn[c].ends[f].in, m)) BY <1>7, GrownFacts
    <3>3. Other(f) = e BY <1>1, <2>1
    <3> QED BY <3>1, <3>2, <3>3
  <2>2. CASE f # o BY <1>5, <1>7, <2>2, GrownFacts
  <2> QED BY <2>1, <2>2
<1>9. Soft(r, Write(r, c, e, m)) BY <1>5, <1>6, <1>8, SoftConn
<1> QED BY <1>6, <1>9 DEF ConnEdit

\* The probe of xattach_pipe.
LEMMA SoftProbe ==
  ASSUME NEW r \in States, NEW s \in All, NEW c \in Connecting, NEW e \in Ends,
         Writer(r.conn[c], e)
  PROVE  /\ Soft(r, Probe(r, s, c, e)) /\ Probe(r, s, c, e).sock = r.sock
         /\ \A d \in Connecting : d # c => Probe(r, s, c, e).conn[d] = r.conn[d]
         /\ ~options[s].probe_router => Probe(r, s, c, e) = r
<1> DEFINE w == Write(r, c, e, "probe")
<1>1. Probe(r, s, c, e) = r \/ (options[s].probe_router /\ Probe(r, s, c, e) = w) BY DEF Probe
<1>2. "probe" \in Items /\ "probe" # "identity" BY DEF Items
<1>3. Soft(r, w) /\ w.sock = r.sock /\ \A d \in Connecting : d # c => w.conn[d] = r.conn[d]
  BY <1>2, SoftWrite
<1> HIDE DEF w
<1> QED BY <1>1, <1>3, SoftSame

\* A command to the thread of an end.
LEMMA SoftSendPipe ==
  ASSUME NEW r \in States, NEW c \in Connecting, NEW e \in Ends,
         NEW t \in {"pipe_term", "pipe_term_ack", "inproc_connected"}
  PROVE  Soft(r, SendPipe(r, t, c, e)) /\ SendPipe(r, t, c, e).sock = r.sock
<1>1. r.conn[c].ends[e].tid \in All BY QueueType
<1>2. Cmd(t, c, e) \in Plain /\ Plain \subseteq Commands BY PlainFacts
<1> QED BY <1>1, <1>2, SoftSend, SendFacts DEF SendPipe

\* pipe_t::process_pipe_term.
LEMMA SoftTerm ==
  ASSUME NEW r \in States, NEW c \in Connecting, NEW e \in Ends
  PROVE  Soft(r, process_pipe_term(r, c, e))
<1> DEFINE z(t) == [r EXCEPT !.conn[c].ends[e].state = t]
<1>1. ASSUME NEW t \in Stages
      PROVE  Soft(r, z(t)) /\ Soft(r, SendPipe(z(t), "pipe_term_ack", c, Other(e)))
  <2>1. Soft(r, z(t)) BY SoftState
  <2>2. z(t) \in States BY <2>1 DEF Soft, Mild
  <2> HIDE DEF z
  <2>3. Other(e) \in Ends BY Names
  <2>4. Soft(z(t), SendPipe(z(t), "pipe_term_ack", c, Other(e))) BY <2>2, <2>3, SoftSendPipe
  <2> QED BY <2>1, <2>4, SoftTrans
<1>2. \/ process_pipe_term(r, c, e) = z("waiting_for_delimiter")
      \/ process_pipe_term(r, c, e) = SendPipe(z("term_req_sent2"), "pipe_term_ack", c, Other(e))
      \/ process_pipe_term(r, c, e) = SendPipe(z("term_ack_sent"), "pipe_term_ack", c, Other(e))
  BY DEF process_pipe_term
<1> HIDE DEF z
<1> QED BY <1>1, <1>2 DEF Stages

\* socket_base_t::pipe_terminated.
LEMMA SoftTerminated ==
  ASSUME NEW r \in States, NEW s \in All, NEW c \in Connecting, NEW e \in Ends
  PROVE  Soft(r, pipe_terminated(r, s, c, e))
<1> DEFINE y == [r.sock[s] EXCEPT !.pipes = @ \ {<<c, e>>}, !.inprocs = @ \ {<<c, e>>}]
           y2 == [y EXCEPT !.term_acks = @ - 1]
           z == [r EXCEPT !.sock[s] = y]
           z2 == [r EXCEPT !.sock[s] = y2]
<1>1. r.sock[s] \in Socket BY DEF States
<1>2. y \in Socket /\ Less(r.sock[s], y) /\ y.life = r.sock[s].life /\ y.terminating = r.sock[s].terminating
  BY <1>1 DEF Socket, Less
<1>3. y2 \in Socket /\ Less(r.sock[s], y2) /\ y2.life = r.sock[s].life /\ y2.terminating = r.sock[s].terminating
  <2> HIDE DEF y
  <2>1. /\ y2 \in Socket /\ y2.pipes = y.pipes /\ y2.inprocs = y.inprocs
        /\ y2.life = y.life /\ y2.terminating = y.terminating
    BY <1>2 DEF Socket
  <2> QED BY <1>2, <2>1 DEF Less
<1>4. SockEdit(r, z, s, y)
  <2> HIDE DEF y
  <2> QED BY <1>2, SockStep
<1>5. SockEdit(r, z2, s, y2)
  <2> HIDE DEF y2
  <2> QED BY <1>3, SockStep
<1>6. pipe_terminated(r, s, c, e) = IF r.sock[s].terminating THEN CheckTermAcks(z2, s) ELSE z
  <2> DEFINE u == [r EXCEPT !.sock[s].pipes = @ \ {<<c, e>>}, !.sock[s].inprocs = @ \ {<<c, e>>}]
  <2>1. u = z BY <1>1 DEF States, Socket
  <2>2. [z EXCEPT !.sock[s].term_acks = @ - 1] = z2 BY <1>1 DEF States, Socket
  <2>3. pipe_terminated(r, s, c, e) = IF r.sock[s].terminating
                                        THEN CheckTermAcks([u EXCEPT !.sock[s].term_acks = @ - 1], s)
                                        ELSE u
    BY DEF pipe_terminated
  <2> HIDE DEF u, z, z2
  <2> QED BY <2>1, <2>2, <2>3
<1> HIDE DEF y, y2, z, z2
<1>7. Soft(r, z) /\ Soft(r, z2) BY <1>2, <1>3, <1>4, <1>5, SoftSock
<1>8. Soft(z2, CheckTermAcks(z2, s)) BY <1>5, SoftCheck DEF SockEdit
<1> QED BY <1>6, <1>7, <1>8, SoftTrans

\* pipe_t::process_pipe_term_ack.
LEMMA SoftAck ==
  ASSUME NEW r \in States, NEW s \in All, NEW c \in Connecting, NEW e \in Ends
  PROVE  Soft(r, process_pipe_term_ack(r, c, e, s))
<1> DEFINE x == IF r.conn[c].ends[e].state = "term_req_sent1"
                  THEN SendPipe(r, "pipe_term_ack", c, Other(e)) ELSE r
           p == [x.conn[c] EXCEPT !.deleted = @ \cup {e}]
           y == [x EXCEPT !.conn[c] = p]
           z == Expect(y, <<c, e>> \in r.sock[s].pipes, "sink")
<1>1. Soft(r, x)
  <2>1. Other(e) \in Ends BY Names
  <2>2. Soft(r, r) /\ Soft(r, SendPipe(r, "pipe_term_ack", c, Other(e)))
    BY <2>1, SoftSame, SoftSendPipe
  <2> QED BY <2>2
<1>2. x \in States BY <1>1 DEF Soft, Mild
<1>3. process_pipe_term_ack(r, c, e, s) = pipe_terminated(z, s, c, e) BY DEF process_pipe_term_ack
<1> HIDE DEF x
<1>4. x.conn[c] \in Pipe BY <1>2, QueueType
<1>5. p \in Pipe /\ SameLink(x.conn[c], p) /\ p.ends = x.conn[c].ends BY <1>4 DEF Pipe, SameLink
<1> HIDE DEF p
<1>6. ConnEdit(x, y, c, p) BY <1>2, <1>5, ConnStep
<1>7. \A f \in Ends : Grown(x.conn[c].ends[f].in, x.conn[c].ends[f].in)
  BY <1>2, QueueType, GrownFacts
<1> HIDE DEF y
<1>8. Soft(x, y) BY <1>2, <1>5, <1>6, <1>7, SoftConn
<1>9. y \in States BY <1>8 DEF Soft, Mild
<1>10. Soft(y, z) /\ z \in States BY <1>9, SoftExpect, ExpectFacts DEF Crashes
<1> HIDE DEF z
<1>11. Soft(z, pipe_terminated(z, s, c, e)) BY <1>10, SoftTerminated
<1>12. Soft(x, z) BY <1>2, <1>8, <1>10, SoftTrans
<1>13. Soft(r, z) BY <1>1, <1>12, SoftTrans
<1> QED BY <1>3, <1>11, <1>13, SoftTrans

\* A set as a sequence has its elements only.
LEMMA SetSeq ==
  ASSUME NEW X, IsFiniteSet(X)
  PROVE  SetToSeq(X) \in Seq(X)
<1> DEFINE n == Cardinality(X)
           q == SetToSeq(X)
<1>1. n \in Nat /\ ExistsBijection(1..n, X) BY FS_CardinalityType
<1>2. PICK g : g \in Bijection(1..n, X) BY <1>1 DEF ExistsBijection
<1>3. g \in [1..n -> X] /\ IsInjective(g) BY <1>2 DEF Bijection, Injection
<1>4. q \in [1..n -> X]
  <2> HIDE DEF n
  <2>1. \E f \in [1..n -> X] : IsInjective(f) BY <1>3
  <2> QED BY <2>1 DEF SetToSeq, n
<1> QED BY <1>1, <1>4

\* pipe_t::terminate of ends that may be written through.
LEMMA SoftTerminate ==
  ASSUME NEW r \in States, NEW P \in SUBSET (Connecting \X Ends), NEW delay \in BOOLEAN,
         \A p \in P : Writer(r.conn[p[1]], p[2])
  PROVE  Soft(r, TerminatePipes(r, P, delay))
<1> DEFINE Stage(p) == r.conn[p[1]].ends[p[2]].state
           Peer(p) == r.conn[p[1]].ends[Other(p[2])].tid
           Asking == {p \in P : Stage(p) \in {"active", "delimiter_received"}}
           Waiting == {p \in P : Stage(p) = "waiting_for_delimiter"}
           Answering == IF delay THEN {} ELSE Waiting
           Writing == IF delay THEN Asking \cup Waiting ELSE Asking
           Told(s) == {Cmd("pipe_term", p[1], Other(p[2])) : p \in {q \in Asking : Peer(q) = s}}
                      \cup {Cmd("pipe_term_ack", p[1], Other(p[2])) :
                              p \in {q \in Answering : Peer(q) = s}}
           After(x, c, e) ==
            [x EXCEPT !.state = IF <<c, e>> \in Asking THEN "term_req_sent1"
                                ELSE IF <<c, e>> \in Answering THEN "term_ack_sent" ELSE @,
                      !.delay = IF <<c, e>> \in P THEN delay ELSE @,
                      !.in = IF <<c, Other(e)>> \in Writing THEN Append(@, "delimiter") ELSE @]
           f == [c \in Connecting |-> [r.conn[c] EXCEPT !.ends =
                                        [e \in Ends |-> After(r.conn[c].ends[e], c, e)]]]
           g == [s \in All |-> r.mail[s] \o SetToSeq(Told(s))]
           y == [[r EXCEPT !.conn = f] EXCEPT !.mail = g]
           ok == \A p \in Asking \cup Answering : r.sock[Peer(p)].life # "deleted"
<1>1. TerminatePipes(r, P, delay) = Expect(y, ok, "deleted") BY DEF TerminatePipes
<1> HIDE DEF ok
<1>2. Asking \subseteq P /\ Answering \subseteq P /\ Writing \subseteq P OBVIOUS
<1>3. ASSUME NEW s \in All PROVE SetToSeq(Told(s)) \in Seq(Plain)
  <2>1. \A p \in P : p[1] \in Connecting /\ Other(p[2]) \in Ends BY Names
  <2>2. Told(s) \subseteq Plain BY <1>2, <2>1, PlainFacts
  <2> HIDE DEF Told
  <2>3. SetToSeq(Told(s)) \in Seq(Told(s)) BY <2>2, PlainFinite, SetSeq
  <2> QED BY <2>2, <2>3
<1> HIDE DEF Told
<1>5. /\ g \in [All -> Seq(Commands)]
      /\ \A s \in All : \A i \in DOMAIN g[s] : Known(r, s, g[s][i])
  <2>1. ASSUME NEW s \in All
        PROVE  g[s] \in Seq(Commands) /\ \A i \in DOMAIN g[s] : Known(r, s, g[s][i])
    <3>1. r.mail[s] \in Seq(Commands) BY DEF States
    <3>2. SetToSeq(Told(s)) \in Seq(Plain) BY <1>3
    <3> DEFINE q == SetToSeq(Told(s))
    <3>3. g[s] = r.mail[s] \o q OBVIOUS
    <3> HIDE DEF q, g
    <3>4. q \in Seq(Commands) /\ \A i \in DOMAIN q : q[i] \in Plain BY <3>2, PlainFacts DEF q
    <3>5. g[s] \in Seq(Commands) BY <3>1, <3>3, <3>4
    <3>6. ASSUME NEW i \in DOMAIN g[s] PROVE Known(r, s, g[s][i])
      <4>1. \/ i \in DOMAIN r.mail[s] /\ g[s][i] = r.mail[s][i]
            \/ i - Len(r.mail[s]) \in DOMAIN q /\ g[s][i] = q[i - Len(r.mail[s])]
        BY <3>1, <3>3, <3>4
      <4>2. g[s][i] \in Plain => Known(r, s, g[s][i]) BY PlainFacts
      <4>3. i \in DOMAIN r.mail[s] => Known(r, s, r.mail[s][i]) BY DEF Known
      <4> QED BY <3>4, <4>1, <4>2, <4>3
    <3> QED BY <3>5, <3>6
  <2>2. g \in [All -> Seq(Commands)]
    <3>1. DOMAIN g = All /\ g = [s \in All |-> g[s]] OBVIOUS
    <3> HIDE DEF g
    <3> QED BY <2>1, <3>1
  <2> HIDE DEF g
  <2> QED BY <2>1, <2>2
<1>6. ASSUME NEW c \in Connecting, NEW e \in Ends
      PROVE  /\ After(r.conn[c].ends[e], c, e) \in EndState
             /\ After(r.conn[c].ends[e], c, e).in \in {r.conn[c].ends[e].in, Append(r.conn[c].ends[e].in, "delimiter")}
             /\ <<c, Other(e)>> \notin P => After(r.conn[c].ends[e], c, e).in = r.conn[c].ends[e].in
  <2> DEFINE x == r.conn[c].ends[e]
  <2>1. x \in EndState /\ x.in \in Seq(Items) BY QueueType
  <2>2. Append(x.in, "delimiter") \in Seq(Items) BY <2>1 DEF Items
  <2>3. <<c, Other(e)>> \notin P => <<c, Other(e)>> \notin Writing BY <1>2
  <2> HIDE DEF x, Asking, Answering, Writing
  <2> SUFFICES /\ After(x, c, e) \in EndState
               /\ After(x, c, e).in \in {x.in, Append(x.in, "delimiter")}
               /\ <<c, Other(e)>> \notin P => After(x, c, e).in = x.in
    BY DEF x
  <2>4. {"term_req_sent1", "term_ack_sent"} \subseteq Stages BY DEF Stages
  <2> QED BY <2>1, <2>2, <2>3, <2>4 DEF EndState
<1> HIDE DEF After
<1>7. ASSUME NEW c \in Connecting
      PROVE  f[c] \in Pipe /\ SameLink(r.conn[c], f[c]) /\ \A e \in Ends : f[c].ends[e] = After(r.conn[c].ends[e], c, e)
  <2> DEFINE h == [e \in Ends |-> After(r.conn[c].ends[e], c, e)]
  <2>1. h \in [Ends -> EndState] BY <1>6
  <2>2. \A e \in Ends : h[e] = After(r.conn[c].ends[e], c, e) OBVIOUS
  <2>3. f[c] = [r.conn[c] EXCEPT !.ends = h] /\ r.conn[c] \in Pipe BY DEF States
  <2> HIDE DEF h, f
  <2> QED BY <2>1, <2>2, <2>3 DEF Pipe, SameLink
<1>8. f \in [Connecting -> Pipe]
  <2>1. DOMAIN f = Connecting /\ f = [c \in Connecting |-> f[c]] OBVIOUS
  <2> HIDE DEF f
  <2> QED BY <1>7, <2>1
<1>9. y \in States /\ y.mail = g /\ y.conn = f /\ y.sock = r.sock
  <2> HIDE DEF f, g
  <2> DEFINE z == [r EXCEPT !.conn = f]
  <2>1. z \in States /\ z.conn = f /\ z.sock = r.sock BY <1>8, WithConn
  <2> HIDE DEF z
  <2>2. LET w == [z EXCEPT !.mail = g] IN w \in States /\ w.mail = g /\ w.conn = z.conn /\ w.sock = z.sock
    BY <1>5, <2>1, WithMail
  <2> QED BY <2>1, <2>2 DEF z
<1> HIDE DEF f, g, y
<1>10. ASSUME NEW c \in Connecting, NEW e \in Ends
       PROVE  /\ Grown(r.conn[c].ends[e].in, f[c].ends[e].in)
              /\ f[c].ends[e].in = r.conn[c].ends[e].in \/ Writer(r.conn[c], Other(e))
  <2>1. f[c].ends[e] = After(r.conn[c].ends[e], c, e) BY <1>7
  <2>2. r.conn[c].ends[e].in \in Seq(Items) /\ "delimiter" \in Items BY QueueType DEF Items
  <2>3. Grown(r.conn[c].ends[e].in, r.conn[c].ends[e].in)
        /\ Grown(r.conn[c].ends[e].in, Append(r.conn[c].ends[e].in, "delimiter"))
    BY <2>2, GrownFacts
  <2>4. <<c, Other(e)>> \in P => Writer(r.conn[c], Other(e)) OBVIOUS
  <2> QED BY <1>6, <2>1, <2>3, <2>4
<1>11. Soft(r, y)
  <2>1. \A s \in All : Less(r.sock[s], y.sock[s]) BY <1>9 DEF Less
  <2>2. \A c \in Connecting : SameLink(r.conn[c], y.conn[c]) BY <1>7, <1>9
  <2>3. Mild(r, y) BY <1>5, <1>9, <1>10, <2>1, <2>2 DEF Mild
  <2> QED BY <1>9, <2>3 DEF Soft, Kept
<1>12. Soft(y, Expect(y, ok, "deleted")) BY <1>9, SoftExpect DEF Crashes
<1> QED BY <1>1, <1>11, <1>12, SoftTrans

\* object_t::process_command, of any command but bind.
LEMMA SoftCommand ==
  ASSUME NEW r \in States, NEW s \in All, NEW m \in Commands, m.type # "bind",
         m.type # "stop" => m.conn \in Connecting /\ m.end \in Ends
  PROVE  Soft(r, process_command(r, s, m))
<1>1. CASE m.type = "inproc_connected" BY <1>1, SoftSeqnum DEF process_command
<1>2. CASE m.type = "stop"
  <2> DEFINE y == [r.sock[s] EXCEPT !.ctx_terminated = TRUE]
             z == [r EXCEPT !.sock[s] = y]
  <2>1. r.sock[s] \in Socket BY DEF States
  <2>2. y \in Socket /\ Counted(r.sock[s], y) BY <2>1 DEF Socket, Counted
  <2>3. process_command(r, s, m) = z BY <1>2 DEF process_command
  <2> HIDE DEF y
  <2>4. SockEdit(r, z, s, y) BY <2>2, SockStep
  <2> HIDE DEF z
  <2> QED BY <2>2, <2>3, <2>4, SoftSock DEF Counted, Less
<1>3. CASE m.type \in {"pipe_term", "pipe_term_ack"}
  <2> DEFINE x == Expect(r, m.end \notin r.conn[m.conn].deleted, "deleted")
  <2>1. Soft(r, x) /\ x \in States BY SoftExpect, ExpectFacts DEF Crashes
  <2>2. \/ process_command(r, s, m) = process_pipe_term(x, m.conn, m.end)
        \/ process_command(r, s, m) = process_pipe_term_ack(x, m.conn, m.end, s)
    BY <1>3 DEF process_command
  <2> HIDE DEF x
  <2>3. Soft(x, process_command(r, s, m)) BY <1>3, <2>1, <2>2, SoftTerm, SoftAck
  <2> QED BY <2>1, <2>3, SoftTrans
<1> QED BY <1>1, <1>2, <1>3 DEF Commands, Types
-----------------------------------------------------------------------------
(* The steps that give a socket an end of a pipe. *)

\* What changes when connection c is made or bound: nothing of the others, and the only
\* command bind goes to the socket bound.
Wired(r, r2, c) ==
    /\ r2 \in States /\ Kept(r, r2)
    /\ \A d \in Connecting : d # c => r2.conn[d] = r.conn[d]
    /\ r.conn[c].made => r2.conn[c].made
    /\ r.conn[c].binder # Null => r2.conn[c].binder = r.conn[c].binder
    /\ \A t \in All :
         /\ r2.sock[t].pipes \subseteq r.sock[t].pipes \cup ({c} \X Ends)
         /\ r2.sock[t].inprocs # {} => r.sock[t].inprocs # {} \/ (t = c /\ r2.conn[c].made)
         /\ r2.sock[t].life = "open" =>
              r.sock[t].life = "open" /\ r2.sock[t].terminating = r.sock[t].terminating
         /\ \A i \in DOMAIN r2.mail[t] :
              \/ Known(r, t, r2.mail[t][i])
              \/ /\ r2.mail[t][i].type = "bind" /\ r2.mail[t][i].conn = c /\ r2.mail[t][i].end = "b"
                 /\ r2.conn[c].made /\ r2.conn[c].binder = t

\* A mild step that leaves the other connections alone is one.
LEMMA SoftWired ==
  ASSUME NEW r \in States, NEW r2, Soft(r, r2), NEW c \in Connecting,
         \A d \in Connecting : d # c => r2.conn[d] = r.conn[d]
  PROVE  Wired(r, r2, c)
<1>1. ASSUME NEW t \in All
      PROVE  /\ r2.sock[t].pipes \subseteq r.sock[t].pipes
             /\ r2.sock[t].inprocs # {} => r.sock[t].inprocs # {}
             /\ r2.sock[t].life = "open" =>
                  r.sock[t].life = "open" /\ r2.sock[t].terminating = r.sock[t].terminating
             /\ \A i \in DOMAIN r2.mail[t] : Known(r, t, r2.mail[t][i])
  BY DEF Soft, Mild, Less
<1>2. r2 \in States /\ Kept(r, r2) /\ SameLink(r.conn[c], r2.conn[c]) BY DEF Soft, Mild
<1> QED BY <1>1, <1>2 DEF Wired, SameLink

\* One such step after another is one.
LEMMA WiredTrans ==
  ASSUME NEW r \in States, NEW c \in Connecting, NEW r2, NEW r3, Wired(r, r2, c), Wired(r2, r3, c)
  PROVE  Wired(r, r3, c)
<1>1. r3 \in States /\ Kept(r, r3) BY DEF Wired, Kept
<1>2. \A d \in Connecting : d # c => r3.conn[d] = r.conn[d] BY DEF Wired
<1>3. /\ r.conn[c].made => r3.conn[c].made
      /\ r.conn[c].binder # Null => r3.conn[c].binder = r.conn[c].binder
  BY DEF Wired
<1>4. ASSUME NEW t \in All
      PROVE  /\ r3.sock[t].pipes \subseteq r.sock[t].pipes \cup ({c} \X Ends)
             /\ r3.sock[t].inprocs # {} => r.sock[t].inprocs # {} \/ (t = c /\ r3.conn[c].made)
             /\ r3.sock[t].life = "open" =>
                  r.sock[t].life = "open" /\ r3.sock[t].terminating = r.sock[t].terminating
  <2>1. /\ r2.sock[t].pipes \subseteq r.sock[t].pipes \cup ({c} \X Ends)
        /\ r3.sock[t].pipes \subseteq r2.sock[t].pipes \cup ({c} \X Ends)
    BY DEF Wired
  <2>2. r3.sock[t].inprocs # {} => r.sock[t].inprocs # {} \/ (t = c /\ r3.conn[c].made) BY DEF Wired
  <2>3. r3.sock[t].life = "open" =>
          r.sock[t].life = "open" /\ r3.sock[t].terminating = r.sock[t].terminating
    BY DEF Wired
  <2> QED BY <2>1, <2>2, <2>3
<1>5. ASSUME NEW t \in All, NEW i \in DOMAIN r3.mail[t]
      PROVE  \/ Known(r, t, r3.mail[t][i])
             \/ /\ r3.mail[t][i].type = "bind" /\ r3.mail[t][i].conn = c /\ r3.mail[t][i].end = "b"
                /\ r3.conn[c].made /\ r3.conn[c].binder = t
  <2> DEFINE m == r3.mail[t][i]
             New(x) == m.type = "bind" /\ m.conn = c /\ m.end = "b" /\ x.conn[c].made /\ x.conn[c].binder = t
  <2>1. Known(r2, t, m) \/ New(r3) BY DEF Wired
  <2>2. t # Null BY Names
  <2>3. New(r2) => New(r3) BY <2>2 DEF Wired
  <2>4. \A j \in DOMAIN r2.mail[t] : m = r2.mail[t][j] => Known(r, t, m) \/ New(r2)
    BY DEF Wired
  <2>5. Known(r2, t, m) => Known(r, t, m) \/ New(r2)
    <3> HIDE DEF m, New
    <3> QED BY <2>4 DEF Known
  <2> HIDE DEF New
  <2>6. Known(r, t, m) \/ New(r3) BY <2>1, <2>3, <2>5
  <2> QED BY <2>6 DEF New, m
<1> QED BY <1>1, <1>2, <1>3, <1>4, <1>5 DEF Wired

\* The rest of the invariant is kept.
LEMMA WiredFine ==
  ASSUME NEW r \in States, NEW rd \in Reads, Fine(r, rd), NEW c \in Connecting, NEW r2,
         Wired(r, r2, c), OfConn(r2, rd, c)
  PROVE  Fine(r2, rd)
<1>1. ASSUME NEW d \in Connecting, d # c PROVE OfConn(r2, rd, d)
  <2>1. OfConn(r, rd, d) /\ r2.conn[d] = r.conn[d] BY <1>1 DEF Fine, Wired
  <2>2. \A t \in All, e \in Ends : <<d, e>> \in r2.sock[t].pipes => <<d, e>> \in r.sock[t].pipes
    BY <1>1 DEF Wired
  <2>3. Held(r2, d) BY <2>1, <2>2 DEF Held, OfConn, Ends
  <2> QED BY <2>1, <2>3 DEF OfConn
<1>2. ASSUME NEW s \in All PROVE OfSock(r2, s)
  <2>1. OfSock(r, s) BY DEF Fine
  <2>2. ASSUME NEW m, Proper(r, s, m) PROVE Proper(r2, s, m)
    <3>1. s # Null BY Names
    <3> QED BY <2>2, <3>1 DEF Proper, Wired
  <2>3. ASSUME NEW i \in DOMAIN r2.mail[s] PROVE Proper(r2, s, r2.mail[s][i])
    <3> DEFINE k == r2.mail[s][i]
    <3>1. \/ Known(r, s, k)
          \/ k.type = "bind" /\ k.conn = c /\ k.end = "b" /\ r2.conn[c].made /\ r2.conn[c].binder = s
      BY DEF Wired
    <3> HIDE DEF k
    <3>2. \A j \in DOMAIN r.mail[s] : Proper(r, s, r.mail[s][j]) BY <2>1 DEF OfSock
    <3>3. Known(r, s, k) => Proper(r, s, k) BY <3>2 DEF Known, Proper
    <3>4. k.type = "bind" /\ k.conn = c /\ k.end = "b" /\ r2.conn[c].made /\ r2.conn[c].binder = s
            => Proper(r2, s, k)
      BY DEF Proper, Ends
    <3>5. Proper(r2, s, k) BY <2>2, <3>1, <3>3, <3>4
    <3> QED BY <3>5 DEF k
  <2>4. r2.sock[s].inprocs # {} => s \in Connecting /\ r2.conn[s].made
    <3>1. \A d \in Connecting : r.conn[d].made => r2.conn[d].made BY DEF Wired
    <3>2. r2.sock[s].inprocs # {} => r.sock[s].inprocs # {} \/ (s = c /\ r2.conn[c].made)
      BY DEF Wired
    <3> QED BY <2>1, <3>1, <3>2 DEF OfSock
  <2>5. r2.sock[s].life = "open" => ~r2.sock[s].terminating BY <2>1 DEF OfSock, Wired
  <2> QED BY <2>3, <2>4, <2>5 DEF OfSock
<1> QED BY <1>1, <1>2 DEF Fine

\* pipe_t::write by an end that has to be active.
LEMMA MustWriteFacts ==
  ASSUME NEW r \in States, NEW c \in Connecting, NEW e \in Ends
  PROVE  LET o == Other(e)
             z == MustWrite(r, c, e, "identity")
             x == z.conn[c]
         IN  /\ z \in States /\ Wired(r, z, c) /\ z.sock = r.sock /\ SameLink(r.conn[c], x)
             /\ x.ends[o].in = Append(r.conn[c].ends[o].in, "identity")
             /\ x.ends[e].in = r.conn[c].ends[e].in
<1> DEFINE o == Other(e)
           q == Append(r.conn[c].ends[o].in, "identity")
           w == [r.conn[c].ends[o] EXCEPT !.in = q]
           x == [r.conn[c] EXCEPT !.ends[o] = w]
           y == Write(r, c, e, "identity")
           z == MustWrite(r, c, e, "identity")
<1>1. o \in Ends /\ o # e BY DEF Ends, Other
<1>2. r.conn[c] \in Pipe /\ r.conn[c].ends[o] \in EndState /\ r.conn[c].ends[o].in \in Seq(Items)
  BY <1>1, QueueType
<1>3. q \in Seq(Items) BY <1>2 DEF Items
<1>4. y = [r EXCEPT !.conn[c] = x] BY DEF Write
<1> HIDE DEF q
<1>5. w \in EndState /\ w.in = q BY <1>2, <1>3 DEF EndState
<1> HIDE DEF w
<1>6. /\ x \in Pipe /\ SameLink(r.conn[c], x) /\ x.ends[o] = w
      /\ x.ends[e].in = r.conn[c].ends[e].in
  BY <1>1, <1>2, <1>5 DEF Pipe, SameLink
<1> HIDE DEF x
<1>7. ConnEdit(r, y, c, x) BY <1>4, <1>6, ConnStep
<1> HIDE DEF y
<1>8. y \in States /\ y.mail = r.mail /\ y.sock = r.sock /\ y.conn[c] = x
      /\ \A d \in Connecting : d # c => y.conn[d] = r.conn[d]
  BY <1>7 DEF ConnEdit
<1>9. z = Expect(y, check_write(r, c, e), "write") BY DEF MustWrite, y
<1>10. z \in States /\ z.sock = r.sock /\ z.conn = y.conn /\ z.mail = r.mail
  BY <1>8, <1>9, ExpectFacts DEF Crashes
<1> HIDE DEF z
<1>11. Wired(r, z, c) BY <1>6, <1>8, <1>10 DEF Wired, Kept, SameLink, Known
<1> QED BY <1>5, <1>6, <1>8, <1>10, <1>11 DEF z, q, o

\* pipe_t::terminate leaves the other pipes alone.
LEMMA Untouched ==
  ASSUME NEW r \in States, NEW P, NEW delay \in BOOLEAN, NEW d \in Connecting,
         \A e \in Ends : <<d, e>> \notin P
  PROVE  TerminatePipes(r, P, delay).conn[d] = r.conn[d]
<1> DEFINE Stage(p) == r.conn[p[1]].ends[p[2]].state
           Peer(p) == r.conn[p[1]].ends[Other(p[2])].tid
           Asking == {p \in P : Stage(p) \in {"active", "delimiter_received"}}
           Waiting == {p \in P : Stage(p) = "waiting_for_delimiter"}
           Answering == IF delay THEN {} ELSE Waiting
           Writing == IF delay THEN Asking \cup Waiting ELSE Asking
           Told(s) == {Cmd("pipe_term", p[1], Other(p[2])) : p \in {q \in Asking : Peer(q) = s}}
                      \cup {Cmd("pipe_term_ack", p[1], Other(p[2])) :
                              p \in {q \in Answering : Peer(q) = s}}
           After(x, c, e) ==
            [x EXCEPT !.state = IF <<c, e>> \in Asking THEN "term_req_sent1"
                                ELSE IF <<c, e>> \in Answering THEN "term_ack_sent" ELSE @,
                      !.delay = IF <<c, e>> \in P THEN delay ELSE @,
                      !.in = IF <<c, Other(e)>> \in Writing THEN Append(@, "delimiter") ELSE @]
           f == [c \in Connecting |-> [r.conn[c] EXCEPT !.ends =
                                        [e \in Ends |-> After(r.conn[c].ends[e], c, e)]]]
           g == [s \in All |-> r.mail[s] \o SetToSeq(Told(s))]
           y == [r EXCEPT !.conn = f, !.mail = g]
           ok == \A p \in Asking \cup Answering : r.sock[Peer(p)].life # "deleted"
<1>1. TerminatePipes(r, P, delay) = Expect(y, ok, "deleted") BY DEF TerminatePipes
<1>2. Asking \subseteq P /\ Answering \subseteq P /\ Writing \subseteq P OBVIOUS
<1> HIDE DEF Asking, Answering, Writing, g, ok
<1>3. ASSUME NEW e \in Ends PROVE After(r.conn[d].ends[e], d, e) = r.conn[d].ends[e]
  <2>1. /\ <<d, e>> \notin P /\ <<d, e>> \notin Asking /\ <<d, e>> \notin Answering
        /\ <<d, Other(e)>> \notin Writing
    BY <1>2, Names
  <2> DEFINE x == r.conn[d].ends[e]
  <2>2. x \in EndState BY QueueType
  <2> HIDE DEF x
  <2>3. After(x, d, e) = [x EXCEPT !.state = x.state, !.delay = x.delay, !.in = x.in] BY <2>1
  <2>4. [x EXCEPT !.state = x.state, !.delay = x.delay, !.in = x.in] = x BY <2>2 DEF EndState
  <2> QED BY <2>3, <2>4 DEF x
<1> HIDE DEF After
<1>4. f[d] = r.conn[d]
  <2> DEFINE h == [e \in Ends |-> After(r.conn[d].ends[e], d, e)]
             x == r.conn[d]
  <2>1. x \in Pipe BY DEF States
  <2>2. h = x.ends BY <1>3, <2>1 DEF Pipe
  <2>3. f[d] = [x EXCEPT !.ends = h] OBVIOUS
  <2> HIDE DEF h, x, f
  <2>4. [x EXCEPT !.ends = x.ends] = x BY <2>1 DEF Pipe
  <2> QED BY <2>2, <2>3, <2>4 DEF x
<1> HIDE DEF f
<1>5. y.conn = f BY DEF States
<1> HIDE DEF y
<1> QED BY <1>1, <1>4, <1>5 DEF Expect, States

\* Who holds the ends is kept by a mild step, and by one that gives nobody an end.
LEMMA HeldFacts ==
  ASSUME NEW r, NEW c \in Connecting, Held(r, c), NEW r2
  PROVE  /\ Soft(r, r2) => Held(r2, c)
         /\ r2.sock = r.sock /\ SameLink(r.conn[c], r2.conn[c]) => Held(r2, c)
<1>1. ASSUME Soft(r, r2) PROVE Held(r2, c)
  <2>1. SameLink(r.conn[c], r2.conn[c]) /\ \A t \in All : r2.sock[t].pipes \subseteq r.sock[t].pipes
    BY <1>1 DEF Soft, Mild, Less
  <2> QED BY <2>1 DEF Held, SameLink
<1>2. ASSUME r2.sock = r.sock, SameLink(r.conn[c], r2.conn[c]) PROVE Held(r2, c)
  BY <1>2 DEF Held, SameLink
<1> QED BY <1>1, <1>2

\* socket_base_t::attach_pipe, of a socket that may hold the end.
LEMMA AttachFacts ==
  ASSUME NEW r \in States, NEW s \in All, NEW c \in Connecting, NEW e \in Ends,
         r.conn[c].made, e = "c" => s = c, e = "b" => r.conn[c].binder = s, Held(r, c)
  PROVE  LET z == AttachPipe(r, s, c, e)
         IN  /\ z \in States /\ Held(z, c) /\ SameLink(r.conn[c], z.conn[c]) /\ Wired(r, z, c)
             /\ ~r.sock[s].terminating /\ ~options[s].probe_router /\ s # Temporary => z.conn = r.conn
             /\ \A f \in Ends :
                  /\ Grown(r.conn[c].ends[f].in, z.conn[c].ends[f].in)
                  /\ z.conn[c].ends[f].in = r.conn[c].ends[f].in \/ Writer(r.conn[c], Other(f))
<1> DEFINE y == [r.sock[s] EXCEPT !.pipes = @ \cup {<<c, e>>}]
           x == [r EXCEPT !.sock[s] = y]
           w == Probe(x, s, c, e)
           a == [w.sock[s] EXCEPT !.term_acks = @ + 1]
           v == [w EXCEPT !.sock[s] = a]
           u == IF r.sock[s].terminating THEN v ELSE w
           P == {<<c, e>>}
           t == TerminatePipes(u, P, FALSE)
           z == AttachPipe(r, s, c, e)
<1>1. r.sock[s] \in Socket /\ s # Null BY Names DEF States
<1>2. y \in Socket /\ y.pipes = r.sock[s].pipes \cup {<<c, e>>} /\ y.inprocs = r.sock[s].inprocs
      /\ y.life = r.sock[s].life /\ y.terminating = r.sock[s].terminating
  BY <1>1 DEF Socket
<1>3. \/ z = w
      \/ z = t /\ (r.sock[s].terminating \/ s = Temporary)
  <2>1. [r EXCEPT !.sock[s].pipes = @ \cup {<<c, e>>}] = x BY <1>1 DEF States, Socket
  <2> HIDE DEF x
  <2>2. [w EXCEPT !.sock[s].term_acks = @ + 1] = v OBVIOUS
  <2> HIDE DEF w, v
  <2>3. z = IF r.sock[s].terminating \/ Occupied(r, s) THEN t ELSE w
    BY <2>1, <2>2 DEF AttachPipe, TerminatePipe, w
  <2> HIDE DEF z, t
  <2> QED BY <2>3 DEF Occupied
<1>4. SockEdit(r, x, s, y)
  <2> HIDE DEF y
  <2> QED BY <1>2, SockStep
<1> HIDE DEF x, y, z
<1>5. x \in States /\ x.conn = r.conn /\ Held(x, c) /\ Wired(r, x, c)
  <2>1. /\ x \in States /\ x.mail = r.mail /\ x.conn = r.conn /\ x.sock[s] = y
        /\ \A k \in All : k # s => x.sock[k] = r.sock[k]
    BY <1>4 DEF SockEdit
  <2>2. \A k \in All : x.sock[k].pipes \subseteq r.sock[k].pipes \cup ({c} \X Ends)
    BY <1>2, <2>1
  <2>3. Held(x, c)
    <3>1. ASSUME NEW k \in All, NEW f \in Ends, <<c, f>> \in x.sock[k].pipes
          PROVE  <<c, f>> \in r.sock[k].pipes \/ (k = s /\ f = e)
      <4>1. CASE k # s BY <2>1, <3>1, <4>1
      <4>2. CASE k = s BY <1>2, <2>1, <3>1, <4>2
      <4> QED BY <4>1, <4>2
    <3> QED BY <2>1, <3>1 DEF Held, Ends
  <2>4. Kept(r, x) BY <1>2, <2>1 DEF Kept
  <2>5. \A k \in All : /\ x.sock[k].inprocs = r.sock[k].inprocs /\ x.sock[k].life = r.sock[k].life
                       /\ x.sock[k].terminating = r.sock[k].terminating
    BY <1>2, <2>1
  <2>6. \A k \in All : \A i \in DOMAIN x.mail[k] : Known(r, k, x.mail[k][i]) BY <2>1 DEF Known
  <2> QED BY <2>1, <2>2, <2>3, <2>4, <2>5, <2>6 DEF Wired
<1>6. Writer(x.conn[c], e) BY <1>1, <1>5 DEF Writer
<1>7. /\ Soft(x, w) /\ w.sock = x.sock /\ \A d \in Connecting : d # c => w.conn[d] = x.conn[d]
      /\ ~options[s].probe_router => w = x
  BY <1>5, <1>6, SoftProbe
<1> HIDE DEF w
<1>8. w \in States /\ w.sock[s] \in Socket BY <1>7 DEF Soft, Mild, States
<1>9. Soft(w, v) /\ v.conn = w.conn
  <2>1. a \in Socket /\ Counted(w.sock[s], a) BY <1>8 DEF Socket, Counted
  <2> HIDE DEF a
  <2>2. SockEdit(w, v, s, a) BY <1>8, <2>1, SockStep
  <2> HIDE DEF v
  <2> QED BY <1>8, <2>1, <2>2, SoftSock DEF SockEdit, Counted, Less
<1> HIDE DEF v
<1>10. Soft(x, u) /\ \A d \in Connecting : d # c => u.conn[d] = x.conn[d]
  <2>1. Soft(x, v) BY <1>5, <1>7, <1>9, SoftTrans
  <2> QED BY <1>7, <1>9, <2>1
<1> HIDE DEF u
<1>11. u \in States /\ Writer(u.conn[c], e)
  BY <1>6, <1>10 DEF Soft, Mild, SameLink, Writer
<1>12. Soft(u, t) /\ \A d \in Connecting : d # c => t.conn[d] = u.conn[d]
  <2>1. P \in SUBSET (Connecting \X Ends) /\ FALSE \in BOOLEAN OBVIOUS
  <2>2. \A p \in P : Writer(u.conn[p[1]], p[2]) BY <1>11
  <2>3. \A d \in Connecting : d # c => \A f \in Ends : <<d, f>> \notin P OBVIOUS
  <2> HIDE DEF P
  <2>4. Soft(u, t) BY <1>11, <2>1, <2>2, SoftTerminate
  <2>5. \A d \in Connecting : d # c => t.conn[d] = u.conn[d] BY <1>11, <2>1, <2>3, Untouched
  <2> QED BY <2>4, <2>5
<1> HIDE DEF t
<1>13. Soft(x, z) /\ \A d \in Connecting : d # c => z.conn[d] = x.conn[d]
  <2>1. Soft(x, t) BY <1>5, <1>10, <1>12, SoftTrans
  <2> QED BY <1>3, <1>7, <1>10, <1>12, <2>1
<1>14. ~r.sock[s].terminating /\ ~options[s].probe_router /\ s # Temporary => z.conn = r.conn
  BY <1>3, <1>5, <1>7
<1>15. Wired(x, z, c) BY <1>5, <1>13, SoftWired
<1>16. Wired(r, z, c) BY <1>5, <1>15, WiredTrans
<1>17. SameLink(r.conn[c], z.conn[c]) BY <1>5, <1>13 DEF Soft, Mild
<1>18. Held(z, c) BY <1>5, <1>13, HeldFacts
<1>19. \A f \in Ends : /\ Grown(r.conn[c].ends[f].in, z.conn[c].ends[f].in)
                       /\ z.conn[c].ends[f].in = r.conn[c].ends[f].in \/ Writer(r.conn[c], Other(f))
  BY <1>5, <1>13 DEF Soft, Mild
<1>20. z \in States BY <1>16 DEF Wired
<1> QED BY <1>14, <1>16, <1>17, <1>18, <1>19, <1>20 DEF z

\* A new pipe is empty.
LEMMA ConnType ==
  ASSUME NEW c \in Connecting, NEW b \in All, NEW h \in Limits
  PROVE  LET x == Conn(c, b, h)
         IN  /\ x \in Pipe /\ x.made /\ x.binder = Null /\ x.hwms = h
             /\ \A e \in Ends : x.ends[e].in = << >>
<1> DEFINE x == Conn(c, b, h)
<1>1. c \in All /\ Null \in All \cup {Null} BY Names
<1>2. \A t \in All : End(t) \in EndState /\ End(t).in = << >> BY DEF End, EndState, Stages
<1>3. [e \in Ends |-> End(IF e = "c" THEN c ELSE b)] \in [Ends -> EndState] BY <1>1, <1>2
<1>4. x \in Pipe BY <1>1, <1>3 DEF Conn, Pipe, Sides
<1>5. x.made /\ x.binder = Null /\ x.hwms = h BY DEF Conn
<1>6. \A e \in Ends : x.ends[e].in = << >> BY <1>1, <1>2 DEF Conn
<1> QED BY <1>4, <1>5, <1>6 DEF x

\* The pipe of a connection is made and its connecter gets an end of it.
LEMMA PairFacts ==
  ASSUME NEW r \in States, NEW rd \in Reads, Fine(r, rd), NEW c \in Connecting, NEW b \in All,
         NEW h \in Limits, ~r.conn[c].made, ~r.sock[c].terminating
  PROVE  LET z == AttachPipe(Pipepair(r, c, b, h), c, c, "c")
         IN  /\ z \in States /\ Wired(r, z, c) /\ Held(z, c)
             /\ z.conn[c].made /\ z.conn[c].binder = Null /\ z.conn[c].hwms = h
             /\ z.conn[c].ends["b"].in \in Seq(Items) /\ z.conn[c].ends["c"].in = << >>
             /\ ~options[c].probe_router => z.conn[c].ends["b"].in = << >>
             /\ \A e \in Ends : rd[c][e] = << >>
<1> DEFINE y == [r.sock[c] EXCEPT !.inprocs = {<<c, "c">>}]
           u == [r EXCEPT !.sock[c] = y]
           x == Conn(c, b, h)
           v == [u EXCEPT !.conn[c] = x]
           w == Pipepair(r, c, b, h)
           z == AttachPipe(w, c, c, "c")
<1>1. c \in All /\ r.sock[c] \in Socket /\ "c" \in Ends BY Names DEF States
<1>2. /\ y \in Socket /\ y.pipes = r.sock[c].pipes /\ y.life = r.sock[c].life
      /\ y.terminating = r.sock[c].terminating
  BY <1>1 DEF Socket
<1>3. w = v BY DEF Pipepair
<1> HIDE DEF y
<1>4. SockEdit(r, u, c, y) BY <1>1, <1>2, SockStep
<1> HIDE DEF u
<1>5. u \in States /\ u.mail = r.mail /\ u.conn = r.conn /\ u.sock[c] = y
      /\ \A t \in All : t # c => u.sock[t] = r.sock[t]
  BY <1>4 DEF SockEdit
<1>6. /\ x \in Pipe /\ x.made /\ x.binder = Null /\ x.hwms = h
      /\ \A e \in Ends : x.ends[e].in = << >>
  BY ConnType
<1> HIDE DEF x
<1>7. ConnEdit(u, v, c, x) BY <1>5, <1>6, ConnStep
<1> HIDE DEF v, w
<1>8. /\ w \in States /\ w.mail = r.mail /\ w.conn[c] = x /\ w.sock[c] = y
      /\ \A t \in All : t # c => w.sock[t] = r.sock[t]
      /\ \A d \in Connecting : d # c => w.conn[d] = r.conn[d]
  BY <1>3, <1>5, <1>7 DEF ConnEdit
<1>9. OfConn(r, rd, c) BY DEF Fine
<1>10. r.conn[c].binder = Null BY <1>9 DEF OfConn, Agreed
<1>11. \A e \in Ends : rd[c][e] = << >> BY <1>9, <1>10 DEF OfConn, Written
<1>12. \A t \in All : w.sock[t].pipes = r.sock[t].pipes /\ w.sock[t].life = r.sock[t].life
                      /\ w.sock[t].terminating = r.sock[t].terminating
  BY <1>2, <1>8
<1>13. Held(w, c)
  <2>1. Held(r, c) BY <1>9 DEF OfConn
  <2>2. \A t \in All : t # Null BY Names
  <2>3. \A t \in All : <<c, "c">> \notin r.sock[t].pipes /\ <<c, "b">> \notin r.sock[t].pipes
    BY <2>1 DEF Held
  <2> QED BY <1>12, <2>3 DEF Held
<1>14. Wired(r, w, c)
  <2>1. Kept(r, w) BY <1>12 DEF Kept
  <2>2. \A t \in All : w.sock[t].inprocs # {} => r.sock[t].inprocs # {} \/ (t = c /\ w.conn[c].made)
    BY <1>6, <1>8
  <2>3. \A t \in All : \A i \in DOMAIN w.mail[t] : Known(r, t, w.mail[t][i]) BY <1>8 DEF Known
  <2> QED BY <1>8, <1>10, <1>12, <2>1, <2>2, <2>3 DEF Wired
<1>15. ~w.sock[c].terminating /\ w.conn[c].made
  <2>1. w.sock[c].terminating = r.sock[c].terminating BY <1>1, <1>12
  <2>2. ~w.sock[c].terminating BY <2>1
  <2>3. w.conn[c].made BY <1>6, <1>8
  <2> QED BY <2>2, <2>3
<1>16. /\ z \in States /\ Held(z, c) /\ Wired(w, z, c) /\ SameLink(w.conn[c], z.conn[c])
       /\ ~options[c].probe_router => z.conn = w.conn
       /\ z.conn[c].ends["c"].in = w.conn[c].ends["c"].in \/ Writer(w.conn[c], Other("c"))
  <2>1. ~w.sock[c].terminating /\ c # Temporary BY <1>15, Names
  <2> QED BY <1>1, <1>8, <1>13, <1>15, <2>1, AttachFacts
<1> HIDE DEF z
<1>17. Wired(r, z, c) BY <1>14, <1>16, WiredTrans
<1>18. z.conn[c].made /\ z.conn[c].binder = Null /\ z.conn[c].hwms = h
  BY <1>6, <1>8, <1>16 DEF SameLink
<1>19. z.conn[c].ends["c"].in = << >>
  BY <1>6, <1>8, <1>16 DEF Ends, Other, Writer
<1>20. ~options[c].probe_router => z.conn[c].ends["b"].in = << >>
  BY <1>6, <1>8, <1>16 DEF Ends
<1>21. z.conn[c].ends["b"].in \in Seq(Items) BY <1>16, QueueType DEF Ends
<1> QED BY <1>11, <1>16, <1>17, <1>18, <1>19, <1>20, <1>21 DEF z, w

\* A queue that starts with the identity that is expected, and holds nothing else.
LEMMA FirstStart ==
  ASSUME NEW o \in BOOLEAN
  PROVE  First(IF o THEN << "identity" >> ELSE << >>, << >>, o)
<1>1. First(<< "identity" >>, << >>, TRUE) /\ First(<< >>, << >>, FALSE) BY DEF First
<1>2. CASE o = TRUE BY <1>1, <1>2
<1>3. CASE o = FALSE BY <1>1, <1>3
<1> QED BY <1>2, <1>3

\* A connection to which a socket is bound and in which only identities were written yet,
\* where nothing may stand before them.
Bound(x, c, b) ==
    /\ x.made /\ x.binder = b /\ x.hwms = PipeHwms(c, b)
    /\ ~Late(x, c, "b") => First(x.ends["b"].in, << >>, options[b].recv_identity)
    /\ ~Late(x, c, "c") => x.ends["c"].in = << >>

\* The connecter is told the identity of its peer.
LEMMA GreetFacts ==
  ASSUME NEW r \in States, NEW rd \in Reads, Fine(r, rd), NEW c \in Connecting, NEW b \in All,
         NEW w, Wired(r, w, c), Held(w, c), Bound(w.conn[c], c, b), options \in [All -> Option],
         \A e \in Ends : rd[c][e] = << >>
  PROVE  LET z == SendIdentity(w, c)
         IN  /\ Fine(z, rd) /\ Wired(r, z, c) /\ z.conn[c].made /\ z.conn[c].binder = b
<1> DEFINE z == SendIdentity(w, c)
           o == options[c].recv_identity
<1>1. c \in All /\ b # Null /\ w \in States BY Names DEF Wired
<1>2. o \in BOOLEAN BY <1>1 DEF Option
<1>3. /\ Wired(w, z, c) /\ z.sock = w.sock /\ SameLink(w.conn[c], z.conn[c])
      /\ z.conn[c].ends["b"].in = w.conn[c].ends["b"].in
      /\ ~Late(w.conn[c], c, "c") => z.conn[c].ends["c"].in = IF o THEN << "identity" >> ELSE << >>
  <2>1. "b" \in Ends /\ Other("b") = "c" BY DEF Ends, Other
  <2>2. ~Late(w.conn[c], c, "c") => w.conn[c].ends["c"].in = << >> BY DEF Bound
  <2>3. CASE o
    <3>1. z = MustWrite(w, c, "b", "identity") BY <2>3 DEF SendIdentity
    <3> HIDE DEF z
    <3>2. /\ Wired(w, z, c) /\ z.sock = w.sock /\ SameLink(w.conn[c], z.conn[c])
          /\ z.conn[c].ends["c"].in = Append(w.conn[c].ends["c"].in, "identity")
          /\ z.conn[c].ends["b"].in = w.conn[c].ends["b"].in
      <4> DEFINE t == MustWrite(w, c, "b", "identity")
      <4>1. /\ Wired(w, t, c) /\ t.sock = w.sock /\ SameLink(w.conn[c], t.conn[c])
            /\ t.conn[c].ends[Other("b")].in = Append(w.conn[c].ends[Other("b")].in, "identity")
            /\ t.conn[c].ends["b"].in = w.conn[c].ends["b"].in
        BY <1>1, <2>1, MustWriteFacts
      <4> QED BY <2>1, <3>1, <4>1
    <3>3. Append(<< >>, "identity") = << "identity" >> OBVIOUS
    <3> QED BY <2>2, <2>3, <3>2, <3>3
  <2>4. CASE ~o
    <3>1. z = w BY <2>4 DEF SendIdentity
    <3> HIDE DEF z
    <3>2. Wired(w, w, c) BY <1>1, SoftSame, SoftWired
    <3> QED BY <2>2, <2>4, <3>1, <3>2 DEF SameLink
  <2> QED BY <2>3, <2>4
<1> HIDE DEF z
<1>4. Wired(r, z, c) BY <1>3, WiredTrans
<1>5. /\ z.conn[c].made /\ z.conn[c].binder = b /\ z.conn[c].hwms = PipeHwms(c, b)
  BY <1>3 DEF SameLink, Bound
<1>6. OfConn(z, rd, c)
  <2>0. \A e \in Ends : Late(z.conn[c], c, e) = Late(w.conn[c], c, e) BY <1>3, LateSame
  <2>1. Held(z, c) BY <1>3 DEF Held, SameLink
  <2>2. Agreed(z.conn[c], c) BY <1>5 DEF Agreed
  <2>3. Written(z.conn[c], rd[c]["b"], c, "b")
    <3>1. rd[c]["b"] = << >> BY DEF Ends
    <3>2. Expects(z.conn[c], c, "b") = options[b].recv_identity BY <1>1, <1>5 DEF Expects, Option
    <3>3. ~Late(z.conn[c], c, "b") => First(z.conn[c].ends["b"].in, << >>, options[b].recv_identity)
      BY <1>3, <2>0 DEF Bound, Ends
    <3> QED BY <1>1, <1>5, <3>1, <3>2, <3>3 DEF Written
  <2>4. Written(z.conn[c], rd[c]["c"], c, "c")
    <3>1. rd[c]["c"] = << >> BY DEF Ends
    <3>2. Expects(z.conn[c], c, "c") = o BY <1>1, <1>2, <1>5 DEF Expects
    <3>3. ~Late(z.conn[c], c, "c") => First(z.conn[c].ends["c"].in, << >>, o)
      <4> HIDE DEF o
      <4>1. First(IF o THEN << "identity" >> ELSE << >>, << >>, o) BY <1>2, FirstStart
      <4> QED BY <1>3, <2>0, <4>1 DEF Ends
    <3> HIDE DEF o
    <3> QED BY <1>1, <1>5, <3>1, <3>2, <3>3 DEF Written
  <2> QED BY <2>1, <2>2, <2>3, <2>4 DEF OfConn, Ends
<1>7. Fine(z, rd) BY <1>4, <1>6, WiredFine
<1> QED BY <1>4, <1>5, <1>7 DEF z

\* The limits that two sockets give a connection.
LEMMA HwmsType ==
  ASSUME options \in [All -> Option], NEW c \in Connecting, NEW b \in All
  PROVE  PipeHwms(c, b) \in Limits
<1>1. c \in All BY Names
<1>2. options[c] \in Option /\ options[b] \in Option BY <1>1
<1>3. \A m, n \in Nat : Hwm(m, n) \in Nat BY DEF Hwm
<1> QED BY <1>2, <1>3 DEF PipeHwms, Limits, Option

\* The first part of ctx_t::connect_inproc_sockets.
LEMMA AdoptFacts ==
  ASSUME NEW r \in States, NEW rd \in Reads, Fine(r, rd), NEW c \in Connecting, NEW b \in All,
         options \in [All -> Option], r.conn[c].made, r.conn[c].binder = Null,
         NEW d \in {"bind_side", "connect_side"}
  PROVE  LET z == AdoptEnd(r, c, b, d)
         IN  /\ Wired(r, z, c) /\ Held(z, c) /\ Bound(z.conn[c], c, b)
             /\ z.conn[c].side = d /\ z.conn[c].ends["c"].in = << >>
             /\ z.mail = r.mail /\ \A t \in All : Counted(r.sock[t], z.sock[t])
             /\ \A e \in Ends : rd[c][e] = << >>
<1> DEFINE i == inc_seqnum(r, b)
           h == PipeHwms(c, b)
           n == [r.conn[c].ends["b"] EXCEPT !.tid = b]
           p == [r.conn[c] EXCEPT !.ends["b"] = n, !.side = d, !.hwms = h, !.binder = b]
           x == [i EXCEPT !.conn[c] = p]
           y == Expect(x, r.conn[c].ends["b"].in # << >> /\ r.conn[c].ends["b"].state # "term_ack_sent", "read")
           q == r.conn[c].ends["b"].in
           n2 == [n EXCEPT !.in = Tail(q)]
           p2 == [p EXCEPT !.ends["b"] = n2]
           y2 == [y EXCEPT !.conn[c] = p2]
           z == AdoptEnd(r, c, b, d)
           o == options[b].recv_identity
           l == options[c].probe_router
<1>1. /\ i \in States /\ i.mail = r.mail /\ i.conn = r.conn
      /\ \A t \in All : Counted(r.sock[t], i.sock[t])
  BY IncFacts
<1>2. "b" \in Ends /\ b # Null /\ h \in Limits /\ o \in BOOLEAN
  BY Names, HwmsType DEF Option
<1>3. r.conn[c] \in Pipe /\ r.conn[c].ends["b"] \in EndState /\ q \in Seq(Items)
  BY <1>2, QueueType
<1>4. OfConn(r, rd, c) BY DEF Fine
<1>5. /\ ~l => First(q, << >>, TRUE)
      /\ q # << >> /\ r.conn[c].ends["c"].in = << >>
      /\ \A e \in Ends : rd[c][e] = << >>
  <2>1. \A e \in Ends : Written(r.conn[c], rd[c][e], c, e) /\ rd[c][e] = << >>
    BY <1>4 DEF OfConn, Written
  <2>2. Written(r.conn[c], << >>, c, "b") /\ Written(r.conn[c], << >>, c, "c") BY <2>1 DEF Ends
  <2>3. Expects(r.conn[c], c, "b") = TRUE BY DEF Expects
  <2>4. Late(r.conn[c], c, "b") = l BY DEF Late
  <2>5. ~l => First(q, << >>, TRUE) BY <2>2, <2>3, <2>4 DEF Written
  <2>6. q # << >> /\ r.conn[c].ends["c"].in = << >> BY <2>2 DEF Written
  <2> QED BY <2>1, <2>5, <2>6
<1>6. z = IF o THEN x ELSE y2
  <2> HIDE DEF i, h
  <2> DEFINE u == SetHwms([i EXCEPT !.conn[c].ends["b"].tid = b, !.conn[c].side = d], c, b)
  <2>1. u = x
    <3> DEFINE p1 == [r.conn[c] EXCEPT !.ends["b"] = n, !.side = d]
               u1 == [i EXCEPT !.conn[c] = p1]
    <3>1. [i EXCEPT !.conn[c].ends["b"].tid = b, !.conn[c].side = d] = u1
      BY <1>1, <1>3 DEF States, Pipe, EndState
    <3>2. p = [p1 EXCEPT !.hwms = h, !.binder = b] BY <1>3 DEF Pipe
    <3>3. u = SetHwms(u1, c, b) BY <3>1
    <3>4. u1.conn[c] = p1 /\ u1.conn = [i.conn EXCEPT ![c] = p1] BY <1>1 DEF States
    <3>0. p1 \in Pipe BY <1>2, <1>3 DEF Pipe, EndState, Sides
    <3> HIDE DEF p1, p, u
    <3>7. u1 \in States BY <1>1, <3>0 DEF States
    <3> HIDE DEF u1
    <3>5. SetHwms(u1, c, b) = [u1 EXCEPT !.conn[c] = [p1 EXCEPT !.hwms = h, !.binder = b]]
      BY <3>4, <3>7 DEF SetHwms, States, h
    <3> USE DEF u1
    <3>6. [u1 EXCEPT !.conn[c] = p] = x BY <1>1, <3>4 DEF States
    <3> QED BY <3>2, <3>3, <3>5, <3>6
  <2>2. z = IF o THEN u
            ELSE [Expect(u, r.conn[c].ends["b"].in # << >> /\ r.conn[c].ends["b"].state # "term_ack_sent", "read")
                    EXCEPT !.conn[c].ends["b"].in = Tail(@)]
    BY DEF AdoptEnd, i
  <2>3. z = IF o THEN x ELSE [y EXCEPT !.conn[c].ends["b"].in = Tail(@)]
    <3> HIDE DEF u, x, z
    <3> QED BY <2>1, <2>2
  <2>4. x.conn[c] = p /\ y.conn = x.conn
    <3>1. x.conn[c] = p BY <1>1 DEF States
    <3>2. y.conn = x.conn BY <1>1 DEF Expect, States
    <3> QED BY <3>1, <3>2
  <2>5. p.ends["b"] = n /\ n.in = q
    <3>1. n.in = q BY <1>3 DEF EndState
    <3> HIDE DEF n, q
    <3> QED BY <1>2, <1>3, <3>1 DEF Pipe
  <2> HIDE DEF x, y, p, n, q, z
  <2>6. [y EXCEPT !.conn[c].ends["b"].in = Tail(@)] = y2 BY <2>4, <2>5
  <2> QED BY <2>3, <2>6
<1>7. /\ p \in Pipe /\ p.made /\ p.binder = b /\ p.hwms = h /\ p.ends["b"].in = q
      /\ p.ends["c"].in = << >> /\ p.side = d
  <2>1. n \in EndState /\ n.in = q BY <1>3 DEF EndState
  <2> HIDE DEF n, h, q
  <2>2. d \in Sides BY DEF Sides
  <2> QED BY <1>2, <1>3, <1>5, <2>1, <2>2 DEF Pipe, Ends
<1>8. /\ p2 \in Pipe /\ p2.made /\ p2.binder = b /\ p2.hwms = h /\ p2.ends["b"].in = Tail(q)
      /\ p2.ends["c"].in = << >> /\ p2.side = d
  <2>1. Tail(q) \in Seq(Items) BY <1>3, <1>5
  <2>2. n2 \in EndState /\ n2.in = Tail(q)
    <3> HIDE DEF q
    <3> QED BY <1>2, <1>3, <2>1 DEF EndState
  <2> HIDE DEF p, n2, q
  <2> QED BY <1>2, <1>7, <2>2 DEF Pipe, Ends
<1> HIDE DEF p, p2, i, h
<1>9. x \in States /\ x.mail = r.mail /\ x.sock = i.sock /\ x.conn[c] = p
      /\ \A k \in Connecting : k # c => x.conn[k] = r.conn[k]
  <2>1. ConnEdit(i, x, c, p) BY <1>1, <1>7, ConnStep
  <2> HIDE DEF x
  <2> QED BY <1>1, <2>1 DEF ConnEdit
<1> HIDE DEF x
<1>10. y \in States /\ y.mail = x.mail /\ y.sock = x.sock /\ y.conn = x.conn
  BY <1>9, ExpectFacts DEF Crashes
<1> HIDE DEF y
<1>11. y2 \in States /\ y2.mail = r.mail /\ y2.sock = i.sock /\ y2.conn[c] = p2
       /\ \A k \in Connecting : k # c => y2.conn[k] = r.conn[k]
  <2>1. ConnEdit(y, y2, c, p2) BY <1>8, <1>10, ConnStep
  <2> HIDE DEF y2
  <2> QED BY <1>9, <1>10, <2>1 DEF ConnEdit
<1> HIDE DEF y2
<1>12. PICK v \in {p, p2} :
         /\ z.conn[c] = v /\ v.made /\ v.binder = b /\ v.hwms = h /\ v.ends["c"].in = << >>
         /\ v.side = d /\ (~l => First(v.ends["b"].in, << >>, o))
  <2>1. CASE o
    <3>1. ~l => First(p.ends["b"].in, << >>, o)
      <4> HIDE DEF o, q, l
      <4>1. o = TRUE BY <1>2, <2>1
      <4> QED BY <1>5, <1>7, <4>1
    <3> HIDE DEF l
    <3> QED BY <1>6, <1>7, <1>9, <2>1, <3>1
  <2>2. CASE ~o
    <3>1. ~l => First(Tail(q), << >>, o)
      <4> SUFFICES ASSUME ~l PROVE First(Tail(q), << >>, o) OBVIOUS
      <4>1. q # << >> /\ \A j \in DOMAIN q : q[j] = "identity" <=> j = 1 BY <1>5 DEF First
      <4>2. Tail(q) \in Seq(Items) /\ \A j \in DOMAIN Tail(q) : j + 1 \in DOMAIN q /\ Tail(q)[j] = q[j + 1] /\ j \in Nat \ {0}
        BY <1>3, <4>1
      <4>3. \A j \in DOMAIN Tail(q) : Tail(q)[j] # "identity" BY <4>1, <4>2
      <4> QED BY <2>2, <4>3 DEF First
    <3> HIDE DEF l
    <3> QED BY <1>6, <1>8, <1>11, <2>2, <3>1
  <2> QED BY <2>1, <2>2
<1>13. z \in States /\ z.mail = r.mail /\ z.sock = i.sock
       /\ \A k \in Connecting : k # c => z.conn[k] = r.conn[k]
  BY <1>6, <1>9, <1>11
<1> HIDE DEF z, o, l
<1>14. \A t \in All : Counted(r.sock[t], z.sock[t]) BY <1>1, <1>13
<1>15. Wired(r, z, c)
  <2>1. Kept(r, z) BY <1>14 DEF Kept, Counted
  <2>2. \A t \in All : \A j \in DOMAIN z.mail[t] : Known(r, t, z.mail[t][j]) BY <1>13 DEF Known
  <2>3. \A t \in All : /\ z.sock[t].pipes = r.sock[t].pipes /\ z.sock[t].inprocs = r.sock[t].inprocs
                       /\ z.sock[t].life = r.sock[t].life /\ z.sock[t].terminating = r.sock[t].terminating
    BY <1>14 DEF Counted
  <2> QED BY <1>12, <1>13, <2>1, <2>2, <2>3 DEF Wired
<1>16. Held(z, c)
  <2>1. Held(r, c) BY <1>4 DEF OfConn
  <2>2. \A t \in All : t # Null /\ z.sock[t].pipes = r.sock[t].pipes BY <1>14, Names DEF Counted
  <2>3. \A t \in All : <<c, "b">> \notin r.sock[t].pipes BY <2>1, <2>2 DEF Held
  <2> QED BY <1>12, <2>1, <2>2, <2>3 DEF Held
<1>17. Bound(z.conn[c], c, b)
  <2>1. Late(z.conn[c], c, "b") = l BY DEF Late, l
  <2> QED BY <1>12, <2>1 DEF Bound, h, o
<1> QED BY <1>5, <1>12, <1>13, <1>14, <1>15, <1>16, <1>17 DEF z

\* The command bind goes to the socket that is bound.
LEMMA BindFacts ==
  ASSUME NEW r \in States, NEW c \in Connecting, NEW b \in All,
         r.conn[c].made, r.conn[c].binder = b
  PROVE  LET z == Send(r, b, Cmd("bind", c, "b"))
         IN  Wired(r, z, c) /\ z.conn = r.conn /\ z.sock = r.sock
<1> DEFINE m == Cmd("bind", c, "b")
           z == Send(r, b, m)
<1>1. m \in Commands /\ m.type = "bind" /\ m.conn = c /\ m.end = "b"
  BY DEF Cmd, Commands, Types, Ends
<1> HIDE DEF m
<1>2. /\ z \in States /\ z.sock = r.sock /\ z.conn = r.conn
      /\ z.mail[b] = Append(r.mail[b], m) /\ \A t \in All : t # b => z.mail[t] = r.mail[t]
  BY <1>1, SendFacts
<1> HIDE DEF z
<1>3. ASSUME NEW t \in All, NEW i \in DOMAIN z.mail[t]
      PROVE  Known(r, t, z.mail[t][i]) \/ (t = b /\ z.mail[t][i] = m)
  <2>1. r.mail[b] \in Seq(Commands) BY DEF States
  <2>2. CASE t = b
    <3>1. z.mail[t][i] = m \/ (i \in DOMAIN r.mail[t] /\ z.mail[t][i] = r.mail[t][i])
      BY <1>1, <1>2, <2>1, <2>2
    <3> QED BY <2>2, <3>1 DEF Known
  <2>3. CASE t # b BY <1>2, <2>3 DEF Known
  <2> QED BY <2>2, <2>3
<1>4. Wired(r, z, c) BY <1>1, <1>2, <1>3 DEF Wired, Kept
<1> QED BY <1>2, <1>4 DEF z, m

\* ctx_t::connect_inproc_sockets, run by the socket that binds.
LEMMA BindSideFine ==
  ASSUME NEW r \in States, NEW rd \in Reads, Fine(r, rd), NEW c \in Connecting, NEW b \in All,
         options \in [All -> Option], r.conn[c].made, r.conn[c].binder = Null,
         ~r.sock[b].terminating
  PROVE  LET z == ConnectBindSide(r, c, b)
         IN  Fine(z, rd) /\ Wired(r, z, c) /\ z.conn[c].made /\ z.conn[c].binder = b
<1> DEFINE a == AdoptEnd(r, c, b, "bind_side")
           t == AttachPipe(a, b, c, "b")
           u == process_seqnum(t, b)
           m == Cmd("inproc_connected", c, "c")
           v == Send(u, c, m)
           z == ConnectBindSide(r, c, b)
<1>1. /\ Wired(r, a, c) /\ Held(a, c) /\ Bound(a.conn[c], c, b)
      /\ \A k \in All : Counted(r.sock[k], a.sock[k])
      /\ a.conn[c].side = "bind_side" /\ a.conn[c].ends["c"].in = << >>
      /\ \A e \in Ends : rd[c][e] = << >>
  BY AdoptFacts
<1>2. z = SendIdentity(v, c) BY DEF ConnectBindSide
<1> HIDE DEF a
<1>3. a \in States /\ ~a.sock[b].terminating /\ a.conn[c].made /\ a.conn[c].binder = b
  BY <1>1 DEF Wired, Counted, Bound
<1>4. /\ t \in States /\ Held(t, c) /\ Wired(a, t, c) /\ SameLink(a.conn[c], t.conn[c])
      /\ ~options[b].probe_router /\ b # Temporary => t.conn = a.conn
      /\ Grown(a.conn[c].ends["b"].in, t.conn[c].ends["b"].in)
  BY <1>1, <1>3, AttachFacts DEF Ends
<1> HIDE DEF t
<1>5. Soft(t, u) /\ u.conn = t.conn BY <1>4, SoftSeqnum
<1>6. u \in States /\ Held(u, c) /\ Wired(t, u, c)
  BY <1>4, <1>5, HeldFacts, SoftWired DEF Soft, Mild
<1> HIDE DEF u
<1>7. c \in All /\ m \in Plain /\ m \in Commands BY Names, PlainFacts DEF Ends
<1> HIDE DEF m
<1>8. Soft(u, v) /\ v.conn = u.conn BY <1>6, <1>7, SoftSend, SendFacts
<1> HIDE DEF v
<1>9. Held(v, c) /\ Wired(u, v, c) BY <1>6, <1>8, HeldFacts, SoftWired
<1>10. Wired(r, t, c) BY <1>1, <1>4, WiredTrans
<1>11. Wired(r, u, c) BY <1>6, <1>10, WiredTrans
<1>12. Wired(r, v, c) BY <1>9, <1>11, WiredTrans
<1>13. Bound(t.conn[c], c, b)
  <2>1. \A e \in Ends : Late(t.conn[c], c, e) = Late(a.conn[c], c, e) BY <1>4, LateSame
  <2>2. ~Late(t.conn[c], c, "b") => First(t.conn[c].ends["b"].in, << >>, options[b].recv_identity)
    <3>1. a.conn[c].ends["b"].in \in Seq(Items) /\ t.conn[c].ends["b"].in \in Seq(Items)
      BY <1>3, <1>4, QueueType DEF Ends
    <3>2. << >> \in Seq(Items) OBVIOUS
    <3>3. ~Late(a.conn[c], c, "b") => First(a.conn[c].ends["b"].in, << >>, options[b].recv_identity)
      BY <1>1 DEF Bound
    <3> QED BY <1>4, <2>1, <3>1, <3>2, <3>3, GrownFirst DEF Ends
  <2>3. ~Late(t.conn[c], c, "c") => t.conn[c].ends["c"].in = << >>
    <3>1. t.conn[c].side = "bind_side" /\ t.conn[c].binder = b BY <1>1, <1>3, <1>4 DEF SameLink
    <3>2. ~Late(t.conn[c], c, "c") => ~options[b].probe_router /\ b # Temporary BY <3>1 DEF Late
    <3> QED BY <1>1, <1>4, <3>2
  <2>4. t.conn[c].made /\ t.conn[c].binder = b /\ t.conn[c].hwms = PipeHwms(c, b)
    BY <1>1, <1>4 DEF SameLink, Bound
  <2> QED BY <2>2, <2>3, <2>4 DEF Bound
<1>14. Bound(v.conn[c], c, b) BY <1>5, <1>8, <1>13
<1> QED BY <1>1, <1>2, <1>9, <1>12, <1>14, GreetFacts

\* The same, run by the socket that connects, up to the command bind.
LEMMA ConnectSideFine ==
  ASSUME NEW r \in States, NEW rd \in Reads, Fine(r, rd), NEW c \in Connecting, NEW b \in All,
         options \in [All -> Option], r.conn[c].made, r.conn[c].binder = Null
  PROVE  LET z == ConnectConnectSide(r, c, b)
         IN  /\ Fine(z, rd) /\ Wired(r, z, c) /\ z.conn[c].made /\ z.conn[c].binder = b
             /\ z.conn[c].side = "connect_side"
<1> DEFINE a == AdoptEnd(r, c, b, "connect_side")
           z == ConnectConnectSide(r, c, b)
<1>1. /\ Wired(r, a, c) /\ Held(a, c) /\ Bound(a.conn[c], c, b)
      /\ a.conn[c].side = "connect_side" /\ a.conn[c].ends["c"].in = << >>
      /\ \A e \in Ends : rd[c][e] = << >>
  BY AdoptFacts
<1>2. z = Send(a, b, Cmd("bind", c, "b")) BY DEF ConnectConnectSide
<1> HIDE DEF a, z
<1>3. a \in States /\ a.conn[c].made /\ a.conn[c].binder = b BY <1>1 DEF Wired, Bound
<1>4. Wired(a, z, c) /\ z.conn = a.conn /\ z.sock = a.sock BY <1>2, <1>3, BindFacts
<1>5. Wired(r, z, c) BY <1>1, <1>4, WiredTrans
<1>6. OfConn(z, rd, c)
  <2>1. Held(z, c) BY <1>1, <1>4, HeldFacts DEF SameLink
  <2>2. Agreed(z.conn[c], c) BY <1>1, <1>3, <1>4 DEF Agreed, Bound
  <2>3. rd[c]["b"] = << >> /\ rd[c]["c"] = << >> /\ b # Null BY <1>1, Names DEF Ends
  <2>4. Written(z.conn[c], rd[c]["b"], c, "b")
    <3>1. Expects(z.conn[c], c, "b") = options[b].recv_identity BY <1>3, <1>4, <2>3 DEF Expects, Option
    <3> QED BY <1>1, <1>3, <1>4, <2>3, <3>1 DEF Written, Bound
  <2>5. Written(z.conn[c], rd[c]["c"], c, "c")
    <3>1. ~Late(z.conn[c], c, "c") => Expects(z.conn[c], c, "c") = FALSE
      BY <1>1, <1>4 DEF Late, Expects
    <3>2. First(<< >>, << >>, FALSE) BY DEF First
    <3> QED BY <1>1, <1>3, <1>4, <2>3, <3>1, <3>2 DEF Written
  <2> QED BY <2>1, <2>2, <2>4, <2>5 DEF OfConn, Ends
<1>7. Fine(z, rd) BY <1>5, <1>6, WiredFine
<1> QED BY <1>1, <1>3, <1>4, <1>5, <1>7 DEF z

\* socket_base_t::connect, of an endpoint that was found.
LEMMA FoundFine ==
  ASSUME NEW r \in States, NEW rd \in Reads, Fine(r, rd), NEW c \in Connecting, NEW b \in All,
         options \in [All -> Option], ~r.conn[c].made, ~r.sock[c].terminating
  PROVE  LET a == AttachPipe(Pipepair(r, c, b, PipeHwms(c, b)), c, c, "c")
             x == IF options[b].recv_identity THEN MustWrite(a, c, "c", "identity") ELSE a
             y == SendIdentity([x EXCEPT !.conn[c].binder = b, !.conn[c].side = "found"], c)
             z == Send(y, b, Cmd("bind", c, "b"))
         IN  Fine(z, rd) /\ Wired(r, z, c)
<1> DEFINE h == PipeHwms(c, b)
           o == options[b].recv_identity
           a == AttachPipe(Pipepair(r, c, b, h), c, c, "c")
           x == IF o THEN MustWrite(a, c, "c", "identity") ELSE a
           l == options[c].probe_router
           p == [x.conn[c] EXCEPT !.binder = b, !.side = "found"]
           w == [x EXCEPT !.conn[c] = p]
           y == SendIdentity(w, c)
           z == Send(y, b, Cmd("bind", c, "b"))
<1>1. h \in Limits /\ b # Null /\ o \in BOOLEAN BY HwmsType, Names DEF Option
<1> HIDE DEF h
<1>2. /\ a \in States /\ Wired(r, a, c) /\ Held(a, c)
      /\ \A e \in Ends : rd[c][e] = << >>
  BY <1>1, PairFacts
<1>3. /\ a.conn[c].made /\ a.conn[c].binder = Null /\ a.conn[c].hwms = h
      /\ (~l => a.conn[c].ends["b"].in = << >>) /\ a.conn[c].ends["c"].in = << >>
  BY <1>1, PairFacts
<1> HIDE DEF a, l
<1>4. /\ Wired(a, x, c) /\ x.sock = a.sock /\ SameLink(a.conn[c], x.conn[c])
      /\ ~l => x.conn[c].ends["b"].in = IF o THEN << "identity" >> ELSE << >>
      /\ x.conn[c].ends["c"].in = << >>
  <2>1. "c" \in Ends /\ Other("c") = "b" BY DEF Ends, Other
  <2>2. CASE o
    <3> DEFINE t == MustWrite(a, c, "c", "identity")
    <3>1. /\ Wired(a, t, c) /\ t.sock = a.sock /\ SameLink(a.conn[c], t.conn[c])
          /\ t.conn[c].ends[Other("c")].in = Append(a.conn[c].ends[Other("c")].in, "identity")
          /\ t.conn[c].ends["c"].in = a.conn[c].ends["c"].in
      BY <1>2, <2>1, MustWriteFacts
    <3>2. x = t BY <2>2
    <3>3. Append(<< >>, "identity") = << "identity" >> OBVIOUS
    <3> HIDE DEF t, x
    <3> QED BY <1>3, <2>1, <2>2, <3>1, <3>2, <3>3
  <2>3. CASE ~o
    <3>1. x = a BY <2>3
    <3>2. Wired(a, a, c) BY <1>2, SoftSame, SoftWired
    <3> HIDE DEF x
    <3> QED BY <1>3, <2>3, <3>1, <3>2 DEF SameLink
  <2> QED BY <2>2, <2>3
<1> HIDE DEF x
<1>5. Wired(r, x, c) /\ Held(x, c) /\ x \in States
  <2>1. Wired(r, x, c) BY <1>2, <1>4, WiredTrans
  <2> QED BY <1>2, <1>4, <2>1, HeldFacts DEF Wired
<1>6. x.conn[c] \in Pipe /\ x.conn[c].made /\ x.conn[c].binder = Null /\ x.conn[c].hwms = h
  BY <1>3, <1>4, <1>5 DEF States, SameLink
<1>7. /\ p \in Pipe /\ p.made /\ p.binder = b /\ p.hwms = h /\ p.ends = x.conn[c].ends
      /\ p.side = "found"
  BY <1>6 DEF Pipe, Sides
<1> HIDE DEF p
<1>8. ConnEdit(x, w, c, p) BY <1>5, <1>7, ConnStep
<1>9. /\ w \in States /\ w.sock = x.sock /\ w.mail = x.mail /\ w.conn[c] = p
      /\ \A d \in Connecting : d # c => w.conn[d] = x.conn[d]
  <2> HIDE DEF w
  <2> QED BY <1>8 DEF ConnEdit
<1>10. Wired(x, w, c)
  <2> HIDE DEF w
  <2>1. Kept(x, w) BY <1>9 DEF Kept
  <2>2. \A t \in All : \A i \in DOMAIN w.mail[t] : Known(x, t, w.mail[t][i]) BY <1>9 DEF Known
  <2> QED BY <1>6, <1>7, <1>9, <2>1, <2>2 DEF Wired
<1>11. Held(w, c)
  <2> HIDE DEF w
  <2>1. \A t \in All : t # Null BY Names
  <2>2. \A t \in All : <<c, "b">> \notin x.sock[t].pipes BY <1>5, <1>6, <2>1 DEF Held
  <2> QED BY <1>5, <1>7, <1>9, <2>2 DEF Held
<1>12. Bound(w.conn[c], c, b)
  <2> HIDE DEF w
  <2>1. ~l => First(x.conn[c].ends["b"].in, << >>, o)
    <3> HIDE DEF o
    <3>1. First(IF o THEN << "identity" >> ELSE << >>, << >>, o) BY <1>1, FirstStart
    <3> QED BY <1>4, <3>1
  <2>2. Late(w.conn[c], c, "b") = l BY DEF Late, l
  <2> QED BY <1>4, <1>7, <1>9, <2>1, <2>2 DEF Bound, h, o
<1>13. Wired(r, w, c) BY <1>5, <1>10, WiredTrans
<1>14. Fine(y, rd) /\ Wired(r, y, c) /\ y.conn[c].made /\ y.conn[c].binder = b
  <2> HIDE DEF w
  <2> QED BY <1>2, <1>11, <1>12, <1>13, GreetFacts
<1>15. y = SendIdentity([x EXCEPT !.conn[c].binder = b, !.conn[c].side = "found"], c) BY DEF p
<1> HIDE DEF w, y
<1>16. y \in States BY <1>14 DEF Wired
<1>17. Wired(y, z, c) /\ z.conn = y.conn /\ z.sock = y.sock BY <1>14, <1>16, BindFacts
<1>18. z = Send(SendIdentity([x EXCEPT !.conn[c].binder = b, !.conn[c].side = "found"], c), b,
                Cmd("bind", c, "b"))
  BY <1>15
<1> HIDE DEF z
<1>19. Wired(r, z, c) BY <1>14, <1>17, WiredTrans
<1>20. OfConn(y, rd, c) BY <1>14 DEF Fine
<1>21. OfConn(z, rd, c) BY <1>17, <1>20 DEF OfConn, Held
<1>22. Fine(z, rd) BY <1>14, <1>16, <1>17, <1>21, WiredFine
<1> QED BY <1>18, <1>19, <1>22 DEF x, a, h, o

\* ctx_t::pend_connection, up to the identity that is always sent.
LEMMA UnboundFine ==
  ASSUME NEW r \in States, NEW rd \in Reads, Fine(r, rd), NEW c \in Connecting, NEW h \in Limits,
         ~r.conn[c].made, ~r.sock[c].terminating
  PROVE  LET z == MustWrite(AttachPipe(Pipepair(r, c, c, h), c, c, "c"), c, "c", "identity")
         IN  Fine(z, rd) /\ Wired(r, z, c) /\ z.conn[c].made /\ z.conn[c].binder = Null
<1> DEFINE a == AttachPipe(Pipepair(r, c, c, h), c, c, "c")
           z == MustWrite(a, c, "c", "identity")
<1>1. c \in All /\ "c" \in Ends /\ Other("c") = "b" BY Names DEF Ends, Other
<1>2. /\ a \in States /\ Wired(r, a, c) /\ Held(a, c)
      /\ \A e \in Ends : rd[c][e] = << >>
  BY <1>1, PairFacts
<1> DEFINE l == options[c].probe_router
<1>3. /\ a.conn[c].made /\ a.conn[c].binder = Null /\ a.conn[c].ends["b"].in \in Seq(Items)
      /\ (~l => a.conn[c].ends["b"].in = << >>) /\ a.conn[c].ends["c"].in = << >>
  BY <1>1, PairFacts
<1> HIDE DEF a, l
<1>4. /\ Wired(a, z, c) /\ z.sock = a.sock /\ SameLink(a.conn[c], z.conn[c])
      /\ z.conn[c].ends[Other("c")].in = Append(a.conn[c].ends[Other("c")].in, "identity")
      /\ z.conn[c].ends["c"].in = a.conn[c].ends["c"].in
  BY <1>1, <1>2, MustWriteFacts
<1> HIDE DEF z
<1>5. /\ ~l => z.conn[c].ends["b"].in = << "identity" >>
      /\ z.conn[c].ends["b"].in # << >> /\ z.conn[c].ends["c"].in = << >>
  <2>1. Append(<< >>, "identity") = << "identity" >> OBVIOUS
  <2>2. \A q \in Seq(Items) : Append(q, "identity") # << >> OBVIOUS
  <2> QED BY <1>1, <1>3, <1>4, <2>1, <2>2
<1>6. z.conn[c].made /\ z.conn[c].binder = Null BY <1>3, <1>4 DEF SameLink
<1>7. Wired(r, z, c) BY <1>2, <1>4, WiredTrans
<1>8. OfConn(z, rd, c)
  <2>1. Held(z, c) BY <1>2, <1>4, HeldFacts
  <2>2. Agreed(z.conn[c], c) BY <1>6 DEF Agreed
  <2>3. Written(z.conn[c], rd[c]["b"], c, "b")
    <3>1. rd[c]["b"] = << >> BY <1>2 DEF Ends
    <3>2. Expects(z.conn[c], c, "b") = TRUE BY <1>6 DEF Expects
    <3>3. ~Late(z.conn[c], c, "b") => First(z.conn[c].ends["b"].in, << >>, TRUE)
      BY <1>5 DEF First, Late, l
    <3> QED BY <1>5, <1>6, <3>1, <3>2, <3>3 DEF Written
  <2>4. Written(z.conn[c], rd[c]["c"], c, "c")
    <3>1. rd[c]["c"] = << >> BY <1>2 DEF Ends
    <3>2. Expects(z.conn[c], c, "c") = FALSE BY <1>6 DEF Expects
    <3>3. First(z.conn[c].ends["c"].in, << >>, FALSE) BY <1>5 DEF First
    <3> QED BY <1>5, <3>1, <3>2, <3>3 DEF Written
  <2> QED BY <2>1, <2>2, <2>3, <2>4 DEF OfConn, Ends
<1> QED BY <1>6, <1>7, <1>8, WiredFine DEF z, a
-----------------------------------------------------------------------------
(* The state. *)

\* The fields of the state.
LEMMA StateFacts ==
  State.sock = sock /\ State.mail = mail /\ State.conn = conn /\ State.crash = crash
  BY DEF State
\* The state after a step that assigns the fields of r2.
LEMMA StateNext ==
  ASSUME NEW r2 \in States, Update(r2)
  PROVE  State' = r2
  BY DEF State, Update, States

\* The invariant reads the options only.
LEMMA FineNext ==
  ASSUME NEW r2, State' = r2, options' = options, Fine(r2, read')
  PROVE  Fine(State, read)'
<1>1. ASSUME NEW c \in Connecting PROVE OfConn(State, read, c)'
  <2>1. OfConn(r2, read', c) BY DEF Fine
  <2>2. Held(State, c)' BY <2>1 DEF OfConn, Held
  <2>3. Agreed(State.conn[c], c)' BY <2>1 DEF OfConn, Agreed, PipeHwms
  <2>4. \A e \in Ends : Written(State.conn[c], read[c][e], c, e)'
    BY <2>1 DEF OfConn, Written, Expects, First, Late
  <2> QED BY <2>2, <2>3, <2>4 DEF OfConn
<1>2. ASSUME NEW s \in All PROVE OfSock(State, s)'
  <2>1. OfSock(r2, s) BY DEF Fine
  <2> QED BY <2>1 DEF OfSock, Proper
<1> QED BY <1>1, <1>2 DEF Fine

\* A step that assigns the fields of r2, by what it has to keep.
LEMMA Lift ==
  ASSUME NEW r2 \in States, Update(r2), options \in [All -> Option], options' = options,
         read' \in Reads, Fine(r2, read'),
         pc' \in [All -> Doing], endpoint' \in All \cup {Null}, pending' \in SUBSET Connecting,
         \A s \in All : pc'[s] # "idle" => r2.sock[s].life = "open",
         \A s \in All : pc'[s] \in All \cup {"unbound"} => s \in Connecting /\ ~r2.conn[s].made,
         \A s \in All : pc'[s] = "greeting" => Greets(s, r2.conn),
         \A c \in pending' : r2.conn[c].made /\ r2.conn[c].binder = Null
  PROVE  IInv'
<1>1. State' = r2 BY StateNext
<1>2. Fine(State, read)' BY <1>1, FineNext
<1>3. sock' = r2.sock /\ conn' = r2.conn BY DEF Update
<1>4. TypeOK' BY <1>1 DEF TypeOK
<1>5. Calling' BY <1>3 DEF Calling, Greets
<1>6. Waits' BY <1>3 DEF Waits
<1> QED BY <1>2, <1>4, <1>5, <1>6 DEF IInv

\* What the invariant says of the state.
LEMMA Known0 ==
  ASSUME IInv
  PROVE  /\ State \in States /\ Fine(State, read) /\ read \in Reads /\ options \in [All -> Option]
         /\ pc \in [All -> Doing] /\ endpoint \in All \cup {Null} /\ pending \in SUBSET Connecting
         /\ \A s \in All : pc[s] # "idle" => sock[s].life = "open"
         /\ \A s \in All : pc[s] \in All \cup {"unbound"} => s \in Connecting /\ ~conn[s].made
         /\ \A s \in All : pc[s] = "greeting" => Greets(s, conn)
         /\ \A c \in pending : conn[c].made /\ conn[c].binder = Null
         /\ \A s \in All : sock[s].life = "open" => ~sock[s].terminating
<1>1. \A s \in All : OfSock(State, s) BY DEF IInv, Fine
<1>2. \A s \in All : sock[s].life = "open" => ~sock[s].terminating BY <1>1, StateFacts DEF OfSock
<1> QED BY <1>2 DEF IInv, TypeOK, Calling, Waits

\* A step that leaves the calls and the links alone.
LEMMA LiftKept ==
  ASSUME IInv, NEW r2 \in States, Update(r2), Fine(r2, read), Kept(State, r2),
         \A c \in Connecting : SameLink(conn[c], r2.conn[c]),
         UNCHANGED <<options, read, pc, pending>>, endpoint' \in All \cup {Null}
  PROVE  IInv'
<1>1. \A s \in All : pc[s] # "idle" => r2.sock[s].life = "open"
  BY Known0, StateFacts DEF Kept
<1>2. \A s \in All : pc[s] \in All \cup {"unbound"} => s \in Connecting /\ ~r2.conn[s].made
  BY Known0 DEF SameLink
<1>3. \A c \in pending : r2.conn[c].made /\ r2.conn[c].binder = Null BY Known0 DEF SameLink
<1>4. \A s \in All : pc[s] = "greeting" => Greets(s, r2.conn) BY Known0 DEF SameLink, Greets
<1> QED BY <1>1, <1>2, <1>3, <1>4, Known0, Lift

\* A mild step.
LEMMA LiftSoft ==
  ASSUME IInv, NEW r2, Update(r2), Soft(State, r2),
         UNCHANGED <<options, read, pc, pending>>, endpoint' \in All \cup {Null}
  PROVE  IInv'
<1>1. r2 \in States /\ Mild(State, r2) /\ Kept(State, r2) BY DEF Soft, Mild
<1>2. Fine(r2, read) BY <1>1, Known0, MildFine
<1>3. \A c \in Connecting : SameLink(conn[c], r2.conn[c]) BY <1>1, StateFacts DEF Mild
<1> QED BY <1>1, <1>2, <1>3, LiftKept

\* A step of a call that makes or binds connection c.
LEMMA LiftWired ==
  ASSUME IInv, NEW r2, Update(r2), NEW c \in Connecting, Fine(r2, read), Wired(State, r2, c),
         UNCHANGED <<options, read, endpoint>>, NEW s \in All, pc[s] # "idle",
         NEW d \in {"idle", "connecting", "greeting"}, pc' = [pc EXCEPT ![s] = d],
         d = "greeting" => Greets(s, r2.conn), conn[c].binder = Null,
         conn[c].made \/ s = c, pending' \in SUBSET Connecting,
         pending' \ {c} \subseteq pending, c \in pending' => r2.conn[c].made /\ r2.conn[c].binder = Null
  PROVE  IInv'
<1>1. r2 \in States /\ Kept(State, r2) /\ \A b \in Connecting : b # c => r2.conn[b] = conn[b]
  BY StateFacts DEF Wired
<1>2. pc' \in [All -> Doing] BY Known0 DEF Doing
<1>3. \A t \in All : pc[t] # "idle" => r2.sock[t].life = "open" BY <1>1, Known0, StateFacts DEF Kept
<1>4. \A t \in All : pc'[t] # "idle" => r2.sock[t].life = "open" BY <1>3, Known0
<1>5. ASSUME NEW t \in All, pc'[t] \in All \cup {"unbound"}
      PROVE  t \in Connecting /\ ~r2.conn[t].made
  <2>1. t # s BY <1>5, Known0, Names
  <2>2. pc'[t] = pc[t] BY <2>1, Known0
  <2>3. t \in Connecting /\ ~conn[t].made BY <1>5, <2>2, Known0
  <2>4. t # c BY <2>1, <2>3
  <2> QED BY <1>1, <2>3, <2>4
<1>6. \A b \in pending' : r2.conn[b].made /\ r2.conn[b].binder = Null BY <1>1, Known0
<1>7. ASSUME NEW t \in All, pc'[t] = "greeting" PROVE Greets(t, r2.conn)
  <2>1. CASE t = s
    <3>1. d = "greeting" BY <1>7, <2>1, Known0
    <3> QED BY <2>1, <3>1
  <2>2. CASE t # s
    <3>1. Greets(t, conn) BY <1>7, <2>2, Known0
    <3>2. t \in Connecting /\ t # c BY <3>1 DEF Greets
    <3> QED BY <1>1, <3>1, <3>2 DEF Greets
  <2> QED BY <2>1, <2>2
<1> QED BY <1>1, <1>2, <1>4, <1>5, <1>6, <1>7, Known0, Lift

\* What is not made is not bound.
LEMMA NotBound ==
  ASSUME IInv, NEW c \in Connecting, ~conn[c].made
  PROVE  conn[c].binder = Null
<1>1. OfConn(State, read, c) BY Known0 DEF Fine
<1> QED BY <1>1, StateFacts DEF OfConn, Agreed
-----------------------------------------------------------------------------
(* The steps. *)

\* The constants are what the invariant needs, and nothing is connected at first.
LEMMA InitStep == Init => IInv
<1> SUFFICES ASSUME Init PROVE IInv OBVIOUS
<1>1. PairOptions \in Option /\ Options \subseteq Option
  BY InprocAssumption DEF PairOptions, Option
<1>2. options \in [All -> Option] BY <1>1 DEF Init
<1>3. Born \in Socket /\ Absent \in Socket
  <2>1. Born \in Socket BY DEF Born, Socket, Lives
  <2>2. \A y \in Socket : [y EXCEPT !.life = "absent"] \in Socket BY DEF Socket, Lives
  <2> QED BY <2>1, <2>2 DEF Absent
<1>4. ASSUME NEW c \in Connecting
      PROVE  NoConn(c) \in Pipe /\ ~NoConn(c).made /\ NoConn(c).binder = Null
             /\ \A e \in Ends : NoConn(c).ends[e].in = << >>
  <2> DEFINE h == [snd |-> 0, rcv |-> 0]
             x == Conn(c, c, h)
  <2>1. h \in Limits /\ c \in All BY Names DEF Limits
  <2>2. x \in Pipe /\ x.binder = Null /\ \A e \in Ends : x.ends[e].in = << >>
    <3> HIDE DEF h
    <3> QED BY <2>1, ConnType
  <2>3. NoConn(c) = [x EXCEPT !.made = FALSE] BY DEF NoConn
  <2> HIDE DEF x
  <2> QED BY <2>2, <2>3 DEF Pipe
<1>5. State \in States
  <2>1. sock \in [All -> Socket] BY <1>3 DEF Init
  <2>2. mail \in [All -> Seq(Commands)] BY DEF Init
  <2>3. conn \in [Connecting -> Pipe] BY <1>4 DEF Init
  <2>4. crash \in Crashes BY DEF Init, Crashes
  <2> QED BY <2>1, <2>2, <2>3, <2>4 DEF State, States
<1>6. /\ read \in Reads /\ pc \in [All -> Doing] /\ endpoint \in All \cup {Null}
      /\ pending \in SUBSET Connecting
  BY DEF Init, Reads, Doing
<1>7. \A c \in Connecting : ~conn[c].made /\ conn[c].binder = Null
                            /\ \A e \in Ends : conn[c].ends[e].in = << >> /\ read[c][e] = << >>
  BY <1>4 DEF Init
<1>8. \A s \in All : sock[s].pipes = {} /\ sock[s].inprocs = {} /\ ~sock[s].terminating /\ mail[s] = << >>
  <2>1. /\ Born.pipes = {} /\ Born.inprocs = {} /\ Born.terminating = FALSE
        /\ Absent.pipes = {} /\ Absent.inprocs = {} /\ Absent.terminating = FALSE
    BY DEF Born, Absent
  <2>2. \A s \in All : sock[s] = Born \/ sock[s] = Absent BY DEF Init
  <2> QED BY <2>1, <2>2 DEF Init
<1>9. ASSUME NEW c \in Connecting PROVE OfConn(State, read, c)
  <2>1. Held(State, c) BY <1>8, StateFacts DEF Held
  <2>2. Agreed(conn[c], c) BY <1>7 DEF Agreed
  <2>3. \A e \in Ends : Expects(conn[c], c, e) = FALSE BY <1>7 DEF Expects
  <2>4. First(<< >>, << >>, FALSE) BY DEF First
  <2>5. \A e \in Ends : Written(conn[c], read[c][e], c, e) BY <1>7, <2>3, <2>4 DEF Written
  <2> QED BY <2>1, <2>2, <2>5, StateFacts DEF OfConn
<1>10. \A s \in All : OfSock(State, s) BY <1>8, StateFacts DEF OfSock
<1>11. Fine(State, read) BY <1>9, <1>10 DEF Fine
<1>12. Calling
  <2>1. \A s \in All : pc[s] = "idle" BY DEF Init
  <2> QED BY <2>1, Names DEF Calling
<1>13. Waits BY DEF Init, Waits
<1> QED BY <1>2, <1>5, <1>6, <1>11, <1>12, <1>13 DEF IInv, TypeOK

\* socket_base_t::bind.
LEMMA BindRegisterStep ==
  ASSUME IInv, NEW s \in All, BindRegister(s)
  PROVE  IInv'
<1>1. Update(State) BY StateFacts DEF BindRegister, Update
<1>2. /\ UNCHANGED <<options, read, pending>> /\ endpoint' = s /\ sock[s].life = "open"
      /\ pc' = [pc EXCEPT ![s] = "connect_pending"]
  BY DEF BindRegister, Calls
<1>3. \A t \in All : pc'[t] = pc[t] \/ (t = s /\ pc'[t] = "connect_pending") BY <1>2, Known0
<1>4. pc' \in [All -> Doing] BY <1>2, Known0 DEF Doing
<1>5. /\ \A t \in All : pc'[t] # "idle" => State.sock[t].life = "open"
      /\ \A t \in All : pc'[t] \in All \cup {"unbound"} => t \in Connecting /\ ~State.conn[t].made
      /\ \A t \in All : pc'[t] = "greeting" => Greets(t, State.conn)
      /\ \A c \in pending' : State.conn[c].made /\ State.conn[c].binder = Null
  BY <1>2, <1>3, Known0, StateFacts, Names
<1> QED BY <1>1, <1>2, <1>4, <1>5, Known0, Lift

\* The first part of socket_base_t::connect.
LEMMA FindEndpointStep ==
  ASSUME IInv, NEW s \in Connecting, FindEndpoint(s)
  PROVE  IInv'
<1> DEFINE d == IF endpoint = Null THEN "unbound" ELSE endpoint
           r2 == IF endpoint = Null THEN State ELSE inc_seqnum(State, endpoint)
<1>1. /\ Update(r2) /\ UNCHANGED <<options, read, pending, endpoint>> /\ pc' = [pc EXCEPT ![s] = d]
      /\ sock[s].life = "open" /\ ~conn[s].made /\ s \in All
  BY Names DEF FindEndpoint, Calls
<1>2. d \in All \cup {"unbound"} BY Known0
<1>3. Soft(State, r2) BY Known0, SoftSame, SoftInc
<1> HIDE DEF d, r2
<1>4. r2 \in States /\ Mild(State, r2) /\ Kept(State, r2) BY <1>3 DEF Soft, Mild
<1>5. Fine(r2, read) BY <1>4, Known0, MildFine
<1>6. \A c \in Connecting : SameLink(conn[c], r2.conn[c]) BY <1>4, StateFacts DEF Mild
<1>7. \A t \in All : pc'[t] = pc[t] \/ t = s BY <1>1, Known0
<1>8. pc' \in [All -> Doing] BY <1>1, <1>2, Known0 DEF Doing
<1>9. \A t \in All : pc'[t] # "idle" => r2.sock[t].life = "open"
  <2>1. \A t \in All : pc'[t] # "idle" => sock[t].life = "open" BY <1>1, <1>7, Known0
  <2> QED BY <1>4, <2>1, Known0, StateFacts DEF Kept
<1>10. \A t \in All : pc'[t] \in All \cup {"unbound"} => t \in Connecting /\ ~r2.conn[t].made
  <2>1. \A t \in All : pc'[t] \in All \cup {"unbound"} => t \in Connecting /\ ~conn[t].made
    BY <1>1, <1>7, Known0
  <2> QED BY <1>6, <2>1 DEF SameLink
<1>11. \A c \in pending' : r2.conn[c].made /\ r2.conn[c].binder = Null
  BY <1>1, <1>6, Known0 DEF SameLink
<1>12. ASSUME NEW t \in All, pc'[t] = "greeting" PROVE Greets(t, r2.conn)
  <2>1. pc[t] = "greeting" BY <1>1, <1>2, <1>7, <1>12, Known0, Names
  <2> QED BY <1>6, <2>1, Known0 DEF SameLink, Greets
<1> QED BY <1>1, <1>4, <1>5, <1>8, <1>9, <1>10, <1>11, <1>12, Known0, Lift

\* The rest of it, of an endpoint that was found.
LEMMA ConnectFoundStep ==
  ASSUME IInv, NEW s \in Connecting, ConnectFound(s)
  PROVE  IInv'
<1> DEFINE b == pc[s]
           a == AttachPipe(Pipepair(State, s, b, PipeHwms(s, b)), s, s, "c")
           x == IF options[b].recv_identity THEN MustWrite(a, s, "c", "identity") ELSE a
           y == SendIdentity([x EXCEPT !.conn[s].binder = b, !.conn[s].side = "found"], s)
           z == Send(y, b, Cmd("bind", s, "b"))
<1>1. /\ Update(z) /\ UNCHANGED <<options, endpoint, pending, read>>
      /\ pc' = [pc EXCEPT ![s] = "idle"] /\ b \in All /\ s \in All
  BY Names DEF ConnectFound
<1>2. pc[s] # "idle" /\ ~conn[s].made /\ ~sock[s].terminating BY <1>1, Known0, Names
<1>3. Fine(z, read) /\ Wired(State, z, s) BY <1>1, <1>2, Known0, StateFacts, FoundFine
<1> HIDE DEF z
<1>4. s \notin pending' BY <1>1, <1>2, Known0
<1>5. conn[s].binder = Null BY <1>2, NotBound
<1> QED BY <1>1, <1>2, <1>3, <1>4, <1>5, Known0, LiftWired

\* The rest of it, with nobody bound before.
LEMMA ConnectUnboundStep ==
  ASSUME IInv, NEW s \in Connecting, ConnectUnbound(s)
  PROVE  IInv'
<1> DEFINE h == [snd |-> options[s].sndhwm, rcv |-> options[s].rcvhwm]
           r == MustWrite(AttachPipe(Pipepair(State, s, s, h), s, s, "c"), s, "c", "identity")
           z1 == inc_seqnum(r, s)
           z2 == ConnectConnectSide(r, s, endpoint)
           d == IF endpoint # Null /\ options[s].recv_identity THEN "greeting" ELSE "idle"
<1>1. /\ \/ /\ endpoint = Null /\ Update(z1) /\ pending' = pending \cup {s}
         \/ /\ endpoint # Null /\ Update(z2) /\ pending' = pending
      /\ UNCHANGED <<options, endpoint, read>>
      /\ pc' = [pc EXCEPT ![s] = d] /\ pc[s] = "unbound" /\ s \in All
  BY Names DEF ConnectUnbound
<1>2. pc[s] # "idle" /\ ~conn[s].made /\ ~sock[s].terminating BY <1>1, Known0
<1>3. h \in Limits BY <1>1, Known0 DEF Limits, Option
<1> HIDE DEF h
<1>4. /\ Fine(r, read) /\ Wired(State, r, s) /\ r.conn[s].made /\ r.conn[s].binder = Null
  BY <1>2, <1>3, Known0, StateFacts, UnboundFine
<1> HIDE DEF r
<1>5. r \in States BY <1>4 DEF Wired
<1>6. CASE endpoint = Null /\ Update(z1) /\ pending' = pending \cup {s}
  <2>1. Soft(r, z1) /\ z1.conn = r.conn BY <1>1, <1>5, SoftInc, IncFacts
  <2> HIDE DEF z1
  <2>2. Fine(z1, read) /\ Wired(r, z1, s) BY <1>4, <1>5, <2>1, Known0, MildFine, SoftWired DEF Soft
  <2>3. Wired(State, z1, s) BY <1>4, <2>2, Known0, WiredTrans
  <2>4. pending' \in SUBSET Connecting /\ pending' \ {s} \subseteq pending BY <1>6, Known0
  <2>5. z1.conn[s].made /\ z1.conn[s].binder = Null BY <1>4, <2>1
  <2>6. conn[s].binder = Null /\ d = "idle" BY <1>2, <1>6, NotBound
  <2> HIDE DEF d
  <2> QED BY <1>1, <1>2, <1>6, <2>2, <2>3, <2>4, <2>5, <2>6, LiftWired
<1>7. CASE endpoint # Null /\ Update(z2) /\ pending' = pending
  <2>1. endpoint \in All BY <1>7, Known0
  <2>2. /\ Fine(z2, read) /\ Wired(r, z2, s) /\ z2.conn[s].made /\ z2.conn[s].binder = endpoint
        /\ z2.conn[s].side = "connect_side"
    BY <1>4, <1>5, <2>1, Known0, ConnectSideFine
  <2> HIDE DEF z2
  <2>3. Wired(State, z2, s) BY <1>4, <2>2, Known0, WiredTrans
  <2>4. s \notin pending' BY <1>2, <1>7, Known0
  <2>5. pending' \in SUBSET Connecting /\ pending' \ {s} \subseteq pending BY <1>7, Known0
  <2>6. conn[s].binder = Null /\ d \in {"idle", "greeting"} BY <1>2, NotBound
  <2>7. d = "greeting" => Greets(s, z2.conn) BY <1>7, <2>2 DEF Greets
  <2> HIDE DEF d
  <2> QED BY <1>1, <1>2, <1>7, <2>2, <2>3, <2>4, <2>5, <2>6, <2>7, LiftWired
<1> QED BY <1>1, <1>6, <1>7

\* What the queue of the connecter may hold when the identity is written.
LEMMA GreetedType ==
  ASSUME NEW q \in Seq(Items)
  PROVE  Greeted(q) \subseteq Seq(Items)
<1>1. "identity" \in Items /\ "garbage" \in Items BY DEF Items
<1>2. \A p \in Seq(Items) : \A m \in Items : Append(p, m) \in Seq(Items) OBVIOUS
<1>3. <<"identity">> \in Seq(Items) BY <1>1
<1>4. CASE q = << >> BY <1>3, <1>4 DEF Greeted
<1>5. CASE q # << >>
  <2>1. Front(q) \in Seq(Items) BY <1>5 DEF Front
  <2> QED BY <1>1, <1>2, <1>5, <2>1 DEF Greeted
<1> QED BY <1>4, <1>5

\* The end of ctx_t::connect_inproc_sockets in the thread of the connecter.
LEMMA ConnectGreetingStep ==
  ASSUME IInv, NEW s \in Connecting, ConnectGreeting(s)
  PROVE  IInv'
<1>1. PICK q \in Greeted(conn[s].ends["c"].in) :
        Update(Expect([State EXCEPT !.conn[s].ends["c"].in = q, !.conn[s].side = GreetedSide(s)],
                      check_write(State, s, "b"), "write"))
  BY DEF ConnectGreeting
<1>2. /\ UNCHANGED <<options, endpoint, pending, read>> /\ pc[s] = "greeting" /\ s \in All
      /\ pc' = [pc EXCEPT ![s] = "idle"]
  BY Names DEF ConnectGreeting
<1> DEFINE g == GreetedSide(s)
           w == [conn[s].ends["c"] EXCEPT !.in = q]
           x == [conn[s] EXCEPT !.ends["c"] = w, !.side = g]
           y == [State EXCEPT !.conn[s] = x]
           z == Expect(y, check_write(State, s, "b"), "write")
<1>3. State \in States /\ State.conn = conn /\ State.sock = sock /\ "c" \in Ends
  BY Known0, StateFacts DEF Ends
<1>4. conn[s] \in Pipe /\ conn[s].ends["c"] \in EndState /\ q \in Seq(Items) /\ g \in Sides
  BY <1>3, QueueType, GreetedType DEF GreetedSide, Sides
<1>5. w \in EndState /\ w.in = q BY <1>4 DEF EndState
<1>6. [State EXCEPT !.conn[s].ends["c"].in = q, !.conn[s].side = g] = y BY <1>3
<1> HIDE DEF w, g
<1>7. /\ x \in Pipe /\ x.ends["b"] = conn[s].ends["b"] /\ x.ends["c"] = w /\ x.side = g
      /\ x.made = conn[s].made /\ x.binder = conn[s].binder /\ x.hwms = conn[s].hwms
  BY <1>3, <1>4, <1>5 DEF Pipe, Ends
<1> HIDE DEF x
<1>8. ConnEdit(State, y, s, x) BY <1>3, <1>7, ConnStep
<1>9. Update(z) BY <1>1, <1>6 DEF g
<1> HIDE DEF y
<1>10. /\ y \in States /\ y.mail = mail /\ y.sock = sock /\ y.conn[s] = x
       /\ \A d \in Connecting : d # s => y.conn[d] = conn[d]
  BY <1>8, StateFacts DEF ConnEdit
<1>11. z \in States /\ z.mail = mail /\ z.sock = sock /\ z.conn = y.conn
  BY <1>10, ExpectFacts DEF Crashes
<1> HIDE DEF z
<1>12. \A d \in Connecting : /\ z.conn[d].made = conn[d].made /\ z.conn[d].binder = conn[d].binder
                             /\ d # s => z.conn[d].side = conn[d].side
  BY <1>7, <1>10, <1>11
<1>13. Wired(State, z, s)
  <2>1. Kept(State, z) BY <1>3, <1>11 DEF Kept
  <2>2. \A t \in All : \A i \in DOMAIN z.mail[t] : Known(State, t, z.mail[t][i])
    BY <1>11, StateFacts DEF Known
  <2> QED BY <1>3, <1>10, <1>11, <1>12, <2>1, <2>2 DEF Wired
<1>14. OfConn(z, read, s)
  <2>1. OfConn(State, read, s) BY Known0 DEF Fine
  <2>2. z.conn[s] = x /\ z.sock = State.sock BY <1>3, <1>10, <1>11
  <2>3. Held(z, s) BY <1>3, <1>7, <2>1, <2>2 DEF Held, OfConn
  <2>4. Agreed(z.conn[s], s) BY <1>3, <1>7, <2>1, <2>2 DEF OfConn, Agreed
  <2>5. Greets(s, conn) BY <1>2, Known0
  <2>6. Written(x, read[s]["b"], s, "b")
    <3>1. Written(conn[s], read[s]["b"], s, "b") BY <1>3, <2>1 DEF OfConn, Ends
    <3> QED BY <1>7, <3>1 DEF Written, Expects, Late
  <2>7. Written(x, read[s]["c"], s, "c")
    <3>1. x.made /\ x.binder # Null /\ Expects(x, s, "c") = TRUE BY <1>7, <2>5 DEF Greets, Expects
    <3>2. CASE conn[s].ends["c"].in = << >> /\ read[s]["c"] = << >>
      <4>1. x.ends["c"].in = << "identity" >> BY <1>1, <1>5, <1>7, <3>2 DEF Greeted
      <4>2. First(<< "identity" >>, << >>, TRUE) BY FirstStart
      <4> QED BY <3>1, <3>2, <4>1, <4>2 DEF Written
    <3>3. CASE ~(conn[s].ends["c"].in = << >> /\ read[s]["c"] = << >>)
      <4>1. Late(x, s, "c") BY <1>7, <2>5, <3>3 DEF g, GreetedSide, Greets, Late
      <4> QED BY <3>1, <4>1 DEF Written
    <3> QED BY <3>2, <3>3
  <2> QED BY <2>2, <2>3, <2>4, <2>6, <2>7 DEF OfConn, Ends
<1>15. Fine(z, read) BY <1>3, <1>13, <1>14, Known0, WiredFine
<1>16. \A t \in All : pc'[t] = IF t = s THEN "idle" ELSE pc[t] BY <1>2, Known0
<1>17. pc' \in [All -> Doing] BY <1>2, Known0 DEF Doing
<1>18. \A t \in All : pc'[t] # "idle" => z.sock[t].life = "open" BY <1>11, <1>16, Known0
<1>19. \A t \in All : pc'[t] \in All \cup {"unbound"} => t \in Connecting /\ ~z.conn[t].made
  <2>1. \A t \in All : pc'[t] \in All \cup {"unbound"} => t \in Connecting /\ ~conn[t].made
    BY <1>16, Known0, Names
  <2> QED BY <1>12, <2>1
<1>20. \A t \in All : pc'[t] = "greeting" => Greets(t, z.conn)
  BY <1>12, <1>16, Known0 DEF Greets
<1>21. \A c \in pending' : z.conn[c].made /\ z.conn[c].binder = Null
  BY <1>2, <1>12, Known0
<1> QED BY <1>2, <1>9, <1>11, <1>15, <1>17, <1>18, <1>19, <1>20, <1>21, Known0, Lift

\* ctx_t::connect_pending.
LEMMA ConnectPendingStep ==
  ASSUME IInv, NEW s \in All, ConnectPending(s)
  PROVE  IInv'
<1>1. /\ UNCHANGED <<options, endpoint, read>> /\ pc[s] # "idle"
      /\ \/ Update(State) /\ pending' = pending /\ pc' = [pc EXCEPT ![s] = "idle"]
         \/ \E c \in pending :
              /\ Update(ConnectBindSide(State, c, s)) /\ pending' = pending \ {c}
              /\ pc' = [pc EXCEPT ![s] = IF pending' = {} THEN "idle" ELSE "connecting"]
  BY StateFacts DEF ConnectPending, Update
<1>2. CASE Update(State) /\ pending' = pending /\ pc' = [pc EXCEPT ![s] = "idle"]
  <2>1. \A t \in All : pc'[t] = pc[t] \/ pc'[t] = "idle" BY <1>2, Known0
  <2>2. pc' \in [All -> Doing] BY <1>2, Known0 DEF Doing
  <2>3. /\ \A t \in All : pc'[t] # "idle" => State.sock[t].life = "open"
        /\ \A t \in All : pc'[t] \in All \cup {"unbound"} => t \in Connecting /\ ~State.conn[t].made
        /\ \A t \in All : pc'[t] = "greeting" => Greets(t, State.conn)
        /\ \A c \in pending' : State.conn[c].made /\ State.conn[c].binder = Null
    BY <1>2, <2>1, Known0, StateFacts, Names
  <2> QED BY <1>1, <1>2, <2>2, <2>3, Known0, Lift
<1>3. CASE \E c \in pending :
              /\ Update(ConnectBindSide(State, c, s)) /\ pending' = pending \ {c}
              /\ pc' = [pc EXCEPT ![s] = IF pending' = {} THEN "idle" ELSE "connecting"]
  <2>1. PICK c \in pending :
              /\ Update(ConnectBindSide(State, c, s)) /\ pending' = pending \ {c}
              /\ pc' = [pc EXCEPT ![s] = IF pending' = {} THEN "idle" ELSE "connecting"]
    BY <1>3
  <2> DEFINE z == ConnectBindSide(State, c, s)
             d == IF pending' = {} THEN "idle" ELSE "connecting"
  <2>2. c \in Connecting /\ conn[c].made /\ conn[c].binder = Null /\ ~sock[s].terminating
    BY <1>1, Known0
  <2>3. Fine(z, read) /\ Wired(State, z, c) BY <2>2, Known0, StateFacts, BindSideFine
  <2>4. Update(z) /\ d \in {"idle", "connecting"} /\ pc' = [pc EXCEPT ![s] = d] BY <2>1
  <2>5. pending' \in SUBSET Connecting /\ pending' \ {c} \subseteq pending /\ c \notin pending'
    BY <2>1, Known0
  <2> HIDE DEF z, d
  <2> QED BY <1>1, <2>2, <2>3, <2>4, <2>5, LiftWired
<1> QED BY <1>1, <1>2, <1>3

\* socket_base_t::term_endpoint.
LEMMA TermEndpointStep ==
  ASSUME IInv, NEW s \in All, TermEndpoint(s)
  PROVE  IInv'
<1>1. UNCHANGED <<options, read, pc, pending>> BY DEF TermEndpoint, Other5
<1>2. CASE endpoint = s /\ endpoint' = Null /\ UNCHANGED <<sock, mail, conn, crash>>
  <2>1. Update(State) BY <1>2, StateFacts DEF Update
  <2>2. Soft(State, State) BY Known0, SoftSame
  <2> QED BY <1>1, <1>2, <2>1, <2>2, LiftSoft
<1>3. CASE /\ sock[s].inprocs # {} /\ endpoint' = endpoint
           /\ Update(TerminatePipe([State EXCEPT !.sock[s].inprocs = {}], s, "c", TRUE))
  <2> DEFINE y == [sock[s] EXCEPT !.inprocs = {}]
             r == [State EXCEPT !.sock[s] = y]
             P == {<<s, "c">>}
             z == TerminatePipes(r, P, TRUE)
  <2>1. TerminatePipe([State EXCEPT !.sock[s].inprocs = {}], s, "c", TRUE) = z
    BY StateFacts DEF TerminatePipe
  <2>2. State \in States /\ sock[s] \in Socket BY Known0, StateFacts DEF States
  <2>3. y \in Socket /\ Less(sock[s], y) /\ y.life = sock[s].life /\ y.terminating = sock[s].terminating
    BY <2>2 DEF Socket, Less
  <2> HIDE DEF y
  <2>4. SockEdit(State, r, s, y) BY <2>2, <2>3, StateFacts, SockStep
  <2> HIDE DEF r
  <2>5. Soft(State, r) /\ r \in States /\ r.conn = conn
    BY <2>2, <2>3, <2>4, StateFacts, SoftSock DEF SockEdit
  <2>6. s \in Connecting /\ conn[s].made
    <3>1. OfSock(State, s) BY Known0 DEF Fine
    <3> QED BY <1>3, <3>1, StateFacts DEF OfSock
  <2>7. P \in SUBSET (Connecting \X Ends) /\ \A p \in P : Writer(r.conn[p[1]], p[2])
    BY <2>5, <2>6 DEF Writer, Ends
  <2> HIDE DEF P
  <2>8. Soft(r, z) BY <2>5, <2>7, SoftTerminate
  <2>9. Update(z) BY <1>3, <2>1
  <2> HIDE DEF z
  <2>10. Soft(State, z) BY <2>2, <2>5, <2>8, SoftTrans
  <2> QED BY <1>1, <1>3, <2>9, <2>10, Known0, LiftSoft
<1> QED BY <1>2, <1>3 DEF TermEndpoint

\* socket_base_t::send.
LEMMA SendMessageStep ==
  ASSUME IInv, NEW s \in All, NEW c \in Connecting, NEW e \in Ends, SendMessage(s, c, e)
  PROVE  IInv'
<1> DEFINE z == Write(State, c, e, "message")
<1>1. /\ Update(z) /\ UNCHANGED <<options, read, pc, pending, endpoint>>
      /\ <<c, e>> \in sock[s].pipes
  BY DEF SendMessage, Other5
<1>2. Writer(conn[c], e)
  <2>1. Held(State, c) BY Known0 DEF Fine, OfConn
  <2>2. s # Null BY Names
  <2> QED BY <1>1, <2>1, <2>2, StateFacts DEF Held, Writer, Ends
<1>3. Soft(State, z) BY <1>2, Known0, StateFacts, SoftWrite DEF Items
<1> HIDE DEF z
<1> QED BY <1>1, <1>3, Known0, LiftSoft

\* One socket changes, mildly but for closing.
LEMMA MildSock ==
  ASSUME NEW r \in States, NEW s \in All, NEW y \in Socket, Less(r.sock[s], y),
         NEW r2, SockEdit(r, r2, s, y)
  PROVE  Mild(r, r2)
<1>1. /\ r2 \in States /\ r2.mail = r.mail /\ r2.conn = r.conn
      /\ r2.sock[s] = y /\ \A t \in All : t # s => r2.sock[t] = r.sock[t]
  BY DEF SockEdit
<1>2. \A d \in Connecting, e \in Ends : Grown(r.conn[d].ends[e].in, r.conn[d].ends[e].in)
  BY QueueType, GrownFacts
<1>3. \A t \in All : Less(r.sock[t], r.sock[t]) BY DEF Less
<1>4. \A t \in All : Less(r.sock[t], r2.sock[t]) BY <1>1, <1>3
<1> QED BY <1>1, <1>2, <1>4 DEF Mild, SameLink, Known

\* The closing of a socket that is in no call.
LEMMA ClosedFacts ==
  ASSUME IInv, NEW s \in All, pc[s] = "idle", sock' = [sock EXCEPT ![s].life = "closed"],
         UNCHANGED <<options, pending, read, pc, mail, endpoint, conn, crash>>
  PROVE  IInv'
<1> DEFINE y == [sock[s] EXCEPT !.life = "closed"]
           r == [State EXCEPT !.sock[s] = y]
<1>1. State \in States /\ sock[s] \in Socket BY Known0, StateFacts DEF States
<1>2. y \in Socket /\ Less(sock[s], y) BY <1>1 DEF Socket, Lives, Less
<1>3. r.sock = sock' /\ r.mail = mail /\ r.conn = conn /\ r.crash = crash BY DEF State
<1> HIDE DEF y
<1>4. SockEdit(State, r, s, y) BY <1>1, <1>2, StateFacts, SockStep
<1> HIDE DEF r
<1>5. Mild(State, r) /\ r \in States BY <1>1, <1>2, <1>4, StateFacts, MildSock DEF SockEdit
<1>6. Fine(r, read) BY <1>5, Known0, MildFine
<1>7. Update(r) BY <1>3 DEF Update
<1>8. \A t \in All : pc[t] # "idle" => r.sock[t].life = "open"
  BY <1>4, Known0, StateFacts DEF SockEdit
<1>9. r.conn = conn BY <1>3
<1> QED BY <1>5, <1>6, <1>7, <1>8, <1>9, Known0, Lift

\* socket_base_t::close.
LEMMA CloseStep ==
  ASSUME IInv, NEW s \in All, Close(s)
  PROVE  IInv'
  BY ClosedFacts DEF Close, Other5

\* reaper_t::process_reap.
LEMMA ReapStep ==
  ASSUME IInv, NEW s \in All, Reap(s)
  PROVE  IInv'
<1> DEFINE n == Cardinality(sock[s].pipes)
           y == [sock[s] EXCEPT !.life = "reaping", !.terminating = TRUE, !.term_acks = n]
           r == [State EXCEPT !.sock[s] = y]
           P == sock[s].pipes
           t == TerminatePipes(r, P, FALSE)
           z == CheckTermAcks(t, s)
<1>1. State \in States /\ sock[s] \in Socket /\ P \in SUBSET (Connecting \X Ends)
  BY Known0, StateFacts DEF States, Socket
<1>2. n \in Nat
  <2>1. IsFiniteSet(Connecting \X Ends)
    <3>1. IsFiniteSet({"c"}) BY FS_Singleton
    <3>2. IsFiniteSet({"c"} \cup {"b"}) BY <3>1, FS_AddElement
    <3>3. Ends = {"c"} \cup {"b"} BY DEF Ends
    <3>4. IsFiniteSet(Ends) BY <3>2, <3>3
    <3> QED BY <3>4, Names, FS_Product
  <2>2. IsFiniteSet(P) BY <1>1, <2>1, FS_Subset
  <2> QED BY <2>2, FS_CardinalityType
<1>3. Update(z)
  <2> DEFINE u == [State EXCEPT !.sock[s].life = "reaping", !.sock[s].terminating = TRUE,
                                !.sock[s].term_acks = n]
  <2>1. u = r BY <1>1 DEF State, States, Socket
  <2>2. Update(CheckTermAcks(TerminatePipes(u, P, FALSE), s)) BY DEF Reap
  <2> HIDE DEF u, r, n
  <2> QED BY <2>1, <2>2
<1>4. sock[s].life = "closed" /\ UNCHANGED <<options, read, pc, pending>>
      /\ endpoint' \in All \cup {Null}
  BY Known0 DEF Reap, Other5, UnregisterEndpoints
<1> HIDE DEF n
<1>5. y \in Socket /\ Less(sock[s], y)
  <2>1. \A v \in Socket : /\ [v EXCEPT !.life = "reaping"] \in Socket
                          /\ [v EXCEPT !.terminating = TRUE] \in Socket
                          /\ [v EXCEPT !.term_acks = n] \in Socket
    <3> SUFFICES ASSUME NEW v \in Socket
                 PROVE  /\ [v EXCEPT !.life = "reaping"] \in Socket
                        /\ [v EXCEPT !.terminating = TRUE] \in Socket
                        /\ [v EXCEPT !.term_acks = n] \in Socket
      OBVIOUS
    <3>1. [v EXCEPT !.life = "reaping"] \in Socket BY DEF Socket, Lives
    <3>2. [v EXCEPT !.terminating = TRUE] \in Socket BY DEF Socket
    <3>3. n \in Int BY <1>2
    <3>4. [v EXCEPT !.term_acks = n] \in Socket BY <3>3 DEF Socket
    <3> QED BY <3>1, <3>2, <3>4
  <2>2. y = [[[sock[s] EXCEPT !.life = "reaping"] EXCEPT !.terminating = TRUE] EXCEPT !.term_acks = n]
    OBVIOUS
  <2>3. y \in Socket BY <1>1, <2>1, <2>2
  <2>4. y.life = "reaping" /\ y.pipes = sock[s].pipes /\ y.inprocs = sock[s].inprocs
    BY <1>1 DEF Socket
  <2> HIDE DEF y
  <2> QED BY <2>3, <2>4 DEF Less
<1> HIDE DEF y
<1>6. SockEdit(State, r, s, y) BY <1>1, <1>5, StateFacts, SockStep
<1> HIDE DEF r
<1>7. Soft(State, r) /\ r \in States /\ r.conn = conn
  BY <1>1, <1>4, <1>5, <1>6, StateFacts, SoftSock DEF SockEdit
<1>8. \A p \in P : Writer(r.conn[p[1]], p[2])
  <2> SUFFICES ASSUME NEW p \in P PROVE Writer(conn[p[1]], p[2]) BY <1>7
  <2>1. PICK c \in Connecting, e \in Ends : p = <<c, e>> BY <1>1
  <2>2. Held(State, c) BY Known0 DEF Fine, OfConn
  <2>3. s # Null BY Names
  <2> QED BY <2>1, <2>2, <2>3, StateFacts DEF Held, Writer, Ends
<1> HIDE DEF P
<1>9. FALSE \in BOOLEAN OBVIOUS
<1>10. Soft(r, t) BY <1>1, <1>7, <1>8, <1>9, SoftTerminate
<1>11. t \in States BY <1>10 DEF Soft, Mild
<1> HIDE DEF t
<1>12. Soft(t, z) BY <1>11, SoftCheck
<1> HIDE DEF z
<1>13. Soft(State, t) BY <1>1, <1>7, <1>10, SoftTrans
<1>14. Soft(State, z) BY <1>1, <1>12, <1>13, SoftTrans
<1> QED BY <1>3, <1>4, <1>14, LiftSoft

\* The head of a mailbox is taken.
LEMMA SoftPop ==
  ASSUME NEW r \in States, NEW s \in All, r.mail[s] # << >>, NEW r2,
         r2 = [r EXCEPT !.mail[s] = Tail(@)]
  PROVE  /\ Soft(r, r2) /\ r2.conn = r.conn /\ r2.sock = r.sock
         /\ Head(r.mail[s]) = r.mail[s][1] /\ 1 \in DOMAIN r.mail[s] /\ Head(r.mail[s]) \in Commands
<1> DEFINE q == r.mail[s]
           f == [r.mail EXCEPT ![s] = Tail(q)]
<1>1. q \in Seq(Commands) BY DEF States
<1>2. /\ Tail(q) \in Seq(Commands) /\ Head(q) = q[1] /\ 1 \in DOMAIN q /\ Head(q) \in Commands
      /\ \A i \in DOMAIN Tail(q) : i + 1 \in DOMAIN q /\ Tail(q)[i] = q[i + 1]
  BY <1>1
<1>3. f \in [All -> Seq(Commands)] BY <1>2 DEF States
<1>4. f[s] = Tail(q) /\ \A t \in All : t # s => f[t] = r.mail[t] BY DEF States
<1>5. r2 = [r EXCEPT !.mail = f] OBVIOUS
<1> HIDE DEF f
<1>6. r2 \in States /\ r2.mail = f /\ r2.sock = r.sock /\ r2.conn = r.conn
  <2> DEFINE z == [r EXCEPT !.mail = f]
  <2>1. z \in States /\ z.mail = f /\ z.sock = r.sock /\ z.conn = r.conn BY <1>3, WithMail
  <2>2. r2 = z BY <1>5
  <2> HIDE DEF z
  <2> QED BY <2>1, <2>2, Zenon
<1>7. ASSUME NEW t \in All, NEW i \in DOMAIN r2.mail[t] PROVE Known(r, t, r2.mail[t][i])
  <2>1. CASE t = s
    <3>1. i + 1 \in DOMAIN q /\ r2.mail[t][i] = q[i + 1] BY <1>2, <1>4, <1>6, <2>1
    <3> QED BY <2>1, <3>1 DEF Known
  <2>2. CASE t # s BY <1>4, <1>6, <2>2 DEF Known
  <2> QED BY <2>1, <2>2
<1>8. Soft(r, r) BY SoftSame
<1>9. Soft(r, r2) BY <1>6, <1>7, <1>8 DEF Soft, Mild, Kept
<1> QED BY <1>2, <1>6, <1>9 DEF q

\* object_t::process_command.
LEMMA ProcessCommandStep ==
  ASSUME IInv, NEW s \in All, ProcessCommand(s)
  PROVE  IInv'
<1> DEFINE m == Head(mail[s])
           r == [State EXCEPT !.mail[s] = Tail(@)]
           z == process_command(r, s, m)
<1>1. Update(z) /\ UNCHANGED <<options, read, pc, pending, endpoint>> /\ mail[s] # << >>
  BY DEF ProcessCommand, Other5
<1>2. /\ Soft(State, r) /\ r.conn = conn /\ r.sock = sock
      /\ m = mail[s][1] /\ 1 \in DOMAIN mail[s] /\ m \in Commands
  BY <1>1, Known0, StateFacts, SoftPop
<1>3. Proper(State, s, m)
  <2>1. OfSock(State, s) BY Known0 DEF Fine
  <2> QED BY <1>2, <2>1, StateFacts DEF OfSock
<1>4. r \in States /\ Fine(r, read) BY <1>2, Known0, MildFine DEF Soft, Mild
<1> HIDE DEF r, m
<1>5. CASE m.type # "bind"
  <2>1. m.type # "stop" => m.conn \in Connecting /\ m.end \in Ends BY <1>3 DEF Proper
  <2>2. Soft(r, z) BY <1>2, <1>4, <1>5, <2>1, SoftCommand
  <2> HIDE DEF z
  <2>3. Soft(State, z) BY <1>2, <2>2, Known0, SoftTrans
  <2> QED BY <1>1, <2>3, Known0, LiftSoft
<1>6. CASE m.type = "bind"
  <2> DEFINE c == m.conn
             a == AttachPipe(r, s, c, "b")
  <2>1. c \in Connecting /\ m.end = "b" /\ conn[c].made /\ conn[c].binder = s
    BY <1>3, <1>6, StateFacts DEF Proper
  <2>2. z = process_seqnum(a, s) BY <1>6, <2>1 DEF process_command
  <2> HIDE DEF c, z
  <2>3. OfConn(r, read, c) BY <1>4, <2>1 DEF Fine
  <2>4. /\ a \in States /\ Held(a, c) /\ SameLink(r.conn[c], a.conn[c]) /\ Wired(r, a, c)
        /\ \A f \in Ends : /\ Grown(r.conn[c].ends[f].in, a.conn[c].ends[f].in)
                           /\ a.conn[c].ends[f].in = r.conn[c].ends[f].in \/ Writer(r.conn[c], Other(f))
    BY <1>2, <1>4, <2>1, <2>3, AttachFacts DEF Ends, OfConn
  <2> HIDE DEF a
  <2>5. OfConn(a, read, c)
    <3>1. Agreed(a.conn[c], c) BY <2>3, <2>4 DEF OfConn, Agreed, SameLink
    <3>2. ASSUME NEW f \in Ends PROVE Written(a.conn[c], read[c][f], c, f)
      <4>1. Written(r.conn[c], read[c][f], c, f) BY <2>3 DEF OfConn
      <4>2. read[c][f] \in Seq(Items) BY <2>1, Known0 DEF Reads
      <4> QED BY <1>4, <2>1, <2>4, <4>1, <4>2, GrownWritten
    <3> QED BY <2>4, <3>1, <3>2 DEF OfConn
  <2>6. Fine(a, read) BY <1>4, <2>1, <2>4, <2>5, Known0, WiredFine
  <2>7. Soft(a, z) BY <2>2, <2>4, SoftSeqnum
  <2>8. z \in States /\ Fine(z, read) BY <2>4, <2>6, <2>7, Known0, MildFine DEF Soft, Mild
  <2>9. Kept(State, z)
    <3>1. Kept(State, r) /\ Kept(r, a) /\ Kept(a, z) BY <1>2, <2>4, <2>7 DEF Soft, Wired
    <3> QED BY <3>1 DEF Kept
  <2>10. ASSUME NEW d \in Connecting PROVE SameLink(conn[d], z.conn[d])
    <3>1. SameLink(r.conn[d], a.conn[d])
      <4>1. CASE d = c BY <2>4, <4>1
      <4>2. CASE d # c BY <2>4, <4>2 DEF Wired, SameLink
      <4> QED BY <4>1, <4>2
    <3>2. SameLink(a.conn[d], z.conn[d]) BY <2>7 DEF Soft, Mild
    <3> QED BY <1>2, <3>1, <3>2 DEF SameLink
  <2> QED BY <1>1, <2>8, <2>9, <2>10, Known0, LiftKept
<1> QED BY <1>5, <1>6

\* socket_base_t::check_destroy.
LEMMA CheckDestroyStep ==
  ASSUME IInv, NEW s \in All, CheckDestroy(s)
  PROVE  IInv'
<1> DEFINE y == [sock[s] EXCEPT !.life = "deleted"]
           r == [State EXCEPT !.sock[s] = y]
           ok == \A i \in DOMAIN mail[s] : mail[s][i].type = "stop"
           z == Expect(r, ok, "deleted")
<1>1. State \in States /\ sock[s] \in Socket BY Known0, StateFacts DEF States
<1>2. Update(z) /\ UNCHANGED <<options, read, pc, pending, endpoint>> /\ sock[s].life = "destroyed"
  BY StateFacts DEF CheckDestroy, Other5
<1>3. y \in Socket /\ Less(sock[s], y) BY <1>1 DEF Socket, Lives, Less
<1> HIDE DEF y, ok
<1>4. SockEdit(State, r, s, y) BY <1>1, <1>3, StateFacts, SockStep
<1> HIDE DEF r
<1>5. Soft(State, r) /\ r \in States
  BY <1>1, <1>2, <1>3, <1>4, StateFacts, SoftSock DEF SockEdit
<1>6. Soft(r, z) BY <1>5, SoftExpect DEF Crashes
<1> HIDE DEF z
<1>7. Soft(State, z) BY <1>1, <1>5, <1>6, SoftTrans
<1> QED BY <1>2, <1>7, Known0, LiftSoft

\* The head of a queue is read: the first is an identity if one is expected.
LEMMA ReadFacts ==
  ASSUME NEW q \in Seq(Items), NEW done \in Seq(Items), NEW x \in BOOLEAN, q # << >>, First(q, done, x)
  PROVE  /\ Head(q) \in Items /\ Tail(q) \in Seq(Items) /\ Append(done, Head(q)) \in Seq(Items)
         /\ First(Tail(q), Append(done, Head(q)), x)
         /\ Head(q) = "delimiter" => First(Tail(q), done, x)
<1>1. /\ Head(q) \in Items /\ Tail(q) \in Seq(Items) /\ Head(q) = q[1] /\ 1 \in DOMAIN q
      /\ \A i \in DOMAIN Tail(q) : i \in Nat \ {0} /\ i + 1 \in DOMAIN q /\ Tail(q)[i] = q[i + 1]
  OBVIOUS
<1> DEFINE a == Append(done, Head(q))
<1>2. /\ a \in Seq(Items) /\ a # << >> /\ Len(done) \in Nat
      /\ \A i \in DOMAIN a : \/ i \in DOMAIN done /\ a[i] = done[i]
                             \/ i = Len(done) + 1 /\ a[i] = Head(q)
  <2>1. a \in Seq(Items) /\ Len(a) = Len(done) + 1 /\ Len(done) \in Nat BY <1>1
  <2>2. DOMAIN a = 1..Len(done) + 1 /\ DOMAIN done = 1..Len(done) BY <2>1
  <2>3. a[Len(done) + 1] = Head(q) /\ \A i \in 1..Len(done) : a[i] = done[i] BY <1>1
  <2> HIDE DEF a
  <2>4. a # << >> BY <2>1
  <2> QED BY <2>1, <2>2, <2>3, <2>4
<1> HIDE DEF a
<1>3. \A i \in DOMAIN Tail(q) : Tail(q)[i] # "identity"
  BY <1>1 DEF First
<1>4. \A i \in DOMAIN a : a[i] = "identity" <=> i = 1 /\ x
  <2> SUFFICES ASSUME NEW i \in DOMAIN a PROVE a[i] = "identity" <=> i = 1 /\ x OBVIOUS
  <2>1. CASE i \in DOMAIN done /\ a[i] = done[i] BY <2>1 DEF First
  <2>2. CASE i = Len(done) + 1 /\ a[i] = Head(q)
    <3>1. q[1] = "identity" <=> x /\ done = << >> BY <1>1 DEF First
    <3>2. i = 1 <=> done = << >> BY <1>2, <2>2
    <3> QED BY <1>1, <2>2, <3>1, <3>2
  <2> QED BY <1>2, <2>1, <2>2
<1>5. First(Tail(q), a, x) BY <1>2, <1>3, <1>4 DEF First
<1>6. Head(q) = "delimiter" => First(Tail(q), done, x)
  <2> SUFFICES ASSUME Head(q) = "delimiter" PROVE First(Tail(q), done, x) OBVIOUS
  <2>1. ~(x /\ done = << >>) BY <1>1 DEF First
  <2> QED BY <1>3, <2>1 DEF First
<1> QED BY <1>1, <1>2, <1>5, <1>6 DEF a

\* Item m is taken from a queue and, in rd2, read.
Taken(r, rd, r2, rd2, m, c, e) ==
    /\ r.conn[c].ends[e].in # << >> /\ m = Head(r.conn[c].ends[e].in)
    /\ r2 = [r EXCEPT !.conn[c].ends[e].in = Tail(@)]
    /\ rd2 = [rd EXCEPT ![c][e] = Append(@, m)]
\* The invariant is kept, and so it is with a delimiter that is not read.
LEMMA TakeFine ==
  ASSUME NEW r \in States, NEW rd \in Reads, Fine(r, rd), NEW s \in All, NEW c \in Connecting,
         NEW e \in Ends, <<c, e>> \in r.sock[s].pipes, options \in [All -> Option],
         NEW r2, NEW rd2, NEW m, Taken(r, rd, r2, rd2, m, c, e)
  PROVE  /\ r2 \in States /\ Kept(r, r2)
         /\ \A d \in Connecting : SameLink(r.conn[d], r2.conn[d])
         /\ m = "delimiter" => Fine(r2, rd)
         /\ rd2 \in Reads /\ Fine(r2, rd2)
<1> DEFINE q == r.conn[c].ends[e].in
           w == [r.conn[c].ends[e] EXCEPT !.in = Tail(q)]
           x == [r.conn[c] EXCEPT !.ends[e] = w]
           p == Append(rd[c][e], m)
           k == Expects(r.conn[c], c, e)
           l == Late(r.conn[c], c, e)
<1>1. r.conn[c] \in Pipe /\ r.conn[c].ends[e] \in EndState /\ q \in Seq(Items) BY QueueType
<1>2. OfConn(r, rd, c) /\ rd[c][e] \in Seq(Items) BY DEF Fine, Reads
<1>3. Written(r.conn[c], rd[c][e], c, e) BY <1>2 DEF OfConn
<1>4. k \in BOOLEAN
  <2>1. c \in All /\ r.conn[c].binder \in All \cup {Null} BY <1>1, Names DEF Pipe
  <2> QED BY <1>1, <2>1 DEF Expects, Pipe, Option
<1>5. /\ m \in Items /\ Tail(q) \in Seq(Items) /\ p \in Seq(Items)
      /\ ~l => First(Tail(q), p, k) /\ (m = "delimiter" => First(Tail(q), rd[c][e], k))
  <2>1. q # << >> /\ (~l => First(q, rd[c][e], k)) BY <1>3 DEF Written, Taken
  <2>2. m = Head(q) BY DEF Taken
  <2> HIDE DEF q, k, l
  <2>3. m \in Items /\ Tail(q) \in Seq(Items) BY <1>1, <2>1, <2>2
  <2>4. p \in Seq(Items) BY <1>2, <2>3
  <2> QED BY <1>1, <1>2, <1>4, <2>1, <2>2, <2>3, <2>4, ReadFacts
<1>6. r.conn[c].made /\ (e = "c" => r.conn[c].binder # Null) BY <1>3 DEF Written, Taken
<1>7. r.conn[c].binder # Null
  <2>1. s # Null BY Names
  <2> QED BY <1>2, <1>6, <2>1 DEF OfConn, Held, Ends
<1>8. w \in EndState /\ w.in = Tail(q) BY <1>1, <1>5 DEF EndState
<1>9. r2 = [r EXCEPT !.conn[c] = x] BY DEF Taken
<1> HIDE DEF w
<1>10. /\ x \in Pipe /\ SameLink(r.conn[c], x) /\ x.ends[e] = w
       /\ \A f \in Ends : f # e => x.ends[f] = r.conn[c].ends[f]
  BY <1>1, <1>8 DEF Pipe, SameLink
<1> HIDE DEF x
<1>11. ConnEdit(r, r2, c, x) BY <1>9, <1>10, ConnStep
<1>12. /\ r2 \in States /\ r2.mail = r.mail /\ r2.sock = r.sock /\ r2.conn[c] = x
       /\ \A d \in Connecting : d # c => r2.conn[d] = r.conn[d]
  BY <1>11 DEF ConnEdit
<1>13. \A d \in Connecting : SameLink(r.conn[d], r2.conn[d]) BY <1>10, <1>12 DEF SameLink
<1>14. Kept(r, r2) BY <1>12 DEF Kept
<1>15. /\ rd2 \in Reads /\ rd2[c][e] = p /\ \A f \in Ends : f # e => rd2[c][f] = rd[c][f]
       /\ \A d \in Connecting : d # c => rd2[d] = rd[d]
  <2> DEFINE g == [rd[c] EXCEPT ![e] = p]
  <2>1. rd2 = [rd EXCEPT ![c] = g] BY DEF Taken
  <2> HIDE DEF p
  <2>2. g \in [Ends -> Seq(Items)] /\ g[e] = p /\ \A f \in Ends : f # e => g[f] = rd[c][f]
    BY <1>5 DEF Reads
  <2> HIDE DEF g
  <2> QED BY <2>1, <2>2 DEF Reads
<1> HIDE DEF p, q, l
<1>16. ASSUME NEW rd3 \in Reads, ~l => First(x.ends[e].in, rd3[c][e], k),
              \A f \in Ends : f # e => rd3[c][f] = rd[c][f],
              \A d \in Connecting : d # c => rd3[d] = rd[d]
       PROVE  Fine(r2, rd3)
  <2>1. ASSUME NEW d \in Connecting PROVE OfConn(r2, rd3, d)
    <3>1. OfConn(r, rd, d) BY DEF Fine
    <3>2. Held(r2, d) BY <1>12, <1>13, <3>1, HeldFacts DEF OfConn
    <3>3. Agreed(r2.conn[d], d) BY <1>13, <3>1 DEF OfConn, Agreed, SameLink
    <3>4. ASSUME NEW f \in Ends PROVE Written(r2.conn[d], rd3[d][f], d, f)
      <4>1. Written(r.conn[d], rd[d][f], d, f) BY <3>1 DEF OfConn
      <4>2. CASE d # c BY <1>12, <1>16, <4>1, <4>2
      <4>3. CASE d = c /\ f # e
        <5>1. rd3[d][f] = rd[d][f] /\ x.ends[f] = r.conn[d].ends[f] BY <1>10, <1>16, <4>3
        <5>2. r2.conn[d] = x /\ SameLink(r.conn[d], x) BY <1>10, <1>12, <4>3
        <5>3. Late(x, d, f) = Late(r.conn[d], d, f) BY <5>2, LateSame
        <5> QED BY <4>1, <5>1, <5>2, <5>3 DEF Written, SameLink, Expects
      <4>4. CASE d = c /\ f = e
        <5>1. r2.conn[d] = x /\ SameLink(r.conn[d], x) BY <1>10, <1>12, <4>4
        <5>2. x.made /\ x.binder # Null BY <1>6, <1>7, <4>4, <5>1 DEF SameLink
        <5>3. Expects(x, d, f) = k BY <4>4, <5>1 DEF Expects, SameLink
        <5>4. ~Late(x, d, f) => First(x.ends[f].in, rd3[d][f], k)
          <6>1. Late(x, d, f) = l BY <4>4, <5>1, LateSame DEF l
          <6> QED BY <1>16, <4>4, <6>1
        <5> HIDE DEF k
        <5> QED BY <5>1, <5>2, <5>3, <5>4 DEF Written
      <4> QED BY <4>2, <4>3, <4>4
    <3> QED BY <3>2, <3>3, <3>4 DEF OfConn
  <2>2. ASSUME NEW t \in All PROVE OfSock(r2, t)
    <3>1. OfSock(r, t) BY DEF Fine
    <3>2. \A d \in Connecting : r2.conn[d].made = r.conn[d].made /\ r2.conn[d].binder = r.conn[d].binder
      BY <1>13 DEF SameLink
    <3>3. ASSUME NEW i \in DOMAIN r2.mail[t] PROVE Proper(r2, t, r2.mail[t][i])
      <4>1. Proper(r, t, r.mail[t][i]) BY <1>12, <3>1 DEF OfSock
      <4> QED BY <1>12, <3>2, <4>1 DEF Proper
    <3>4. r2.sock[t].inprocs # {} => t \in Connecting /\ r2.conn[t].made
      BY <1>12, <3>1, <3>2 DEF OfSock
    <3>5. r2.sock[t].life = "open" => ~r2.sock[t].terminating BY <1>12, <3>1 DEF OfSock
    <3> QED BY <3>3, <3>4, <3>5 DEF OfSock
  <2> QED BY <2>1, <2>2 DEF Fine
<1>17. Fine(r2, rd2) BY <1>5, <1>8, <1>10, <1>15, <1>16
<1>18. m = "delimiter" => Fine(r2, rd) BY <1>5, <1>8, <1>10, <1>16
<1> QED BY <1>12, <1>13, <1>14, <1>15, <1>17, <1>18

\* A step that only reads an item, and what is read of it.
LEMMA LiftRead ==
  ASSUME IInv, NEW r2 \in States, Update(r2), Fine(r2, read'), read' \in Reads, Kept(State, r2),
         \A c \in Connecting : SameLink(conn[c], r2.conn[c]),
         UNCHANGED <<options, pc, pending, endpoint>>
  PROVE  IInv'
<1>1. \A s \in All : pc[s] # "idle" => r2.sock[s].life = "open"
  BY Known0, StateFacts DEF Kept
<1>2. \A s \in All : pc[s] \in All \cup {"unbound"} => s \in Connecting /\ ~r2.conn[s].made
  BY Known0 DEF SameLink
<1>3. \A c \in pending : r2.conn[c].made /\ r2.conn[c].binder = Null BY Known0 DEF SameLink
<1>4. \A s \in All : pc[s] = "greeting" => Greets(s, r2.conn) BY Known0 DEF SameLink, Greets
<1> QED BY <1>1, <1>2, <1>3, <1>4, Known0, Lift

\* socket_base_t::recv.
LEMMA ReceiveStep ==
  ASSUME IInv, NEW s \in All, NEW c \in Connecting, NEW e \in Ends, Receive(s, c, e)
  PROVE  IInv'
<1> DEFINE m == Head(conn[c].ends[e].in)
           r == [State EXCEPT !.conn[c].ends[e].in = Tail(@)]
           z(t) == [r EXCEPT !.conn[c].ends[e].state = t]
           z1 == z("delimiter_received")
           z2 == SendPipe(z("term_ack_sent"), "pipe_term_ack", c, Other(e))
<1>1. /\ <<c, e>> \in sock[s].pipes /\ conn[c].ends[e].in # << >>
      /\ UNCHANGED <<options, pc, pending, endpoint>>
      /\ \/ m = "delimiter" /\ Update(z1) /\ read' = read
         \/ m = "delimiter" /\ Update(z2) /\ read' = read
         \/ Update(r) /\ read' = [read EXCEPT ![c][e] = Append(@, m)]
  BY DEF Receive
<1>2. /\ r \in States /\ Kept(State, r) /\ \A d \in Connecting : SameLink(conn[d], r.conn[d])
      /\ m = "delimiter" => Fine(r, read)
      /\ [read EXCEPT ![c][e] = Append(@, m)] \in Reads
      /\ Fine(r, [read EXCEPT ![c][e] = Append(@, m)])
  <2>1. /\ State \in States /\ Fine(State, read) /\ <<c, e>> \in State.sock[s].pipes
        /\ State.conn[c].ends[e].in # << >> /\ State.conn = conn
        /\ read \in Reads /\ options \in [All -> Option]
    BY <1>1, Known0, StateFacts
  <2>2. r = [State EXCEPT !.conn[c].ends[e].in = Tail(@)] OBVIOUS
  <2>3. m = Head(State.conn[c].ends[e].in) BY <2>1
  <2> DEFINE rd2 == [read EXCEPT ![c][e] = Append(@, m)]
  <2>4. rd2 = [read EXCEPT ![c][e] = Append(@, m)] OBVIOUS
  <2>6. Taken(State, read, r, rd2, m, c, e) BY <2>1, <2>2, <2>3, <2>4 DEF Taken
  <2> HIDE DEF r, m, rd2
  <2>5. /\ r \in States /\ Kept(State, r)
        /\ \A d \in Connecting : SameLink(State.conn[d], r.conn[d])
        /\ m = "delimiter" => Fine(r, read)
        /\ rd2 \in Reads /\ Fine(r, rd2)
    BY <2>1, <2>6, TakeFine
  <2> QED BY <2>1, <2>4, <2>5
<1> HIDE DEF r, m
<1>3. CASE Update(r) /\ read' = [read EXCEPT ![c][e] = Append(@, m)]
  BY <1>1, <1>2, <1>3, LiftRead
<1>4. ASSUME m = "delimiter", NEW r2, Soft(r, r2), Update(r2), read' = read PROVE IInv'
  <2>1. r2 \in States /\ Mild(r, r2) /\ Kept(r, r2) BY <1>4 DEF Soft, Mild
  <2>2. Fine(r2, read) BY <1>2, <1>4, <2>1, Known0, MildFine
  <2>3. Kept(State, r2) BY <1>2, <2>1 DEF Kept
  <2>4. \A d \in Connecting : SameLink(conn[d], r2.conn[d])
    BY <1>2, <2>1 DEF Mild, SameLink
  <2> QED BY <1>1, <1>4, <2>1, <2>2, <2>3, <2>4, Known0, LiftRead
<1>5. \A t \in Stages : Soft(r, z(t)) BY <1>2, SoftState
<1> HIDE DEF z
<1>6. z("delimiter_received") \in States /\ z("term_ack_sent") \in States /\ Soft(r, z1)
      /\ Soft(r, z("term_ack_sent"))
  BY <1>5 DEF Stages, Soft, Mild
<1>7. Soft(r, z2)
  <2>1. Other(e) \in Ends BY Names
  <2>2. Soft(z("term_ack_sent"), z2) BY <1>6, <2>1, SoftSendPipe
  <2> HIDE DEF z2
  <2> QED BY <1>2, <1>6, <2>2, SoftTrans
<1> HIDE DEF z1, z2
<1> QED BY <1>1, <1>3, <1>4, <1>6, <1>7

\* The first step of ctx_t::terminate: it may create a socket.
LEMMA TermPendingStep ==
  ASSUME IInv, TermPending
  PROVE  IInv'
<1>1. UNCHANGED <<options, pc, mail, endpoint, pending, conn, read>> BY DEF TermPending
<1>2. crash' \in Crashes
  <2>1. crash \in Crashes BY Known0, StateFacts DEF States
  <2> QED BY <2>1 DEF TermPending, Crashes
<1>3. sock' \in [All -> Socket] /\ \A s \in All : sock'[s] = sock[s] \/ (sock[s] = Absent /\ sock'[s] = Born)
  <2>1. sock \in [All -> Socket] BY Known0, StateFacts DEF States
  <2>2. Born \in Socket BY DEF Born, Socket, Lives
  <2>3. sock' = sock \/ (sock[Temporary] = Absent /\ sock' = [sock EXCEPT ![Temporary] = Born])
    BY DEF TermPending
  <2> QED BY <2>1, <2>2, <2>3
<1>4. /\ Born.pipes = {} /\ Born.inprocs = {} /\ ~Born.terminating /\ Born.life = "open"
      /\ Absent.pipes = {} /\ Absent.inprocs = {} /\ Absent.life = "absent"
  BY DEF Born, Absent
<1> DEFINE r == [sock |-> sock', mail |-> mail, conn |-> conn, crash |-> crash']
<1>5. r \in States
  <2>1. mail \in [All -> Seq(Commands)] /\ conn \in [Connecting -> Pipe]
    BY Known0, StateFacts DEF States
  <2> QED BY <1>2, <1>3, <2>1 DEF States
<1>6. r.sock = sock' /\ r.mail = mail /\ r.conn = conn /\ Update(r) BY <1>1 DEF Update
<1> HIDE DEF r
<1>7. \A s \in All : r.sock[s].pipes = sock[s].pipes /\ r.sock[s].inprocs = sock[s].inprocs
  BY <1>3, <1>4, <1>6
<1>8. ASSUME NEW c \in Connecting PROVE OfConn(r, read, c)
  <2>1. OfConn(State, read, c) BY Known0 DEF Fine
  <2> QED BY <1>6, <1>7, <2>1, StateFacts DEF OfConn, Held
<1>9. ASSUME NEW s \in All PROVE OfSock(r, s)
  <2>1. OfSock(State, s) BY Known0 DEF Fine
  <2>2. r.sock[s].inprocs # {} => s \in Connecting /\ r.conn[s].made
    BY <1>6, <1>7, <2>1, StateFacts DEF OfSock
  <2>3. r.sock[s].life = "open" => ~r.sock[s].terminating
    BY <1>3, <1>4, <1>6, <2>1, StateFacts DEF OfSock
  <2>4. \A i \in DOMAIN r.mail[s] : Proper(r, s, r.mail[s][i])
    BY <1>6, <2>1, StateFacts DEF OfSock, Proper
  <2> QED BY <2>2, <2>3, <2>4 DEF OfSock
<1>10. Fine(r, read) BY <1>8, <1>9 DEF Fine
<1>11. \A s \in All : pc[s] # "idle" => r.sock[s].life = "open"
  BY <1>3, <1>4, <1>6, Known0
<1> QED BY <1>1, <1>5, <1>6, <1>10, <1>11, Known0, Lift

\* The second: it binds the socket, or closes it because the address is bound.
LEMMA TermBindStep ==
  ASSUME IInv, TermBind
  PROVE  IInv'
<1>1. Temporary \in All BY Names
<1>2. CASE BindRegister(Temporary) BY <1>1, <1>2, BindRegisterStep
<1>3. CASE /\ pc[Temporary] = "idle" /\ sock' = [sock EXCEPT ![Temporary].life = "closed"]
           /\ UNCHANGED <<options, pc, mail, endpoint, pending, conn, read, terminating, crash>>
  BY <1>1, <1>3, ClosedFacts
<1> QED BY <1>2, <1>3 DEF TermBind

\* The third: it closes the socket.
LEMMA TermCloseStep ==
  ASSUME IInv, TermClose
  PROVE  IInv'
  BY Names, ClosedFacts DEF TermClose

\* ctx_t::terminate and zmq_ctx_shutdown: the sockets are stopped.
LEMMA StopAllStep ==
  ASSUME IInv, StopAll
  PROVE  IInv'
<1> DEFINE m == Cmd("stop", Null, Null)
           f == IF terminating THEN mail
                ELSE [s \in All |-> IF s \in Remaining THEN Append(mail[s], m) ELSE mail[s]]
           r == [State EXCEPT !.mail = f]
<1>1. /\ UNCHANGED <<options, sock, pc, endpoint, pending, conn, read, crash>> /\ mail' = f
  BY DEF StopAll
<1>2. State \in States /\ mail \in [All -> Seq(Commands)] BY Known0, StateFacts DEF States
<1>3. m \in Commands /\ m.type = "stop" BY DEF Cmd, Commands, Types
<1> HIDE DEF m
<1>4. f \in [All -> Seq(Commands)] /\ \A s \in All : f[s] = mail[s] \/ f[s] = Append(mail[s], m)
  BY <1>2, <1>3
<1> HIDE DEF f
<1>5. r \in States /\ r.mail = f /\ r.sock = sock /\ r.conn = conn /\ r.crash = crash
  BY <1>2, <1>4, WithMail, StateFacts
<1> HIDE DEF r
<1>6. Update(r) BY <1>1, <1>5 DEF Update
<1>7. ASSUME NEW s \in All, NEW i \in DOMAIN r.mail[s] PROVE Known(State, s, r.mail[s][i])
  <2>1. r.mail[s][i] = m \/ (i \in DOMAIN mail[s] /\ r.mail[s][i] = mail[s][i])
    <3>1. mail[s] \in Seq(Commands) /\ i \in DOMAIN f[s] /\ r.mail[s] = f[s] BY <1>2, <1>5, <1>7
    <3>2. CASE f[s] = mail[s] BY <3>1, <3>2
    <3>3. CASE f[s] = Append(mail[s], m) BY <1>3, <3>1, <3>3
    <3> QED BY <1>4, <3>2, <3>3
  <2> QED BY <1>3, <2>1, StateFacts DEF Known
<1>8. Soft(State, State) BY <1>2, SoftSame
<1>9. Soft(State, r) BY <1>5, <1>7, <1>8, StateFacts DEF Soft, Mild, Kept
<1> QED BY <1>1, <1>6, <1>9, Known0, LiftSoft

\* A step of the thread in zmq_ctx_term alone.
LEMMA SameStep ==
  ASSUME IInv, UNCHANGED <<options, sock, pc, mail, endpoint, pending, conn, read, crash>>
  PROVE  IInv'
<1>1. Update(State) BY StateFacts DEF Update
<1>2. Soft(State, State) BY Known0, SoftSame
<1> QED BY <1>1, <1>2, Known0, LiftSoft
-----------------------------------------------------------------------------
(* The theorems. *)

\* Every step keeps the invariant.
LEMMA NextStep ==
  ASSUME IInv, [Next]_vars
  PROVE  IInv'
<1> USE Names
<1>1. ASSUME NEW s \in Binding, BindRegister(s) PROVE IInv' BY <1>1, BindRegisterStep
<1>2. ASSUME NEW s \in Connecting, FindEndpoint(s) PROVE IInv' BY <1>2, FindEndpointStep
<1>3. ASSUME NEW s \in Connecting, ConnectFound(s) PROVE IInv' BY <1>3, ConnectFoundStep
<1>4. ASSUME NEW s \in Connecting, ConnectUnbound(s) \/ ConnectGreeting(s) PROVE IInv'
  BY <1>4, ConnectUnboundStep, ConnectGreetingStep
<1>5. ASSUME NEW s \in Sockets, TermEndpoint(s) PROVE IInv' BY <1>5, TermEndpointStep
<1>6. ASSUME NEW s \in Sockets, Close(s) PROVE IInv' BY <1>6, CloseStep
<1>7. ASSUME NEW s \in Sockets, NEW c \in Connecting, NEW e \in Ends, SendMessage(s, c, e)
      PROVE  IInv'
  BY <1>7, SendMessageStep
<1>8. ASSUME NEW s \in Sockets, NEW c \in Connecting, NEW e \in Ends, Receive(s, c, e)
      PROVE  IInv'
  BY <1>8, ReceiveStep
<1>9. ASSUME NEW s \in All, ConnectPending(s) PROVE IInv' BY <1>9, ConnectPendingStep
<1>10. ASSUME NEW s \in All, Reap(s) PROVE IInv' BY <1>10, ReapStep
<1>11. ASSUME NEW s \in All, ProcessCommand(s) PROVE IInv' BY <1>11, ProcessCommandStep
<1>12. ASSUME NEW s \in All, CheckDestroy(s) PROVE IInv' BY <1>12, CheckDestroyStep
<1>13. CASE Application BY <1>1, <1>2, <1>3, <1>4, <1>5, <1>6, <1>7, <1>8, <1>13 DEF Application
<1>14. CASE Library BY <1>9, <1>10, <1>11, <1>12, <1>14 DEF Library
<1>15. CASE Termination
  <2>1. CASE TermPending BY <2>1, TermPendingStep
  <2>2. CASE TermBind BY <2>2, TermBindStep
  <2>3. CASE TermClose BY <2>3, TermCloseStep
  <2>4. CASE TermStop BY <2>4, StopAllStep DEF TermStop
  <2>5. CASE Shutdown BY <2>5, StopAllStep DEF Shutdown
  <2>6. CASE TermDone BY <2>6, SameStep DEF TermDone
  <2> QED BY <1>15, <2>1, <2>2, <2>3, <2>4, <2>5, <2>6 DEF Termination
<1>16. CASE UNCHANGED vars BY <1>16, SameStep DEF vars
<1> QED BY <1>13, <1>14, <1>15, <1>16 DEF Next

\* Whatever the sockets, their options and the order of bind and connect: each end of a
\* connection is held by its socket only, a bind goes to the socket bound, and an identity
\* stands first, in the queue or among what was read, exactly where one is expected.  This
\* last part is not claimed where Late holds, as the code itself lets something come before:
\* a probe, what the binder's thread wrote between the command bind and the identity, or the
\* delimiter of the socket of ctx_t::terminate.
THEOREM InprocInvariant == Spec => []IInv
<1>1. Init => IInv BY InitStep
<1>2. IInv /\ [Next]_vars => IInv' BY NextStep
<1> QED BY <1>1, <1>2, PTL DEF Spec

\* The limits of a connection are those of its two sockets, whether it waited for the
\* bind in ctx_t::pending_connections or found the socket bound.
THEOREM HwmsAgreeThm == Spec => []HwmsAgree
<1>1. IInv => HwmsAgree
  <2> SUFFICES ASSUME IInv PROVE HwmsAgree OBVIOUS
  <2>1. \A c \in Connecting : OfConn(State, read, c) BY DEF IInv, Fine
  <2> QED BY <2>1, StateFacts DEF OfConn, Agreed, HwmsAgree
<1> QED BY <1>1, InprocInvariant, PTL

\* A socket that expects identities reads its peer's before anything else, and no other
\* socket reads one, also where the identity was written before the socket was bound; but
\* not from a peer that probes, and not if the binder wrote in the middle of the connect.
THEOREM IdentityFirstThm == Spec => []IdentityFirst
<1>1. IInv => IdentityFirst
  <2> SUFFICES ASSUME IInv, NEW c \in Connecting, NEW e \in Ends, ~Late(conn[c], c, e),
                      NEW i \in DOMAIN read[c][e]
               PROVE  read[c][e][i] = "identity" <=> (i = 1 /\ options[SocketAt(c, e)].recv_identity)
    BY DEF IdentityFirst, IdentityFirstAt
  <2>1. Written(conn[c], read[c][e], c, e) /\ Agreed(conn[c], c)
    BY StateFacts DEF IInv, Fine, OfConn
  <2>2. conn[c].binder # Null /\ conn[c].made
    <3>1. read[c][e] # << >> OBVIOUS
    <3> QED BY <2>1, <3>1 DEF Written, Agreed
  <2>3. read[c][e][i] = "identity" <=> i = 1 /\ Expects(conn[c], c, e) BY <2>1 DEF Written, First
  <2>4. Expects(conn[c], c, e) <=> options[SocketAt(c, e)].recv_identity
    BY <2>2 DEF Expects, SocketAt, Ends
  <2> QED BY <2>3, <2>4
<1> QED BY <1>1, InprocInvariant, PTL
=============================================================================
