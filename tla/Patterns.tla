-------------------------------- MODULE Patterns --------------------------------
(***************************************************************************)
(* The messaging patterns over several pipes: DEALER, REQ, PUSH, PULL,     *)
(* PAIR, ROUTER, REP and STREAM.  One socket is modelled, with the calls   *)
(* of its user; its peers send, read and leave as they like.  A step of a  *)
(* peer is what the socket does when it learns of it, in process_commands. *)
(***************************************************************************)
EXTENDS SocketPipe, FiniteSetsExt, TLC

CONSTANTS
    Pipes,          \* the pipes that may be attached, once each
    Hwm,            \* the messages a pipe has room for
    Scenarios,      \* the types of socket and their options
    Identities      \* the identities that peers of a ROUTER may have

ASSUME PatternsAssumption == Hwm \in Nat \ {0}

\* identities; an empty one makes the socket generate one
Empty == <<"empty", 0>>
Auto(n) == <<"auto", n>>

VARIABLES
    opt,        \* the scenario: the type and the options of the socket
    pipes,      \* the pipes, as the socket sees them
    fq, lb,     \* fq_t and lb_t
    x,          \* the members of the socket's own type
    peer,       \* by pipe: its identity and whether it has sent it, whether it ended, the
                \* number of messages that it sent
    tx,         \* the user's message under way
    log,        \* the last two parts that the user received
    wait,       \* by pipe: messages received from others while one was readable here
    crash       \* the assertion that failed

vars == <<opt, pipes, fq, lb, x, peer, tx, log, wait, crash>>

Part(flavour, more, m, i) == [flavour |-> flavour, more |-> more, m |-> m, i |-> i]
IdPart(id, m) == Part("identity", TRUE, m, 0) @@ [id |-> id]
ReqId(n, m) == Part("reqid", TRUE, m, 1) @@ [id |-> n]

kind == opt.kind
Reads == kind # "push"
Writes == kind # "pull"
\* bounds on the messages from the peers and from the user
MaxIn == opt.max_in
MaxOut == opt.max_out
Routes == kind \in {"router", "rep", "stream"}
Identifies == kind \in {"router", "rep"} /\ ~opt.raw
Balances == kind \in {"dealer", "req", "push"}
Queues == kind \notin {"push", "pair"}

\* the constructors of the socket types
Init ==
    /\ opt \in Scenarios
    /\ pipes = [p \in Pipes |-> [NewPipe(Hwm) EXCEPT !.state = "new"]]
    /\ fq = NoList /\ lb = NoList
    /\ x = [pipe |-> None,
            receiving_reply |-> FALSE, message_begins |-> TRUE, reply_pipe |-> None,
            request_id |-> 0, sending_reply |-> FALSE, request_begins |-> TRUE,
            prefetched |-> FALSE, prefetched_msg |-> Delimiter, prefetched_id |-> NoId,
            identity_sent |-> FALSE, more_in |-> FALSE, current_out |-> None,
            more_out |-> FALSE, outpipes |-> << >>, anonymous |-> {}, next_rid |-> 0,
            connect_rid |-> NoId]
    /\ peer = [p \in Pipes |-> [id |-> NoId, known |-> FALSE, ended |-> "no", sent |-> 0, answered |-> {}]]
    /\ tx = [n |-> 0, i |-> 0, more |-> FALSE, to |-> NoId]
    /\ log = << >>
    /\ wait = [p \in Pipes |-> 0]
    /\ crash = "none"

State == [pipes |-> pipes, fq |-> fq, lb |-> lb, x |-> x, crash |-> crash,
          rc |-> "ok", msg |-> Delimiter, from |-> None]
Update(r) == pipes' = r.pipes /\ fq' = r.fq /\ lb' = r.lb /\ x' = r.x /\ crash' = r.crash

Expect(r, ok, what) == IF ok THEN r ELSE Fail(r, what)
Known(r, id) == id \in DOMAIN r.x.outpipes
Without(f, k) == [j \in DOMAIN f \ {k} |-> f[j]]
-----------------------------------------------------------------------------
\* router_t::identify_peer and stream_t::identify_peer: the table of the peers
Register(r, p, id) ==
    [Expect(r, ~Known(r, id), "identity") EXCEPT
       !.pipes[p].identity = id,
       !.x.outpipes = (id :> [pipe |-> p, active |-> TRUE]) @@ @,
       !.rc = "ok"]

NextRid(r) == [r EXCEPT !.x.next_rid = @ + 1]

\* the new connection takes over: the old one gets another identity and is terminated
\* Mutant: the old connection keeps its place in the table.
HandoverForgets(r, id) ==
    LET old == r.x.outpipes[id].pipe
    IN  [r EXCEPT !.pipes[old] = Terminated([@ EXCEPT !.identity = Auto(r.x.next_rid)], TRUE),
                  !.x.outpipes = Without(@, id), !.x.next_rid = @ + 1]
Handover(r, id) ==
    LET old == r.x.outpipes[id].pipe
        new == Auto(r.x.next_rid)
    IN  [NextRid(r) EXCEPT
           !.pipes[old] = Terminated([@ EXCEPT !.identity = new], TRUE),
           !.x.outpipes = (new :> r.x.outpipes[id]) @@ Without(@, id)]

identify_peer(r, p) ==
    IF r.x.connect_rid # NoId
      THEN Register([r EXCEPT !.x.connect_rid = NoId], p, r.x.connect_rid)
    ELSE IF ~Identifies THEN Register(NextRid(r), p, Auto(r.x.next_rid))
    ELSE IF ~CanRead(r.pipes[p]) THEN [Returns(r, "again") EXCEPT !.pipes[p] = CheckRead(@)]
    ELSE LET id == Head(r.pipes[p].in).id
             t  == [r EXCEPT !.pipes[p].in = Tail(@)]
         IN  IF id = Empty THEN Register(NextRid(t), p, Auto(r.x.next_rid))
             ELSE IF ~Known(r, id) THEN Register(t, p, id)
             ELSE IF opt.handover THEN Register(Handover(t, id), p, id)
             ELSE Returns(t, "again")

FqAttach(r, p) == [r EXCEPT !.fq = Attached(@, p)]
LbAttach(r, p) == [r EXCEPT !.lb = Attached(@, p)]

\* an empty message that makes the connection known to a ROUTER at the other side
Probe(r, p) ==
    IF opt.probe THEN [r EXCEPT !.pipes[p] = WritePart(@, Part("probe", FALSE, <<"probe", 0>>, 1))]
    ELSE r

\* router_t::xattach_pipe
RouterAttach(r, p) ==
    LET t == identify_peer(Probe(r, p), p)
    IN  IF t.rc = "ok" THEN FqAttach(t, p) ELSE [t EXCEPT !.x.anonymous = @ \cup {p}]

DealerAttach(r, p) == LbAttach(FqAttach(Probe(r, p), p), p)
PushAttach(r, p) == LbAttach([r EXCEPT !.pipes[p].nodelay = TRUE], p)
\* pair_t::xattach_pipe: a PAIR talks to one peer and refuses others
PairAttach(r, p) ==
    IF r.x.pipe = None THEN [r EXCEPT !.x.pipe = p]
    ELSE [r EXCEPT !.pipes[p] = Terminated(@, FALSE)]
StreamAttach(r, p) == FqAttach(identify_peer(r, p), p)

xattach_pipe(r, p) ==
    CASE kind \in {"dealer", "req"} -> DealerAttach(r, p)
      [] kind = "push" -> PushAttach(r, p)
      [] kind = "pull" -> FqAttach(r, p)
      [] kind = "pair" -> PairAttach(r, p)
      [] kind \in {"router", "rep"} -> RouterAttach(r, p)
      [] kind = "stream" -> StreamAttach(r, p)

\* router_t::xread_activated: the identity of a peer that was not known may be there now
RouterReadActivated(r, p) ==
    IF p \notin r.x.anonymous THEN [r EXCEPT !.fq = Activated(@, p)]
    ELSE AndThen(identify_peer(r, p),
                 LAMBDA t : FqAttach([t EXCEPT !.x.anonymous = @ \ {p}], p))

xread_activated(r, p) ==
    CASE kind = "pair" -> r
      [] kind \in {"router", "rep"} -> RouterReadActivated(r, p)
      [] OTHER -> [r EXCEPT !.fq = Activated(@, p)]

\* router_t::xwrite_activated and stream_t::xwrite_activated
RouterWriteActivated(r, p) ==
    LET ids == {id \in DOMAIN r.x.outpipes : r.x.outpipes[id].pipe = p}
    IN  IF ids = {} THEN Fail(r, "outpipes")
        ELSE LET id == CHOOSE i \in ids : TRUE
             IN  [Expect(r, ~r.x.outpipes[id].active, "outpipes") EXCEPT
                    !.x.outpipes[id].active = TRUE]

xwrite_activated(r, p) ==
    CASE Balances -> [r EXCEPT !.lb = Activated(@, p)]
      [] Routes -> RouterWriteActivated(r, p)
      [] OTHER -> r

\* router_t::xpipe_terminated and stream_t::xpipe_terminated
RouterTerminated(r, p) ==
    IF p \in r.x.anonymous THEN [r EXCEPT !.x.anonymous = @ \ {p}]
    ELSE LET id == r.pipes[p].identity
         IN  [Expect(r, Known(r, id), "outpipes") EXCEPT
                !.x.outpipes = Without(@, id), !.fq = Removed(@, p),
                !.x.current_out = IF @ = p THEN None ELSE @]

DealerTerminated(r, p) == [r EXCEPT !.fq = Removed(@, p), !.lb = LbTerminated(@, p)]
\* req_t::xpipe_terminated: from now on any pipe may answer
ReqTerminated(r, p) ==
    [DealerTerminated(r, p) EXCEPT !.x.reply_pipe = IF @ = p THEN None ELSE @]

xpipe_terminated(r, p) ==
    CASE kind = "dealer" -> DealerTerminated(r, p)
      [] kind = "req" -> ReqTerminated(r, p)
      [] kind = "push" -> [r EXCEPT !.lb = LbTerminated(@, p)]
      [] kind = "pull" -> [r EXCEPT !.fq = Removed(@, p)]
      [] kind = "pair" -> [r EXCEPT !.x.pipe = IF @ = p THEN None ELSE @]
      [] Routes -> RouterTerminated(r, p)
-----------------------------------------------------------------------------
PairSend(r, part) ==
    LET p == r.x.pipe
    IN  IF p = None THEN Returns(r, "again")
        ELSE IF CanWrite(r.pipes[p]) THEN [Returns(r, "ok") EXCEPT !.pipes[p] = WritePart(@, part)]
        ELSE [Returns(r, "again") EXCEPT !.pipes[p] = CheckWrite(@)]

\* The first part of a message names the peer; router_t::xsend drops the message when
\* there is none or when it has no room, unless mandatory, and stream_t::xsend refuses it.
RouterAddress(r, part) ==
    LET id == part.id
        strict == opt.mandatory \/ kind = "stream"
        p  == r.x.outpipes[id].pipe
        t  == [Returns(r, "ok") EXCEPT !.x.more_out = TRUE]
    IN  IF Known(r, id) /\ CanWrite(r.pipes[p]) THEN [t EXCEPT !.x.current_out = p]
        ELSE IF Known(r, id)
          THEN LET y == IF strict THEN Returns(r, "again") ELSE t
               IN  [y EXCEPT !.pipes[p] = CheckWrite(@), !.x.outpipes[id].active = FALSE]
        ELSE IF strict THEN Returns(r, "unreachable") ELSE t

\* the parts that follow; an empty one closes a raw connection
RouterBody(r, part) ==
    LET raw  == opt.raw \/ kind = "stream"
        more == part.more /\ ~raw
        p    == r.x.current_out
        t    == [Returns(r, "ok") EXCEPT !.x.more_out = more]
        y    == [t EXCEPT !.x.current_out = IF more THEN @ ELSE None]
    IN  IF p = None THEN t
        ELSE IF raw /\ part.flavour = "empty"
          THEN [t EXCEPT !.pipes[p] = Terminated(@, FALSE), !.x.current_out = None]
        ELSE IF CanWrite(r.pipes[p])
          THEN [y EXCEPT !.pipes[p] = WritePart(@, [part EXCEPT !.more = more])]
        ELSE [t EXCEPT !.pipes[p] = CheckWrite(@), !.x.current_out = None]

\* a first part without a second is ignored by a ROUTER; a STREAM socket takes the next
\* part for its second
RouterSend(r, part) ==
    IF r.x.more_out THEN RouterBody(r, part)
    ELSE LET t == Expect(r, r.x.current_out = None, "current_out")
         IN  IF part.more THEN RouterAddress(t, part)
             ELSE [Returns(t, "ok") EXCEPT !.x.more_out = (kind = "stream")]

\* router_t::rollback
Rollback(r) ==
    IF r.x.current_out = None THEN r
    ELSE [r EXCEPT !.pipes[r.x.current_out].partial = << >>, !.x.current_out = None,
                   !.x.more_out = FALSE]

\* dealer_t::xrecv until there is nothing left
DropAll(r) ==
    Loop(LAMBDA t : IF t.rc = "ok" THEN recvpipe(t) ELSE t, Returns(r, "ok"),
         MaxIn * 3 + 1)

\* The first frames of a request: an id, if enabled, and the empty bottom frame; replies
\* that are still there are thrown away.
Correlate(r, m) ==
    IF ~opt.correlate THEN Returns(r, "ok")
    ELSE sendpipe([r EXCEPT !.x.request_id = @ + 1], ReqId(r.x.request_id + 1, m))
Bottom(r, m) == sendpipe(r, Part("empty", TRUE, m, IF opt.correlate THEN 2 ELSE 1))
Begun(r) ==
    Returns(DropAll([Expect(r, r.from # None, "reply_pipe") EXCEPT
                       !.x.reply_pipe = r.from, !.x.message_begins = FALSE]), "ok")
RequestBegins(r, m) ==
    AndThen(AndThen(Correlate([r EXCEPT !.x.reply_pipe = None], m), LAMBDA b : Bottom(b, m)), Begun)

ReqBody(r, part) ==
    AndThen(sendpipe(r, part),
            LAMBDA t : IF part.more THEN t
                       ELSE [t EXCEPT !.x.receiving_reply = TRUE, !.x.message_begins = TRUE])

\* req_t::xsend; a request may be given up when the option ZMQ_REQ_RELAXED is set
\* Mutant: the connection on which the late answer comes is kept.
GiveUpKeepsPipe(r) == [r EXCEPT !.x.receiving_reply = FALSE, !.x.message_begins = TRUE]
GiveUp(r) ==
    LET p == r.x.reply_pipe
        t == [r EXCEPT !.x.receiving_reply = FALSE, !.x.message_begins = TRUE]
    IN  IF p = None THEN t ELSE [t EXCEPT !.pipes[p] = Terminated(@, FALSE)]

ReqSend(r, part) ==
    IF r.x.receiving_reply /\ opt.strict THEN Returns(r, "fsm")
    ELSE LET a == IF r.x.receiving_reply THEN GiveUp(r) ELSE r
         IN  AndThen(IF a.x.message_begins THEN RequestBegins(a, part.m) ELSE Returns(a, "ok"),
                     LAMBDA b : ReqBody(b, part))

RepSend(r, part) ==
    IF ~r.x.sending_reply THEN Returns(r, "fsm")
    ELSE AndThen(RouterSend(r, part), LAMBDA t : [t EXCEPT !.x.sending_reply = @ /\ part.more])

xsend(r, part) ==
    CASE kind \in {"dealer", "push"} -> sendpipe(r, part)
      [] kind = "pair" -> PairSend(r, part)
      [] kind = "req" -> ReqSend(r, part)
      [] kind = "rep" -> RepSend(r, part)
      [] kind \in {"router", "stream"} -> RouterSend(r, part)
-----------------------------------------------------------------------------
PairRecv(r) ==
    LET p == r.x.pipe
    IN  IF p = None THEN Returns(r, "again")
        ELSE IF CanRead(r.pipes[p])
          THEN [r EXCEPT !.pipes[p].in = Tail(@), !.msg = Head(r.pipes[p].in), !.from = p,
                         !.rc = "ok"]
        ELSE [Returns(r, "again") EXCEPT !.pipes[p] = CheckRead(@)]

\* identities that arrive after a reconnection are skipped
RouterRead(r) ==
    Loop(LAMBDA t : IF t.rc = "ok" /\ t.msg.flavour = "identity" THEN recvpipe(t) ELSE t,
         recvpipe(r), MaxIn + 2)

\* router_t::xrecv and stream_t::xrecv: the identity of the peer precedes its message
Prefetched(t) == [t EXCEPT !.x.prefetched_msg = t.msg, !.x.prefetched = TRUE]
IdentityFirst(t) ==
    IF t.x.more_in THEN [t EXCEPT !.x.more_in = t.msg.more]
    ELSE [Prefetched(t) EXCEPT !.msg = IdPart(t.pipes[t.from].identity, t.msg.m),
                               !.x.identity_sent = TRUE]
RouterRecv(r) ==
    IF r.x.prefetched
      THEN IF r.x.identity_sent
             THEN [r EXCEPT !.msg = r.x.prefetched_msg, !.x.prefetched = FALSE, !.rc = "ok",
                            !.x.more_in = r.x.prefetched_msg.more]
             ELSE [r EXCEPT !.msg = IdPart(r.x.prefetched_id, r.x.prefetched_msg.m), !.rc = "ok",
                            !.x.identity_sent = TRUE, !.x.more_in = TRUE]
      ELSE AndThen(RouterRead(r), IdentityFirst)

\* router_t::xhas_in and stream_t::xhas_in fetch a message in order to know
RouterHasIn(r) ==
    IF r.x.more_in \/ r.x.prefetched THEN r
    ELSE AndThen(RouterRead(r),
                 LAMBDA t : [Prefetched(t) EXCEPT !.x.prefetched_id = t.pipes[t.from].identity,
                                                  !.x.identity_sent = FALSE])

\* req_t::recv_reply_pipe: messages from other pipes are passed over
RecvReplyPipe(r) ==
    Loop(LAMBDA t : IF t.rc = "ok" /\ t.x.reply_pipe # None /\ t.from # t.x.reply_pipe
                      THEN recvpipe(t) ELSE t,
         recvpipe(r), MaxIn * 3)

\* the rest of a message that does not start as a reply should
SkipRest(r) ==
    Loop(LAMBDA t : IF t.rc = "ok" /\ t.msg.more THEN RecvReplyPipe(t) ELSE t, r, 3)

\* one turn of the loop of req_t::xrecv over the first frames, once one of them was read
RightId(r) == r.msg.more /\ r.msg.flavour = "reqid" /\ r.msg.id = r.x.request_id
BottomRead(r) == IF ~r.msg.more \/ r.msg.flavour # "empty" THEN SkipRest(r)
                 ELSE [r EXCEPT !.x.message_begins = FALSE]
ReplyBegins(r) ==
    IF ~opt.correlate THEN BottomRead(r)
    ELSE IF RightId(r) THEN AndThen(RecvReplyPipe(r), BottomRead) ELSE SkipRest(r)

\* req_t::xrecv
ReplyBody(r) ==
    AndThen(RecvReplyPipe(r),
            LAMBDA b : IF b.msg.more THEN b
                       ELSE [b EXCEPT !.x.receiving_reply = FALSE, !.x.message_begins = TRUE])
ReqRecv(r) ==
    IF ~r.x.receiving_reply THEN Returns(r, "fsm")
    ELSE AndThen(Loop(LAMBDA t : IF t.rc = "ok" /\ t.x.message_begins
                                 THEN AndThen(RecvReplyPipe(t), ReplyBegins) ELSE t,
                      Returns(r, "ok"), MaxIn + 1), ReplyBody)

\* one turn of the loop of rep_t::xrecv, for a part r.msg: the traceback goes to the reply pipe
Traceback(r) ==
    LET s == RouterSend(r, r.msg)
    IN  IF r.msg.more
          THEN [Expect(s, s.rc = "ok", "reply") EXCEPT
                  !.x.request_begins = (r.msg.flavour # "empty")]
          ELSE Rollback(r)

\* rep_t::xrecv
RequestBody(r) ==
    AndThen(RouterRecv(r),
            LAMBDA b : IF b.msg.more THEN b
                       ELSE [b EXCEPT !.x.sending_reply = TRUE, !.x.request_begins = TRUE])
RepRecv(r) ==
    IF r.x.sending_reply THEN Returns(r, "fsm")
    ELSE AndThen(Loop(LAMBDA t : IF t.rc = "ok" /\ t.x.request_begins
                                 THEN AndThen(RouterRecv(t), Traceback) ELSE t,
                      Returns(r, "ok"), MaxIn * 3 + 2), RequestBody)

xrecv(r) ==
    CASE kind \in {"dealer", "pull"} -> recvpipe(r)
      [] kind = "pair" -> PairRecv(r)
      [] kind = "req" -> ReqRecv(r)
      [] kind = "rep" -> RepRecv(r)
      [] kind \in {"router", "stream"} -> RouterRecv(r)
-----------------------------------------------------------------------------
Running == crash = "none"

\* the identity that the engine or an inproc peer passes on, ahead of all messages
IdFrame(id, p) == [IdPart(id, <<p, 0>>) EXCEPT !.more = FALSE]

\* socket_base_t::attach_pipe; the identity of the peer is there already, or comes later
Attach(p, id, early) ==
    /\ Running
    /\ p \in opt.pipes /\ pipes[p].state = "new"
    /\ id \in (IF Identifies THEN Identities \cup {Empty} ELSE {NoId})
    /\ early => Identifies
    /\ LET fresh == [NewPipe(Hwm) EXCEPT !.in = IF early THEN <<IdFrame(id, p)>> ELSE << >>]
       IN  Update(xattach_pipe([State EXCEPT !.pipes[p] = fresh], p))
    /\ peer' = [peer EXCEPT ![p].id = id, ![p].known = early \/ ~Identifies]
    /\ UNCHANGED <<opt, tx, log, wait>>

\* Parts become visible in a pipe; if the reader sleeps, process_activate_read wakes it up
Wakes(r, p) ==
    IF ~r.pipes[p].in_active /\ r.pipes[p].state \in {"active", "waiting"}
      THEN xread_activated([r EXCEPT !.pipes[p].in_active = TRUE], p) ELSE r
Receives(p, parts) == Wakes([State EXCEPT !.pipes[p].in = @ \o parts], p)

\* pipe_t::process_activate_write: the peer read a message
Drain(p) ==
    /\ Running
    /\ pipes[p].state = "active" /\ pipes[p].room < Hwm /\ peer[p].ended = "no"
    /\ LET r == [State EXCEPT !.pipes[p].room = @ + 1, !.pipes[p].out_active = TRUE]
       IN  Update(IF pipes[p].out_active THEN r ELSE xwrite_activated(r, p))
    /\ UNCHANGED <<opt, peer, tx, log, wait>>

Bodies(m, i, n) == [k \in 1..n |-> Part("body", k < n, m, i + k - 1)]
Envelope(p, m) == SelectSeq(pipes[p].delivered, LAMBDA d : d.m = m /\ d.flavour # "body")
Requests(p) == {d.m : d \in {e \in Range(pipes[p].delivered) : e.flavour = "body" /\ ~e.more}}

\* What a peer sends.  The peer of a REQ answers a request that it got, once unless
\* requests carry an id; the peer of a REP sends an empty part first.  A message that lacks
\* these parts is not of the pattern.
Messages(p) ==
    LET m == <<p, peer[p].sent + 1>>
    IN  CASE kind = "req" ->
                {Envelope(p, a) \o Bodies(a, Len(Envelope(p, a)) + 1, 1) :
                   a \in IF opt.correlate THEN Requests(p) ELSE Requests(p) \ peer[p].answered}
                \cup {Bodies(m, 1, 1)}
          [] kind = "rep" -> {<<Part("empty", TRUE, m, 1)>> \o Bodies(m, 2, n) : n \in 1..2}
                             \cup {Bodies(m, 1, 1)}
          [] kind = "stream" -> {Bodies(m, 1, 1)}
          [] OTHER -> {Bodies(m, 1, n) : n \in 1..opt.parts}

TotalSent == MapThenSumSet(LAMBDA p : peer[p].sent, Pipes)

Arrive(p, parts) ==
    /\ Running /\ Reads
    /\ pipes[p].state \notin {"new", "gone"} /\ peer[p].ended = "no" /\ peer[p].known
    /\ TotalSent < MaxIn
    /\ Update(Receives(p, parts))
    /\ peer' = [peer EXCEPT ![p].sent = @ + 1, ![p].answered = @ \cup {parts[1].m}]
    /\ UNCHANGED <<opt, tx, log, wait>>

\* the identity of a peer whose connection is made, or made again by its session
Identify(p) ==
    /\ Running /\ Identifies
    /\ pipes[p].state \notin {"new", "gone"} /\ peer[p].ended = "no"
    /\ ~peer[p].known \/ TotalSent < MaxIn
    /\ Update(Receives(p, <<IdFrame(peer[p].id, p)>>))
    /\ peer' = [peer EXCEPT ![p].known = TRUE, ![p].sent = IF peer[p].known THEN @ + 1 ELSE @]
    /\ UNCHANGED <<opt, tx, log, wait>>

\* the peer terminates its end: a delimiter follows its messages, and process_pipe_term
\* may be called before or after the delimiter is read
PeerEnds(p) ==
    /\ Running
    /\ pipes[p].state \notin {"new", "gone"} /\ peer[p].ended = "no"
    /\ Update([State EXCEPT !.pipes[p].in = Append(@, Delimiter)])
    /\ peer' = [peer EXCEPT ![p].ended = "told"]
    /\ UNCHANGED <<opt, tx, log, wait>>

PipeTerm(p) ==
    /\ Running
    /\ peer[p].ended = "told" /\ pipes[p].state # "gone"
    /\ Update(Wakes([State EXCEPT !.pipes[p] = PeerTerminated(@)], p))
    /\ peer' = [peer EXCEPT ![p].ended = "done"]
    /\ UNCHANGED <<opt, tx, log, wait>>

\* socket_base_t::pipe_terminated, when the peer confirmed
PipeGone(p) ==
    /\ Running
    /\ pipes[p].state = "closing"
    /\ Update(xpipe_terminated([State EXCEPT !.pipes[p].state = "gone", !.pipes[p].in = << >>], p))
    /\ wait' = [wait EXCEPT ![p] = 0]
    /\ UNCHANGED <<opt, peer, tx, log>>

\* zmq_disconnect
Disconnect(p) ==
    /\ Running
    /\ opt.disconnects
    /\ pipes[p].state \in {"active", "waiting", "delimited"}
    /\ Update([State EXCEPT !.pipes[p] = Terminated(@, TRUE)])
    /\ UNCHANGED <<opt, peer, tx, log, wait>>

\* the option ZMQ_CONNECT_RID names the next connection
SetConnectRid ==
    /\ Running /\ kind \in {"router", "stream"} /\ opt.rid
    /\ x.connect_rid = NoId /\ ~Known(State, <<"rid", 0>>)
    /\ x' = [x EXCEPT !.connect_rid = <<"rid", 0>>]
    /\ UNCHANGED <<opt, pipes, fq, lb, peer, tx, log, wait, crash>>

\* The next part of the user's message: with ROUTER and STREAM the first names a peer; a
\* REP socket continues the envelope of the request.
Sends ==
    LET n == IF tx.more THEN tx.n ELSE tx.n + 1
        i == IF tx.more THEN tx.i + 1 ELSE 1
        ids == DOMAIN x.outpipes \cup Identities
        last == i >= 2
    IN  CASE kind \in {"router", "stream"} /\ i = 1 ->
               {Part("identity", TRUE, <<id, n>>, 0) @@ [id |-> id] : id \in ids}
          [] kind \in {"router", "stream"} ->
               {Part(f, more, <<tx.to, n>>, i - 1) :
                  f \in {"body"} \cup (IF kind = "stream" THEN {"empty"} ELSE {}),
                  more \in IF i = 3 THEN {FALSE} ELSE BOOLEAN}
          [] kind = "rep" /\ ~x.sending_reply -> {}
          [] kind = "rep" -> {Part("body", more, log[Len(log)].m, i + 1) :
                                more \in IF last THEN {FALSE} ELSE BOOLEAN}
          [] kind = "req" -> {Part("body", more, <<"me", n>>, i + (IF opt.correlate THEN 2 ELSE 1)) :
                                more \in IF last THEN {FALSE} ELSE BOOLEAN}
          [] OTHER -> {Part("body", more, <<"me", n>>, i) :
                         more \in IF last THEN {FALSE} ELSE BOOLEAN}

Sent(r, part) ==
    /\ Update(r)
    /\ tx' = IF r.rc # "ok" THEN tx
             ELSE [tx EXCEPT !.n = IF tx.more THEN @ ELSE @ + 1, !.more = part.more,
                             !.i = IF part.more THEN (IF tx.more THEN @ + 1 ELSE 1) ELSE 0,
                             !.to = part.m[1]]
Send(part) ==
    /\ Running /\ Writes
    /\ tx.more \/ tx.n < MaxOut
    /\ x.request_id < MaxOut \/ ~x.message_begins
    /\ Sent(xsend(State, part), part)
    /\ UNCHANGED <<opt, peer, log, wait>>

\* messages that fq_t delivered from others while pipe p had one to read
Waiting(r, p) ==
    IF p # r.from /\ p \in Actives(r.fq) /\ CanRead(r.pipes[p]) THEN wait[p] + 1 ELSE 0

Received(r) ==
    /\ Update(r)
    /\ log' = LET part == r.msg @@ [from |-> IF kind = "req" THEN r.from ELSE r.msg.m[1]]
              IN  IF r.rc # "ok" THEN log
                  ELSE IF log = << >> THEN <<part>> ELSE <<log[Len(log)], part>>
    /\ wait' = IF r.rc = "ok" /\ kind \in {"pull", "dealer"} /\ ~r.msg.more
                 THEN [p \in Pipes |-> Waiting(r, p)] ELSE wait
Recv ==
    /\ Running /\ Reads
    /\ Received(xrecv(State))
    /\ UNCHANGED <<opt, peer, tx>>

\* zmq_poll asks xhas_in
PollIn ==
    /\ Running /\ kind \in {"router", "stream"}
    /\ Update(RouterHasIn(State))
    /\ UNCHANGED <<opt, peer, tx, log, wait>>

Next ==
    \/ \E p \in Pipes : \/ \E id \in Identities \cup {Empty, NoId}, early \in BOOLEAN :
                              Attach(p, id, early)
                        \/ \E parts \in Messages(p) : Arrive(p, parts)
                        \/ Drain(p) \/ Identify(p) \/ PeerEnds(p) \/ PipeTerm(p) \/ PipeGone(p)
                        \/ Disconnect(p)
    \/ SetConnectRid \/ Recv \/ PollIn
    \/ \E part \in Sends : Send(part)

Spec == Init /\ [][Next]_vars
-----------------------------------------------------------------------------
Follows(b, a, first) ==
    IF a.more THEN b.m = a.m /\ b.i = a.i + 1 ELSE b.i = first
Interrupted(a) == a.more /\ pipes[a.from].state \in {"closing", "gone"}

\* Messages are atomic: whatever pipes come and go, the parts that the user receives are those
\* of one message after another, and so are the parts that each peer gets.  A message whose
\* pipe the socket itself closes while the user reads it is the exception, and PAIR is left
\* out altogether: its code forgets a peer in the middle of a message, and nothing stops the
\* next peer from getting the rest.
FirstIn == CASE kind \in {"router", "stream"} -> 0
             [] kind = "rep" -> 2
             [] kind = "req" -> (IF opt.correlate THEN 3 ELSE 2)
             [] OTHER -> 1
WholeMessages ==
    (Running /\ kind # "pair") =>
        /\ Len(log) = 2 => Interrupted(log[1]) \/ Follows(log[2], log[1], FirstIn)
        /\ \A p \in Pipes : LET d == pipes[p].delivered
                            IN  /\ \A j \in 1..(Len(d) - 1) : Follows(d[j + 1], d[j], 1)
                                /\ d # << >> => ~d[Len(d)].more

\* The right peer: a reply that REQ returns answers its last request; a reply that REP sends
\* goes to the peer that asked; a message that ROUTER sends to an identity reaches only a peer
\* that announced it, also when the identity moves to another connection.
RightPeer == Running =>
    /\ (kind = "req" /\ log # << >> /\ ~x.receiving_reply /\ ~tx.more) =>
          log[Len(log)].m = <<"me", tx.n>>
    /\ kind = "rep" => \A p \in Pipes : \A d \in Range(pipes[p].delivered) : d.m[1] = p
    /\ kind = "router" => \A p \in Pipes : \A d \in Range(pipes[p].delivered) :
                            d.m[1] \in Identities => d.m[1] = peer[p].id

\* No pipe is forgotten: a pipe that is outside the active part of fq_t or lb_t, or is marked
\* in the table of a ROUTER, is one that its peer wakes up; and no assertion of these classes
\* fails, except those of fq_t and lb_t on a message that is not finished.
Open == {p \in Pipes : pipes[p].state \in {"active", "waiting"}}
NoForgottenPipe ==
    /\ \A p \in Open \cap Range(fq.pipes) : p \in Actives(fq) \/ ~pipes[p].in_active
    /\ \A p \in Open \cap Range(lb.pipes) :
          p \in Actives(lb) \/ ~pipes[p].out_active \/ pipes[p].state = "waiting"
    /\ \A id \in DOMAIN x.outpipes :
          LET o == x.outpipes[id]
          IN  /\ pipes[o.pipe].identity = id
              /\ (pipes[o.pipe].state = "active" /\ ~o.active) => ~pipes[o.pipe].out_active
    /\ crash \in {"none", "lb", "fq"}

\* Fair queueing: a pipe that has a message waits for at most one message of each other pipe,
\* although pipes change places when they fall asleep, wake up or go.
FairShare == \A p \in Pipes : wait[p] <= Cardinality(opt.pipes) - 1
=============================================================================
