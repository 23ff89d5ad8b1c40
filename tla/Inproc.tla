--------------------------------- MODULE Inproc ---------------------------------
(***************************************************************************)
(* The inproc transport: the registry of endpoints in the context, the     *)
(* connections that wait there for a bind, and the sockets that bind,      *)
(* connect, disconnect and close in threads of their own while another     *)
(* thread terminates the context.  One address is modelled, and each       *)
(* connection is named after the socket that makes it; its pipe has an end *)
(* "c" at that socket and an end "b" at the one that binds.                *)
(***************************************************************************)
EXTENDS Integers, Sequences, SequencesExt, FiniteSets

CONSTANTS
    Sockets,        \* the sockets of the application
    Connecting,     \* those that connect, once each
    Binding,        \* those that bind
    Temporary,      \* the PAIR socket that ctx_t::terminate binds
    Options         \* the options a socket may be given

ASSUME InprocAssumption ==
    /\ IsFiniteSet(Sockets) /\ Temporary \notin Sockets /\ Connecting \cup Binding \subseteq Sockets
    /\ {"null", "idle", "unbound", "connect_pending", "connecting", "greeting"} \cap (Sockets \cup {Temporary}) = {}
    /\ Options \subseteq [recv_identity : BOOLEAN, probe_router : BOOLEAN, sndhwm : Nat, rcvhwm : Nat]

All == Sockets \cup {Temporary}
Ends == {"c", "b"}
Other(e) == IF e = "c" THEN "b" ELSE "c"
Null == "null"

VARIABLES
    options,        \* by socket: recv_identity, probe_router, sndhwm, rcvhwm
    sock,           \* own_t and socket_base_t of each socket
    pc,             \* what each socket's thread is doing: a call in two parts
    mail,           \* the mailboxes
    endpoint,       \* ctx_t::endpoints at the address: the socket bound there
    pending,        \* ctx_t::pending_connections: the connections that wait
    conn,           \* by connection: its pipe
    read,           \* by connection and end: what the socket has read from it
    terminating,    \* ctx_t::terminating
    term,           \* the thread in zmq_ctx_term
    crash           \* the assertion that ended the process, or a null pointer

vars == <<options, sock, pc, mail, endpoint, pending, conn, read, terminating, term, crash>>

Born == [life |-> "open", terminating |-> FALSE, sent_seqnum |-> 0, processed_seqnum |-> 0,
         term_acks |-> 0, pipes |-> {}, inprocs |-> {}, ctx_terminated |-> FALSE]
Absent == [Born EXCEPT !.life = "absent"]
End(tid) == [state |-> "active", delay |-> TRUE, in |-> << >>, tid |-> tid]
Conn(c, b, hwms) ==
    [made |-> TRUE, deleted |-> {}, hwms |-> hwms, binder |-> Null, side |-> Null,
     ends |-> [e \in Ends |-> End(IF e = "c" THEN c ELSE b)]]
NoConn(c) == [Conn(c, c, [snd |-> 0, rcv |-> 0]) EXCEPT !.made = FALSE]

PairOptions == [recv_identity |-> FALSE, probe_router |-> FALSE, sndhwm |-> 1000, rcvhwm |-> 1000]

Init ==
    /\ options \in {o \in [All -> Options \cup {PairOptions}] :
                      o[Temporary] = PairOptions /\ \A s \in Sockets : o[s] \in Options}
    /\ sock = [s \in All |-> IF s \in Sockets THEN Born ELSE Absent]
    /\ pc = [s \in All |-> "idle"]
    /\ mail = [s \in All |-> << >>]
    /\ endpoint = Null /\ pending = {} /\ terminating = FALSE /\ term = "idle"
    /\ conn = [c \in Connecting |-> NoConn(c)]
    /\ read = [c \in Connecting |-> [e \in Ends |-> << >>]]
    /\ crash = "none"
-----------------------------------------------------------------------------
State == [sock |-> sock, mail |-> mail, conn |-> conn, crash |-> crash]
Update(r) == sock' = r.sock /\ mail' = r.mail /\ conn' = r.conn /\ crash' = r.crash

Expect(r, ok, what) == IF ok \/ r.crash # "none" THEN r ELSE [r EXCEPT !.crash = what]
Cmd(type, c, e) == [type |-> type, conn |-> c, end |-> e]
Send(r, s, cmd) == [Expect(r, r.sock[s].life # "deleted", "deleted") EXCEPT
                      !.mail[s] = Append(@, cmd)]
\* a command for an end goes to the thread that the end says it runs in
SendPipe(r, type, c, e) == Send(r, r.conn[c].ends[e].tid, Cmd(type, c, e))
inc_seqnum(r, s) ==
    [Expect(r, r.sock[s].life # "deleted", "deleted") EXCEPT !.sock[s].sent_seqnum = @ + 1]

\* own_t::check_term_acks of a socket
CheckTermAcks(r, s) ==
    LET x == r.sock[s]
    IN  IF x.terminating /\ x.processed_seqnum = x.sent_seqnum /\ x.term_acks = 0
          THEN [r EXCEPT !.sock[s].life = "destroyed"] ELSE r

process_seqnum(r, s) == CheckTermAcks([r EXCEPT !.sock[s].processed_seqnum = @ + 1], s)

\* pipe_t::terminate of the ends P of pipes, at once: none of the calls looks at what
\* another one changes.  The peer learns from the delimiter that no message follows.
TerminatePipes(r, P, delay) ==
    LET Stage(p)   == r.conn[p[1]].ends[p[2]].state
        Peer(p)    == r.conn[p[1]].ends[Other(p[2])].tid
        Asking     == {p \in P : Stage(p) \in {"active", "delimiter_received"}}
        Waiting    == {p \in P : Stage(p) = "waiting_for_delimiter"}
        Answering  == IF delay THEN {} ELSE Waiting
        Writing    == IF delay THEN Asking \cup Waiting ELSE Asking
        Told(s)    == {Cmd("pipe_term", p[1], Other(p[2])) : p \in {q \in Asking : Peer(q) = s}}
                      \cup {Cmd("pipe_term_ack", p[1], Other(p[2])) :
                              p \in {q \in Answering : Peer(q) = s}}
        After(x, c, e) ==
            [x EXCEPT !.state = IF <<c, e>> \in Asking THEN "term_req_sent1"
                                ELSE IF <<c, e>> \in Answering THEN "term_ack_sent" ELSE @,
                      !.delay = IF <<c, e>> \in P THEN delay ELSE @,
                      !.in = IF <<c, Other(e)>> \in Writing THEN Append(@, "delimiter") ELSE @]
    IN  Expect([r EXCEPT !.conn = [c \in Connecting |->
                                     [r.conn[c] EXCEPT !.ends =
                                        [e \in Ends |-> After(r.conn[c].ends[e], c, e)]]],
                         !.mail = [s \in All |-> r.mail[s] \o SetToSeq(Told(s))]],
               \A p \in Asking \cup Answering : r.sock[Peer(p)].life # "deleted", "deleted")
TerminatePipe(r, c, e, delay) == TerminatePipes(r, {<<c, e>>}, delay)

\* Mutant: an end that asked for termination itself does not confirm the other's.
process_pipe_term_unanswered(r, c, e) ==
    LET p == r.conn[c].ends[e]
    IN  CASE p.state = "active" /\ p.delay ->
               [r EXCEPT !.conn[c].ends[e].state = "waiting_for_delimiter"]
          [] p.state = "term_req_sent1" -> [r EXCEPT !.conn[c].ends[e].state = "term_req_sent2"]
          [] OTHER -> SendPipe([r EXCEPT !.conn[c].ends[e].state = "term_ack_sent"],
                               "pipe_term_ack", c, Other(e))

\* pipe_t::process_pipe_term
process_pipe_term(r, c, e) ==
    LET p == r.conn[c].ends[e]
        Ack(t) == SendPipe(t, "pipe_term_ack", c, Other(e))
    IN  CASE p.state = "active" /\ p.delay ->
               [r EXCEPT !.conn[c].ends[e].state = "waiting_for_delimiter"]
          [] p.state = "term_req_sent1" -> Ack([r EXCEPT !.conn[c].ends[e].state = "term_req_sent2"])
          [] OTHER -> Ack([r EXCEPT !.conn[c].ends[e].state = "term_ack_sent"])

\* socket_base_t::pipe_terminated
pipe_terminated(r, s, c, e) ==
    LET x == [r EXCEPT !.sock[s].pipes = @ \ {<<c, e>>}, !.sock[s].inprocs = @ \ {<<c, e>>}]
    IN  IF r.sock[s].terminating THEN CheckTermAcks([x EXCEPT !.sock[s].term_acks = @ - 1], s)
        ELSE x

\* pipe_t::process_pipe_term_ack, in the thread of socket s
process_pipe_term_ack(r, c, e, s) ==
    LET x == IF r.conn[c].ends[e].state = "term_req_sent1"
               THEN SendPipe(r, "pipe_term_ack", c, Other(e)) ELSE r
        y == [x EXCEPT !.conn[c].deleted = @ \cup {e}]
    IN  pipe_terminated(Expect(y, <<c, e>> \in r.sock[s].pipes, "sink"), s, c, e)

\* pipe_t::write: it fails when the end is not active and at the high watermark.  What the
\* peer reads is taken to be reported at once.
Write(r, c, e, msg) == [r EXCEPT !.conn[c].ends[Other(e)].in = Append(@, msg)]
Full(r, c, e) ==
    LET hwm == IF e = "c" THEN r.conn[c].hwms.snd ELSE r.conn[c].hwms.rcv
        q   == r.conn[c].ends[Other(e)].in
    IN  hwm # 0 /\ Cardinality({i \in DOMAIN q : q[i] \notin {"identity", "delimiter"}}) >= hwm
check_write(r, c, e) == r.conn[c].ends[e].state = "active" /\ ~Full(r, c, e)
MustWrite(r, c, e, msg) == Expect(Write(r, c, e, msg), check_write(r, c, e), "write")

\* xattach_pipe with ZMQ_PROBE_ROUTER writes an empty message, if it can; a PAIR that has
\* a pipe asks any other to terminate.
Probe(r, s, c, e) ==
    IF options[s].probe_router /\ check_write(r, c, e) THEN Write(r, c, e, "probe") ELSE r
Occupied(r, s) == s = Temporary /\ r.sock[s].pipes # {}

\* socket_base_t::attach_pipe
AttachPipe(r, s, c, e) ==
    LET x == Probe([r EXCEPT !.sock[s].pipes = @ \cup {<<c, e>>}], s, c, e)
        y == IF r.sock[s].terminating THEN [x EXCEPT !.sock[s].term_acks = @ + 1] ELSE x
    IN  IF r.sock[s].terminating \/ Occupied(r, s) THEN TerminatePipe(y, c, e, FALSE) ELSE x
-----------------------------------------------------------------------------
\* The limit for what the connecter sends, and for what it receives.
Hwm(own, peer) == IF own # 0 /\ peer # 0 THEN own + peer ELSE 0
PipeHwms(c, b) == [snd |-> Hwm(options[c].sndhwm, options[b].rcvhwm),
                   rcv |-> Hwm(options[c].rcvhwm, options[b].sndhwm)]

\* the pipe between connecter c and socket b; with no socket bound its other end is in
\* the thread of the connecter too
Pipepair(r, c, b, hwms) ==
    [r EXCEPT !.sock[c].inprocs = {<<c, "c">>},
              !.conn[c] = Conn(c, b, hwms)]

\* Mutant: the limits of a connection that waited are left as they were.
SetHwmsNot(r, c, b) == [r EXCEPT !.conn[c].binder = b]
SetHwms(r, c, b) == [r EXCEPT !.conn[c].hwms = PipeHwms(c, b), !.conn[c].binder = b]

\* The first part of ctx_t::connect_inproc_sockets: the end that waited moves to the
\* thread of the socket, and what it holds first, an identity, is dropped unless the socket
\* expects it.
\* Mutant: the identity is dropped although the socket expects it.
AdoptEndAlways(r, c, b, side) ==
    SetHwms([inc_seqnum(r, b) EXCEPT !.conn[c].ends["b"].tid = b, !.conn[c].side = side,
                                     !.conn[c].ends["b"].in = Tail(@)], c, b)
AdoptEnd(r, c, b, side) ==
    LET x == SetHwms([inc_seqnum(r, b) EXCEPT !.conn[c].ends["b"].tid = b, !.conn[c].side = side], c, b)
    IN  IF options[b].recv_identity THEN x
        ELSE [Expect(x, r.conn[c].ends["b"].in # << >> /\ r.conn[c].ends["b"].state # "term_ack_sent", "read")
                EXCEPT !.conn[c].ends["b"].in = Tail(@)]

SendIdentity(r, c) ==
    IF options[c].recv_identity THEN MustWrite(r, c, "b", "identity") ELSE r

\* The rest of ctx_t::connect_inproc_sockets, run by the socket that binds: it processes the
\* command bind itself and tells the connecter, ...
ConnectBindSide(r, c, b) ==
    SendIdentity(
      Send(process_seqnum(AttachPipe(AdoptEnd(r, c, b, "bind_side"), b, c, "b"), b), c,
           Cmd("inproc_connected", c, "c")), c)
\* ... or by the one that connects: once the command is sent, the binder's thread may use
\* the end that the identity has yet to be written through (ConnectGreeting).
ConnectConnectSide(r, c, b) == Send(AdoptEnd(r, c, b, "connect_side"), b, Cmd("bind", c, "b"))

\* The queue when the connecter writes the identity, with what the binder's thread wrote
\* before or, in a data race, at the same time: both store into the same element, and the
\* index moves once, or twice over an element that nobody initialized.
Greeted(q) ==
    IF q = << >> THEN {<<"identity">>}
    ELSE LET same == {q, Append(Front(q), "identity")}
         IN  {Append(q, "identity")} \cup same \cup {Append(p, "garbage") : p \in same}
-----------------------------------------------------------------------------
\* A call of the application: bind, connect and term_endpoint process commands first.
Calls(s) ==
    /\ sock[s].life = "open" /\ pc[s] = "idle"
    /\ ~sock[s].ctx_terminated /\ mail[s] = << >>

Other5 == <<options, pending, read, terminating, term>>

\* ctx_t::endpoints_sync: nobody is in connect_pending or in pend_connection, the two parts
\* that others run beside
Unlocked == \A s \in All : pc[s] \notin {"connecting", "greeting"}

\* socket_base_t::bind: register_endpoint, and then connect_pending
BindRegister(s) ==
    /\ Calls(s) /\ endpoint = Null /\ Unlocked
    /\ endpoint' = s
    /\ pc' = [pc EXCEPT ![s] = "connect_pending"]
    /\ UNCHANGED <<sock, mail, pending, conn, read, terminating, term, crash, options>>

ConnectPending(s) ==
    /\ \/ pc[s] = "connect_pending" /\ Unlocked
       \/ pc[s] = "connecting"
    /\ \/ /\ pending = {}
          /\ pc' = [pc EXCEPT ![s] = "idle"] /\ UNCHANGED <<pending, sock, mail, conn, crash>>
       \/ \E c \in pending :
             /\ Update(ConnectBindSide(State, c, s))
             /\ pending' = pending \ {c}
             /\ pc' = [pc EXCEPT ![s] = IF pending' = {} THEN "idle" ELSE "connecting"]
    /\ UNCHANGED <<options, endpoint, read, terminating, term>>

\* socket_base_t::connect: find_endpoint, and then the rest
\* Mutant: the socket that is found is not kept alive.
FindEndpointUncounted(s) ==
    /\ Calls(s) /\ ~conn[s].made /\ Unlocked
    /\ pc' = [pc EXCEPT ![s] = IF endpoint = Null THEN "unbound" ELSE endpoint]
    /\ UNCHANGED <<options, sock, mail, endpoint, pending, conn, read, terminating, term, crash>>

FindEndpoint(s) ==
    /\ Calls(s) /\ ~conn[s].made /\ Unlocked
    /\ pc' = [pc EXCEPT ![s] = IF endpoint = Null THEN "unbound" ELSE endpoint]
    /\ Update(IF endpoint = Null THEN State ELSE inc_seqnum(State, endpoint))
    /\ UNCHANGED <<options, endpoint, pending, read, terminating, term>>

ConnectFound(s) ==
    /\ pc[s] \in All
    /\ LET b == pc[s]
           r == AttachPipe(Pipepair(State, s, b, PipeHwms(s, b)), s, s, "c")
           x == IF options[b].recv_identity THEN MustWrite(r, s, "c", "identity") ELSE r
           y == SendIdentity([x EXCEPT !.conn[s].binder = b, !.conn[s].side = "found"], s)
       IN  Update(Send(y, b, Cmd("bind", s, "b")))
    /\ pc' = [pc EXCEPT ![s] = "idle"]
    /\ UNCHANGED <<options, endpoint, pending, read, terminating, term>>

\* ... with ctx_t::pend_connection: an identity is always sent
ConnectUnbound(s) ==
    /\ pc[s] = "unbound" /\ Unlocked
    /\ LET hwms == [snd |-> options[s].sndhwm, rcv |-> options[s].rcvhwm]
           r == MustWrite(AttachPipe(Pipepair(State, s, s, hwms), s, s, "c"), s, "c", "identity")
       IN  \/ /\ endpoint = Null
              /\ Update(inc_seqnum(r, s))
              /\ pending' = pending \cup {s}
           \/ /\ endpoint # Null
              /\ Update(ConnectConnectSide(r, s, endpoint))
              /\ UNCHANGED pending
    /\ pc' = [pc EXCEPT ![s] = IF endpoint # Null /\ options[s].recv_identity THEN "greeting" ELSE "idle"]
    /\ UNCHANGED <<options, endpoint, read, terminating, term>>

\* ... and the identity that the connecter expects, written for the binder: before anything
\* else, or after something that the binder's thread wrote
GreetedSide(s) ==
    IF conn[s].ends["c"].in = << >> /\ read[s]["c"] = << >> THEN "greeted" ELSE "connect_side"
ConnectGreeting(s) ==
    /\ pc[s] = "greeting"
    /\ \E q \in Greeted(conn[s].ends["c"].in) :
         Update(Expect([State EXCEPT !.conn[s].ends["c"].in = q, !.conn[s].side = GreetedSide(s)],
                       check_write(State, s, "b"), "write"))
    /\ pc' = [pc EXCEPT ![s] = "idle"]
    /\ UNCHANGED <<options, endpoint, pending, read, terminating, term>>

\* socket_base_t::term_endpoint: the address is unbound, or the connections to it end
TermEndpoint(s) ==
    /\ Calls(s) /\ Unlocked
    /\ \/ /\ endpoint = s
          /\ endpoint' = Null /\ UNCHANGED <<sock, mail, conn, crash>>
       \/ /\ endpoint # s /\ sock[s].inprocs # {}
          /\ Update(TerminatePipe([State EXCEPT !.sock[s].inprocs = {}], s, "c", TRUE))
          /\ UNCHANGED endpoint
    /\ UNCHANGED <<Other5, pc>>

\* A message is sent through an end, and one is read; at most one is sent each way.
SendMessage(s, c, e) ==
    /\ Calls(s) /\ <<c, e>> \in sock[s].pipes /\ check_write(State, c, e)
    /\ ~\E i \in DOMAIN conn[c].ends[Other(e)].in : conn[c].ends[Other(e)].in[i] = "message"
    /\ "message" \notin ToSet(read[c][Other(e)])
    /\ Update(Write(State, c, e, "message"))
    /\ UNCHANGED <<Other5, pc, endpoint>>

\* pipe_t::read, which the socket does as long as it is not closed; a delimiter is
\* consumed by process_delimiter
Receive(s, c, e) ==
    /\ sock[s].life = "open" /\ pc[s] = "idle" /\ <<c, e>> \in sock[s].pipes
    /\ conn[c].ends[e].state \in {"active", "waiting_for_delimiter"} /\ conn[c].ends[e].in # << >>
    /\ LET msg == Head(conn[c].ends[e].in)
           r   == [State EXCEPT !.conn[c].ends[e].in = Tail(@)]
       IN  \/ /\ msg = "delimiter" /\ conn[c].ends[e].state = "active"
              /\ Update([r EXCEPT !.conn[c].ends[e].state = "delimiter_received"])
              /\ UNCHANGED read
           \/ /\ msg = "delimiter" /\ conn[c].ends[e].state = "waiting_for_delimiter"
              /\ Update(SendPipe([r EXCEPT !.conn[c].ends[e].state = "term_ack_sent"],
                                 "pipe_term_ack", c, Other(e)))
              /\ UNCHANGED read
           \/ /\ msg # "delimiter"
              /\ Update(r)
              /\ read' = [read EXCEPT ![c][e] = Append(@, msg)]
    /\ UNCHANGED <<options, pc, endpoint, pending, terminating, term>>

Close(s) ==
    /\ s \in Sockets /\ sock[s].life = "open" /\ pc[s] = "idle"
    /\ sock' = [sock EXCEPT ![s].life = "closed"]
    /\ UNCHANGED <<Other5, pc, mail, endpoint, conn, crash>>

\* reaper_t::process_reap: socket_base_t::process_term unregisters the address and asks
\* the pipes to terminate
UnregisterEndpoints(s) == IF endpoint = s THEN Null ELSE endpoint
Reap(s) ==
    /\ sock[s].life = "closed" /\ Unlocked
    /\ LET r == [State EXCEPT !.sock[s].life = "reaping", !.sock[s].terminating = TRUE,
                              !.sock[s].term_acks = Cardinality(sock[s].pipes)]
       IN  Update(CheckTermAcks(TerminatePipes(r, sock[s].pipes, FALSE), s))
    /\ endpoint' = UnregisterEndpoints(s)
    /\ UNCHANGED <<Other5, pc>>

\* object_t::process_command, in the thread of the application or of the reaper
process_command(r, s, cmd) ==
    CASE cmd.type = "bind" -> process_seqnum(AttachPipe(r, s, cmd.conn, cmd.end), s)
      [] cmd.type = "inproc_connected" -> process_seqnum(r, s)
      [] cmd.type = "stop" -> [r EXCEPT !.sock[s].ctx_terminated = TRUE]
      [] cmd.type = "pipe_term" ->
           process_pipe_term(Expect(r, cmd.end \notin r.conn[cmd.conn].deleted, "deleted"),
                             cmd.conn, cmd.end)
      [] cmd.type = "pipe_term_ack" ->
           process_pipe_term_ack(Expect(r, cmd.end \notin r.conn[cmd.conn].deleted, "deleted"),
                                 cmd.conn, cmd.end, s)

ProcessCommand(s) ==
    /\ mail[s] # << >> /\ sock[s].life \in {"open", "reaping", "destroyed"} /\ pc[s] = "idle"
    /\ Update(process_command([State EXCEPT !.mail[s] = Tail(@)], s, Head(mail[s])))
    /\ UNCHANGED <<Other5, pc, endpoint>>

\* socket_base_t::check_destroy: only the command stop may be left behind
CheckDestroy(s) ==
    /\ sock[s].life = "destroyed"
    /\ Update(Expect([State EXCEPT !.sock[s].life = "deleted"],
                     \A i \in DOMAIN mail[s] : mail[s][i].type = "stop", "deleted"))
    /\ UNCHANGED <<Other5, pc, endpoint>>
-----------------------------------------------------------------------------
\* ctx_t::terminate binds a socket of its own where connections wait, and closes it: three
\* calls between which the others go on.  create_socket gives none once the context is
\* terminating.
TermPending ==
    /\ term = "idle"
    /\ \/ /\ pending = {}
          /\ term' = "stop" /\ UNCHANGED <<sock, crash>>
       \/ /\ pending # {} /\ terminating
          /\ crash' = "null" /\ UNCHANGED <<term, sock>>
       \/ /\ pending # {} /\ ~terminating /\ sock[Temporary] = Absent
          /\ term' = "bind"
          /\ sock' = [sock EXCEPT ![Temporary] = Born] /\ UNCHANGED crash
    /\ UNCHANGED <<options, pc, mail, endpoint, pending, conn, read, terminating>>

\* the address may have been bound in the meantime: then the call fails
TermBind ==
    /\ term = "bind" /\ pc[Temporary] = "idle"
    /\ \/ endpoint = Null /\ BindRegister(Temporary)
       \/ /\ endpoint # Null
          /\ sock' = [sock EXCEPT ![Temporary].life = "closed"]
          /\ term' = "stop"
          /\ UNCHANGED <<options, pc, mail, endpoint, pending, conn, read, terminating, crash>>

TermClose ==
    /\ term = "bind" /\ endpoint = Temporary /\ pc[Temporary] = "idle"
    /\ sock' = [sock EXCEPT ![Temporary].life = "closed"]
    /\ term' = "stop"
    /\ UNCHANGED <<options, pc, mail, endpoint, pending, conn, read, terminating, crash>>

Remaining == {s \in All : sock[s].life \notin {"absent", "deleted"}}
StopAll ==
    /\ terminating' = TRUE
    /\ mail' = IF terminating THEN mail
               ELSE [s \in All |-> IF s \in Remaining THEN Append(mail[s], Cmd("stop", Null, Null))
                                   ELSE mail[s]]
    /\ UNCHANGED <<options, sock, pc, endpoint, pending, conn, read, crash>>

TermStop == term = "stop" /\ StopAll /\ term' = "waiting"
Shutdown == term = "idle" /\ ~terminating /\ StopAll /\ UNCHANGED term

TermDone ==
    /\ term = "waiting" /\ Remaining = {}
    /\ term' = "deleted"
    /\ UNCHANGED <<options, sock, pc, mail, endpoint, pending, conn, read, terminating, crash>>

Running == crash = "none"

Application ==
    \/ \E s \in Binding : Running /\ BindRegister(s)
    \/ \E s \in Connecting : Running /\ FindEndpoint(s)
    \/ \E s \in Connecting : Running /\ ConnectFound(s)
    \/ \E s \in Connecting : Running /\ ConnectUnbound(s)
    \/ \E s \in Connecting : Running /\ ConnectGreeting(s)
    \/ \E s \in Sockets : Running /\ TermEndpoint(s)
    \/ \E s \in Sockets : Running /\ Close(s)
    \/ \E s \in Sockets, c \in Connecting, e \in Ends : Running /\ SendMessage(s, c, e)
    \/ \E s \in Sockets, c \in Connecting, e \in Ends : Running /\ Receive(s, c, e)

Library ==
    \/ \E s \in All : Running /\ ConnectPending(s)
    \/ \E s \in All : Running /\ Reap(s)
    \/ \E s \in All : Running /\ ProcessCommand(s)
    \/ \E s \in All : Running /\ CheckDestroy(s)

Termination ==
    \/ Running /\ TermPending
    \/ Running /\ TermBind
    \/ Running /\ TermClose
    \/ Running /\ TermStop
    \/ Running /\ TermDone
    \/ Running /\ Shutdown

Next == Application \/ Library \/ Termination

Spec == Init /\ [][Next]_vars
-----------------------------------------------------------------------------
\* No command reaches a socket or an end of a pipe that is deleted, no end is reported to
\* a socket that does not have it, and the identity that a waiting connection starts with
\* is there to be dropped: the sequence numbers that find_endpoint and pend_connection
\* increment keep the sockets alive across the calls of several threads.
NoUseAfterDelete == crash \notin {"deleted", "sink", "read"}

SocketAt(c, e) == IF e = "c" THEN c ELSE conn[c].binder

\* The ends at which something may stand before the identity: the peer probes when it gets
\* its end, before the identity is written; the binder's thread wrote before the connecter's
\* wrote the binder's identity; and the socket of ctx_t::terminate may refuse the pipe.
Late(x, c, e) ==
    IF e = "b" THEN options[c].probe_router
    ELSE \/ x.side = "connect_side" /\ options[c].recv_identity
         \/ x.side = "bind_side" /\ (options[x.binder].probe_router \/ x.binder = Temporary)

IdentityFirstAt(c, e) ==
    \A i \in DOMAIN read[c][e] :
      read[c][e][i] = "identity" <=> (i = 1 /\ options[SocketAt(c, e)].recv_identity)

\* Whichever of bind and connect comes first, a socket that expects identities (ROUTER,
\* REP) reads the identity of its peer before anything else, and no other ever reads one,
\* unless the peer probes (dealer.cpp:52, router.cpp:74) or the binder wrote between the
\* command bind and the identity (ctx.cpp:548, 557).
IdentityFirst ==
    \A c \in Connecting, e \in Ends : ~Late(conn[c], c, e) => IdentityFirstAt(c, e)

\* Whichever of bind and connect comes first, the high watermarks of a connection are the
\* sums of what its two sockets were given, and unlimited if one of them is.
HwmsAgree ==
    \A c \in Connecting :
      conn[c].made /\ conn[c].binder # Null => conn[c].hwms = PipeHwms(c, conn[c].binder)

\* The guards of the steps that the library takes by itself.
Quiet ==
    \A s \in All :
      /\ pc[s] = "idle" /\ sock[s].life \notin {"closed", "destroyed"}
      /\ sock[s].life = "deleted" \/ mail[s] = << >>

\* When all sockets are closed and nothing is on its way, each of them is deleted unless
\* its own connection still waits for a bind.
OnlyWaitingRemain ==
    Quiet /\ Running /\ (\A s \in Sockets : sock[s].life # "open") /\ sock[Temporary].life # "open"
      => Remaining \subseteq pending
=============================================================================
