-------------------------------- MODULE Session ---------------------------------
(***************************************************************************)
(* session_base_t between a pipe and a stream_engine_t, with the connecter *)
(* or listener that makes the connections.  The socket writes, reads and   *)
(* closes at the other end of the pipe, the peer at the other end of the   *)
(* connection, which may break at any time.  The handshake is the greeting *)
(* and one command each way (the NULL mechanism); Handshake has the rest.  *)
(* An operator works on a record r: the pipes, the session s, the engine   *)
(* e, the connecter c and the connection w.                                *)
(***************************************************************************)
EXTENDS SocketPipe, Connecter

CONSTANTS
    Scenarios,      \* the options of the socket, and bounds on what happens
    Lingers,        \* values of ZMQ_LINGER
    out_batch       \* frames that an engine encodes at a time

ASSUME SessionAssumption == out_batch \in Nat \ {0} /\ Lingers \subseteq {-1, 0, 1}

VARIABLES
    opt,        \* the scenario
    pipes,      \* the pipes, as the session sees them
    session, engine, connecter, wire,
    env,        \* what the user and the peer have done
    crash       \* the assertion that failed

vars == <<opt, pipes, session, engine, connecter, wire, env, crash>>

PipeIds == 1..3
Frame(flavour, more, m, i) == [flavour |-> flavour, more |-> more, m |-> m, i |-> i]
Mark(flavour) == Frame(flavour, FALSE, 0, 0)
\* messages have two parts and one part in turn
Frames(m) == IF m % 2 = 1 THEN <<Frame("part", TRUE, m, 1), Frame("part", FALSE, m, 2)>>
             ELSE <<Frame("part", FALSE, m, 1)>>
User(frames) == SelectSeq(frames, LAMBDA f : f.flavour = "part")

NoWire == [up |-> FALSE, in |-> << >>, closed |-> FALSE, sent |-> << >>, stage |-> 0,
           mid |-> FALSE]

\* the constructor of session_base_t
NewSession(own) ==
    [pipe |-> 0, made |-> 0, detached |-> {}, zap |-> "none", incomplete_in |-> FALSE,
     pending |-> FALSE, linger |-> 0, has_linger_timer |-> FALSE, own |-> own, attach |-> FALSE,
     plugged |-> FALSE, delayed |-> FALSE, asked |-> FALSE, termed |-> FALSE]

\* the constructor of stream_engine_t
NewEngine ==
    [live |-> TRUE, handshaking |-> TRUE, has_handshake_timer |-> opt.handshake_ivl,
     next_msg |-> "identity_msg", process_msg |-> "process_identity_msg",
     input_stopped |-> FALSE, output_stopped |-> FALSE, io_error |-> FALSE,
     pollin |-> TRUE, pollout |-> TRUE, in |-> << >>, held |-> Mark("none"),
     out |-> <<Mark("greeting")>>, subscription_required |-> FALSE,
     mechanism |-> FALSE, ready_sent |-> FALSE, ready_received |-> FALSE, zap |-> "none"]
NoEngine == [NewEngine EXCEPT !.live = FALSE, !.has_handshake_timer = FALSE, !.out = << >>]

\* zmq_connect makes the pipe at once, unless ZMQ_IMMEDIATE is set
Eager == opt.active /\ ~opt.immediate

Init ==
    /\ opt \in Scenarios
    /\ session = LET s == NewSession(IF opt.active THEN "running" ELSE "absent")
                 IN  IF Eager THEN [s EXCEPT !.pipe = 1, !.made = 1] ELSE s
    /\ pipes = [p \in PipeIds |-> [NewPipe(opt.hwm) EXCEPT
                  !.state = IF Eager /\ p = 1 THEN "active" ELSE "new"]]
    /\ engine = NoEngine /\ connecter = NoConnecter /\ wire = NoWire
    /\ env = [written |-> 0, arrived |-> 0, conns |-> 0, closed |-> FALSE, shut |-> {}, told |-> {},
              zap |-> FALSE, dropped |-> FALSE]
    /\ crash = "none"

State(n) == [pipes |-> pipes, s |-> session, e |-> engine, c |-> connecter, w |-> wire,
             crash |-> crash, rc |-> "ok", msg |-> Delimiter, n |-> n]
Update(r) ==
    /\ pipes' = r.pipes /\ session' = r.s /\ engine' = r.e /\ connecter' = r.c /\ wire' = r.w
    /\ crash' = r.crash /\ UNCHANGED opt
Running == crash = "none"
HasPipe(r) == r.s.pipe # 0
Mine(r) == r.pipes[r.s.pipe]
-----------------------------------------------------------------------------
(* The session as its engine uses it.                                      *)

pull_msg(r) ==
    IF ~HasPipe(r) THEN Returns(r, "again")
    ELSE IF ~CanRead(Mine(r)) THEN [Returns(r, "again") EXCEPT !.pipes[r.s.pipe] = CheckRead(@)]
    ELSE LET f == Head(Mine(r).in)
         IN  [r EXCEPT !.pipes[r.s.pipe].in = Tail(@), !.s.incomplete_in = f.more,
                       !.msg = f, !.rc = "ok"]

\* an identity is not counted against the high-water mark
Put(p, f) == IF f.flavour = "identity" THEN [p EXCEPT !.delivered = Append(@, f)]
             ELSE WritePart(p, f)
push_msg(r, f) ==
    IF ~HasPipe(r) THEN Returns(r, "again")
    ELSE IF ~CanWrite(Mine(r)) THEN [Returns(r, "again") EXCEPT !.pipes[r.s.pipe] = CheckWrite(@)]
    ELSE [Returns(r, "ok") EXCEPT !.pipes[r.s.pipe] = Put(@, f)]

\* Mutant: the rest of a message that was half sent stays in the pipe.
clean_pipes_keeps(r) ==
    [r EXCEPT !.pipes[r.s.pipe].partial = << >>, !.s.incomplete_in = FALSE]

\* Half a message written is taken back, the rest of a half-read one is read.
DropRest(r) == IF ~r.s.incomplete_in THEN r
               ELSE LET t == pull_msg(r) IN IF t.rc = "ok" THEN t ELSE Fail(t, "clean_pipes")
clean_pipes(r) ==
    Loop(LAMBDA t : IF t.crash = "none" THEN DropRest(t) ELSE t,
         [r EXCEPT !.pipes[r.s.pipe].partial = << >>], 2)

\* pipe_t::hiccup; what the socket wrote into the old pipe is lost
Hiccuped(p) == IF p.state # "active" THEN p ELSE [p EXCEPT !.in = << >>, !.in_active = TRUE]

\* session_base_t::start_connecting launches a connecter
StartConnecting(r, wait) ==
    [r EXCEPT !.c = NewConnecter(opt.proto, opt.ivl, opt.ivl_max), !.s.delayed = wait]

\* For delayed connections the pipe goes as well; the subscriptions of a SUB socket are
\* sent again.
reconnect(r) ==
    LET p == r.s.pipe
        a == IF p # 0 /\ opt.immediate
             THEN [r EXCEPT !.pipes[p] = Terminated(Hiccuped(@), FALSE),
                            !.s.detached = @ \cup {p}, !.s.pipe = 0]
             ELSE r
        b == IF opt.ivl # -1 THEN StartConnecting(a, TRUE) ELSE a
    IN  IF HasPipe(b) /\ opt.sub THEN [b EXCEPT !.pipes[b.s.pipe] = Hiccuped(@)] ELSE b

\* own_t::terminate asks the owner
AskTerm(r) == IF r.s.own = "running" /\ ~r.s.termed THEN [r EXCEPT !.s.asked = TRUE] ELSE r

CheckMine(r) == IF HasPipe(r) THEN [r EXCEPT !.pipes[r.s.pipe] = CheckRead(@)] ELSE r

Disconnected(r, reason) ==
    IF reason # "protocol" /\ opt.active THEN reconnect(r) ELSE AskTerm(r)
engine_error(r, reason) ==
    CheckMine(Disconnected(IF HasPipe(r) THEN clean_pipes(r) ELSE r, reason))
-----------------------------------------------------------------------------
(* The engine.                                                             *)

\* unplug and delete; the socket is closed
Unplugged(r) == [r EXCEPT !.e = NoEngine, !.w = NoWire]

\* A raw socket is told of the end by an empty message.
error(r, reason) ==
    Unplugged(engine_error(IF opt.raw THEN push_msg(r, Mark("empty")) ELSE r, reason))

\* identity_msg, and the READY command of the NULL mechanism.  With a ZAP domain it waits
\* for the answer of the ZAP handler.
\* the peer's identity is passed to the socket; on failure nothing is switched
mechanism_ready(r) ==
    AndThen(IF opt.recv_identity THEN push_msg(r, Mark("identity")) ELSE Returns(r, "ok"),
            LAMBDA a : [a EXCEPT !.e.next_msg = "pull_and_encode",
                                 !.e.process_msg = "write_credential"])

null_next_handshake_command(r) ==
    IF r.e.ready_sent \/ r.e.zap = "asked" THEN Returns(r, "again")
    ELSE IF r.e.zap = "connected" THEN [Returns(r, "again") EXCEPT !.e.zap = "asked"]
    ELSE [Returns(r, "ok") EXCEPT !.e.ready_sent = TRUE, !.msg = Mark("ready")]

next_handshake_command(r) ==
    IF r.e.ready_sent /\ r.e.ready_received THEN pull_msg(mechanism_ready(r))
    ELSE null_next_handshake_command(r)

next_msg(r) ==
    CASE r.e.next_msg = "identity_msg" ->
           [Returns(r, "ok") EXCEPT !.msg = Mark("identity"), !.e.next_msg = "pull_msg_from_session"]
      [] r.e.next_msg = "next_handshake_command" -> next_handshake_command(r)
      [] OTHER -> pull_msg(r)

\* The loop that fills the buffer
Encode(r) == IF r.rc # "ok" \/ Len(r.e.out) >= out_batch THEN r
             ELSE AndThen(next_msg(r), LAMBDA t : [t EXCEPT !.e.out = Append(@, t.msg)])

\* n frames are written (or as many as there are), -1 is an error
Transmit(r) ==
    IF r.n = -1 THEN [r EXCEPT !.e.pollout = FALSE]
    ELSE LET k == Min({r.n, Len(r.e.out)})
             o == SubSeq(r.e.out, k + 1, Len(r.e.out))
         IN  [r EXCEPT !.w.sent = @ \o SubSeq(r.e.out, 1, k),
                       !.e.out = o, !.e.pollout = @ /\ ~(r.e.handshaking /\ o = << >>)]

\* with nothing to write, polling for output stops
Write(r) == IF r.e.out # << >> THEN Transmit(r)
            ELSE [r EXCEPT !.e.output_stopped = TRUE, !.e.pollout = FALSE]

engine_out_event(r) ==
    IF r.e.io_error THEN Fail(r, "out_event")
    ELSE IF r.e.out = << >> /\ r.e.handshaking THEN r
    ELSE Write(IF r.e.out = << >> THEN Loop(Encode, Returns(r, "ok"), out_batch) ELSE r)

\* with the speculative write
restart_output(r) ==
    IF r.e.io_error THEN r
    ELSE engine_out_event(IF r.e.output_stopped
                          THEN [r EXCEPT !.e.pollout = TRUE, !.e.output_stopped = FALSE] ELSE r)

process_identity_msg(r) ==
    LET a == IF opt.recv_identity THEN push_msg(r, Mark("identity")) ELSE Returns(r, "ok")
    IN  IF a.rc # "ok" THEN Fail(a, "process_identity_msg")
        ELSE [a EXCEPT !.e.process_msg = IF r.e.subscription_required
                                         THEN "write_subscription_msg" ELSE "push_msg_to_session"]

RestartStopped(r) == IF r.e.output_stopped THEN restart_output(r) ELSE r
process_handshake_command(r, f) ==
    IF f.flavour # "ready" \/ r.e.ready_received THEN Returns(r, "proto")
    ELSE LET a == [Returns(r, "ok") EXCEPT !.e.ready_received = TRUE]
         IN  Returns(RestartStopped(IF r.e.ready_sent THEN mechanism_ready(a) ELSE a), "ok")

Refused(r) == IF r.rc = "again" THEN [r EXCEPT !.e.process_msg = "push_one_then_decode_and_push"]
              ELSE r
decode_and_push(r, f) == Refused(push_msg(r, f))

write_credential(r, f) ==
    AndThen(IF opt.credential THEN push_msg(r, Mark("credential")) ELSE Returns(r, "ok"),
            LAMBDA a : decode_and_push([a EXCEPT !.e.process_msg = "decode_and_push"], f))

push_one_then_decode_and_push(r, f) ==
    AndThen(push_msg(r, f), LAMBDA t : [t EXCEPT !.e.process_msg = "decode_and_push"])

\* so that a publisher also serves peers that do not forward subscriptions
write_subscription_msg(r, f) ==
    AndThen(push_msg(r, Mark("subscription")),
            LAMBDA a : push_msg([a EXCEPT !.e.process_msg = "push_msg_to_session"], f))

process_msg(r, f) ==
    CASE r.e.process_msg = "process_identity_msg" -> process_identity_msg(r)
      [] r.e.process_msg = "process_handshake_command" -> process_handshake_command(r, f)
      [] r.e.process_msg = "write_credential" -> write_credential(r, f)
      [] r.e.process_msg = "decode_and_push" -> decode_and_push(r, f)
      [] r.e.process_msg = "push_one_then_decode_and_push" -> push_one_then_decode_and_push(r, f)
      [] r.e.process_msg = "write_subscription_msg" -> write_subscription_msg(r, f)
      [] OTHER -> push_msg(r, f)

\* The loop that decodes what was received; a message that is refused stays in the decoder
Decode(r) ==
    IF r.rc # "ok" \/ r.e.in = << >> \/ r.crash # "none" THEN r
    ELSE LET f == Head(r.e.in)
             t == [r EXCEPT !.e.in = Tail(@), !.e.held = f]
         IN  IF f.flavour = "malformed" THEN Returns(t, "proto") ELSE process_msg(t, f)
DecodeAll(r) == Loop(Decode, Returns(r, "ok"), Len(r.e.in))

\* the connection is polled no more
Unpolled(r) == [r EXCEPT !.e.io_error = TRUE, !.e.pollin = FALSE, !.e.pollout = FALSE]

\* session_base_t::zap_connect, by the constructor of null_mechanism_t
zap_connect(r) ==
    IF r.s.zap # "none" THEN Fail(r, "zap_connect")
    ELSE [r EXCEPT !.s.zap = "open", !.e.zap = "connected"]

\* The version of the peer's protocol selects encoder, decoder and the functions for messages
Negotiated(r, g) ==
    CASE g = "unversioned" ->
           [r EXCEPT !.e.out = Append(@, Mark("identity")), !.e.next_msg = "pull_msg_from_session",
                     !.e.subscription_required = opt.pub]
      [] g = "2.0" -> r
      [] OTHER -> LET a == [r EXCEPT !.e.next_msg = "next_handshake_command", !.e.mechanism = TRUE,
                                     !.e.process_msg = "process_handshake_command"]
                  IN  IF opt.zap THEN zap_connect(a) ELSE a

handshake(r) ==
    IF r.w.in = << >> THEN IF r.w.closed THEN error(r, "connection") ELSE Returns(r, "wait")
    ELSE LET g == Head(r.w.in).flavour
             a == [r EXCEPT !.w.in = Tail(@)]
         IN  IF g = "other mechanism" \/ (opt.zap /\ g # "3.0") THEN error(a, "protocol")
             ELSE [Negotiated(a, g) EXCEPT
                     !.e.pollout = @ \/ r.e.out = << >>, !.e.handshaking = FALSE,
                     !.e.has_handshake_timer = FALSE, !.rc = "ok"]

\* the part of in_event after the handshake
Received(r) ==
    CASE r.rc = "proto" -> error(r, "protocol")
      [] r.rc = "again" -> [r EXCEPT !.e.input_stopped = TRUE, !.e.pollin = FALSE]
      [] OTHER -> r
Receive(r) ==
    IF r.e.input_stopped THEN Unpolled(r)
    ELSE IF r.e.in = << >> /\ r.w.in = << >>
      THEN IF r.w.closed THEN error(r, "connection") ELSE r
    ELSE Received(DecodeAll(IF r.e.in # << >> THEN r ELSE [r EXCEPT !.e.in = r.w.in, !.w.in = << >>]))

Greeted(r) == IF r.rc = "wait" \/ ~r.e.live \/ r.crash # "none" THEN r ELSE Receive(r)
engine_in_event(r) ==
    IF r.e.io_error THEN Fail(r, "in_event")
    ELSE Greeted(IF r.e.handshaking THEN handshake(r) ELSE Returns(r, "ok"))

\* restart_input: the message that was refused is offered again, then the rest
\* Mutant: the connection is not polled for input again.
InputResumedUnpolled(r) ==
    CASE r.rc = "again" -> r
      [] r.e.io_error -> error(r, "connection")
      [] r.rc = "proto" -> error(r, "protocol")
      [] OTHER -> engine_in_event([r EXCEPT !.e.input_stopped = FALSE])
InputResumed(r) ==
    CASE r.rc = "again" -> r
      [] r.e.io_error -> error(r, "connection")
      [] r.rc = "proto" -> error(r, "protocol")
      [] OTHER -> engine_in_event([r EXCEPT !.e.input_stopped = FALSE, !.e.pollin = TRUE])
OfferedAgain(r) ==
    CASE r.rc = "again" -> r
      [] r.rc = "proto" -> error(r, "protocol")
      [] OTHER -> InputResumed(DecodeAll(r))
restart_input(r) == IF ~r.e.input_stopped THEN Fail(r, "restart_input")
                    ELSE OfferedAgain(process_msg(r, r.e.held))

\* A raw socket is told of the connection by an empty message.
plug(r) ==
    engine_in_event(IF ~opt.raw THEN [r EXCEPT !.e = NewEngine]
                    ELSE push_msg([r EXCEPT !.e = [NewEngine EXCEPT
                           !.handshaking = FALSE, !.has_handshake_timer = FALSE, !.out = << >>,
                           !.next_msg = "pull_msg_from_session",
                           !.process_msg = "push_raw_msg_to_session"]], Mark("empty")))

\* restart_input may have deleted the engine: output_stopped is then read from freed memory,
\* and is any value, stopped.
OutputResumed(r, stopped) ==
    IF r.e.live THEN RestartStopped(r) ELSE IF stopped THEN Fail(r, "freed engine") ELSE r
zap_msg_available(r, stopped) ==
    IF ~r.e.mechanism THEN Fail(r, "zap_msg_available")
    ELSE IF r.e.zap # "asked" THEN error(r, "protocol")
    ELSE LET a == [r EXCEPT !.e.zap = "answered"]
         IN  OutputResumed(IF a.e.input_stopped THEN restart_input(a) ELSE a, stopped)
-----------------------------------------------------------------------------
(* The session's commands and the events of its pipes.                     *)

OwnTerm(r) == [r EXCEPT !.s.own = "terminating", !.s.pending = FALSE]

process_attach(r) ==
    LET p == r.s.made + 1
        a == IF HasPipe(r) \/ r.s.own # "running" THEN r
             ELSE [r EXCEPT !.pipes[p].state = "active", !.s.pipe = p, !.s.made = p]
    IN  IF r.e.live THEN Fail(r, "process_attach") ELSE plug([a EXCEPT !.s.attach = FALSE])

read_activated(r, p) ==
    IF p # r.s.pipe THEN r
    ELSE IF ~r.e.live THEN CheckMine(r) ELSE restart_output(r)

write_activated(r, p) == IF p # r.s.pipe \/ ~r.e.live THEN r ELSE restart_input(r)

NoPipes(r) == ~HasPipe(r) /\ r.s.zap = "none" /\ r.s.detached = {}

\* The pipe p is gone; 0 is the pipe to the ZAP handler
Forget(r, p) ==
    IF p = 0 THEN [r EXCEPT !.s.zap = "none"]
    ELSE IF p = r.s.pipe THEN [r EXCEPT !.s.pipe = 0, !.s.has_linger_timer = FALSE]
    ELSE [r EXCEPT !.s.detached = @ \ {p}]
pipe_terminated(r, p) ==
    LET a == Forget(r, p)
        b == IF opt.raw /\ a.s.own = "running" THEN AskTerm(IF a.e.live THEN Unplugged(a) ELSE a)
             ELSE a
    IN  IF b.s.pending /\ NoPipes(b) THEN OwnTerm(b) ELSE b

\* Mutant: no timer is started.
process_term_untimed(r, linger) ==
    LET a == [r EXCEPT !.s.termed = TRUE, !.s.linger = linger]
    IN  IF NoPipes(r) THEN OwnTerm(a)
        ELSE LET b == [a EXCEPT !.s.pending = TRUE, !.s.zap = IF @ = "open" THEN "closing" ELSE @]
                 c == IF ~HasPipe(r) THEN b
                      ELSE [b EXCEPT !.pipes[r.s.pipe] = Terminated(@, linger # 0)]
             IN  IF r.e.live THEN c ELSE CheckMine(c)

process_term(r, linger) ==
    LET a == [r EXCEPT !.s.termed = TRUE, !.s.linger = linger]
    IN  IF NoPipes(r) THEN OwnTerm(a)
        ELSE LET b == [a EXCEPT !.s.pending = TRUE, !.s.zap = IF @ = "open" THEN "closing" ELSE @]
                 c == IF ~HasPipe(r) THEN b
                      ELSE [b EXCEPT !.s.has_linger_timer = linger > 0,
                                     !.pipes[r.s.pipe] = Terminated(@, linger # 0)]
             IN  IF r.e.live THEN c ELSE CheckMine(c)

linger_timer_event(r) ==
    LET a == [r EXCEPT !.s.has_linger_timer = FALSE]
    IN  IF ~HasPipe(r) THEN Fail(a, "timer_event")
        ELSE [a EXCEPT !.pipes[r.s.pipe] = Terminated(@, FALSE)]

\* the destructor, which closes the engine
Destroyed(r) ==
    IF HasPipe(r) \/ r.s.zap # "none" THEN Fail(r, "destructor")
    ELSE Unplugged([r EXCEPT !.s = [NewSession("deleted") EXCEPT !.linger = r.s.linger]])
-----------------------------------------------------------------------------
(* Actions.  n in an action is what the network does with a write.         *)
Writes == {out_batch} \cup (IF opt.slow THEN {0} ELSE {}) \cup (IF wire.closed THEN {-1} ELSE {})
Keeps == UNCHANGED env

\* process_plug of the session
Plug ==
    /\ Running /\ opt.active /\ session.own = "running" /\ ~session.plugged
    /\ Update([StartConnecting(State(0), FALSE) EXCEPT !.s.plugged = TRUE])
    /\ Keeps

Failure(c) == IF Aborted(c) THEN c.status ELSE "none"

\* A connection is made: the engine is sent to the session
Attach(r) == [r EXCEPT !.s.attach = TRUE, !.c = NoConnecter, !.w = [NoWire EXCEPT !.up = TRUE]]

\* a step of the connecter, to one of the states that the network allows
ConnecterStep(outcomes) ==
    \E c \in outcomes :
        LET r == [State(0) EXCEPT !.c = c, !.crash = Failure(c)]
        IN  IF c.status = "attached"
              THEN /\ env.conns < opt.conns
                   /\ Update(Attach(r)) /\ env' = [env EXCEPT !.conns = @ + 1]
              ELSE Update(r) /\ Keeps

ConnecterPlug == /\ Running /\ connecter.status = "unplugged"
                 /\ ConnecterStep(process_plug(connecter, session.delayed))
ConnecterTimer == Running /\ connecter.timer /\ ConnecterStep(timer_event(connecter))
ConnecterEvent == Running /\ connecter.handle /\ ConnecterStep(Reported(connecter))

\* in_event of a listener: a session is made for the connection
ListenerAccepts ==
    /\ Running /\ ~opt.active /\ session.own = "absent"
    /\ \E o \in accept(opt.proto) :
        \/ /\ o = "ok" /\ env' = [env EXCEPT !.conns = 1]
           /\ Update(Attach([State(0) EXCEPT !.s.own = "running"]))
        \/ o \in {"reset", "filtered"} /\ UNCHANGED vars
        \/ o = "unlisted errno" /\ Update(Fail(State(0), o)) /\ Keeps

EngineAttached == /\ Running /\ session.attach
                  /\ \E n \in Writes : Update(process_attach(State(n)))
                  /\ Keeps

\* An error on a connection is reported also when it is not polled for input
InEvent == /\ Running /\ engine.live /\ ~engine.io_error
           /\ (engine.pollin /\ wire.in # << >>) \/ wire.closed
           /\ \E n \in Writes : Update(engine_in_event(State(n)))
           /\ Keeps

OutEvent == /\ Running /\ engine.live /\ engine.pollout
            /\ \E n \in Writes : Update(engine_out_event(State(n)))
            /\ Keeps

HandshakeTimer == /\ Running /\ engine.has_handshake_timer
                  /\ Update(error([State(0) EXCEPT !.e.has_handshake_timer = FALSE], "timeout"))
                  /\ Keeps

\* process_activate_read and process_activate_write of a pipe
ActivateRead(p) ==
    /\ Running /\ pipes[p].state \in {"active", "waiting"}
    /\ ~pipes[p].in_active /\ pipes[p].in # << >>
    /\ \E n \in Writes : Update(read_activated([State(n) EXCEPT !.pipes[p].in_active = TRUE], p))
    /\ Keeps

ActivateWrite(p) ==
    /\ Running /\ pipes[p].state = "active" /\ ~pipes[p].out_active /\ pipes[p].room > 0
    /\ \E n \in Writes : Update(write_activated([State(n) EXCEPT !.pipes[p].out_active = TRUE], p))
    /\ Keeps

\* process_pipe_term and process_pipe_term_ack
PipeTerm(p) ==
    /\ Running /\ p \in env.shut \ env.told
    /\ Update([State(0) EXCEPT !.pipes[p] = PeerTerminated(@)])
    /\ env' = [env EXCEPT !.told = @ \cup {p}]

PipeGone(p) ==
    /\ Running /\ pipes[p].state = "closing" /\ p \notin env.shut \ env.told
    /\ Update(pipe_terminated([State(0) EXCEPT !.pipes[p].state = "gone", !.pipes[p].in = << >>], p))
    /\ Keeps

\* The answer of the ZAP handler
ZapReplies ==
    /\ Running /\ session.zap = "open" /\ env.zap
    /\ LET r == State(out_batch)
       IN  \E stopped \in BOOLEAN :
             Update(IF engine.live THEN zap_msg_available(r, stopped)
                    ELSE IF HasPipe(r) THEN CheckMine(r) ELSE Fail(r, "read_activated"))
    /\ env' = [env EXCEPT !.zap = FALSE]
ZapAsks == /\ Running /\ engine.zap = "asked" /\ ~env.zap /\ session.zap = "open"
           /\ env' = [env EXCEPT !.zap = TRUE]
           /\ UNCHANGED <<opt, pipes, session, engine, connecter, wire, crash>>
ZapGone == /\ Running /\ session.zap = "closing"
           /\ Update(pipe_terminated(State(0), 0)) /\ env' = [env EXCEPT !.zap = FALSE]

ProcessTerm(linger) ==
    /\ Running /\ session.own = "running" /\ ~session.termed
    /\ session.asked \/ env.closed
    /\ env.shut \subseteq env.told
    /\ Update(process_term(State(0), linger))
    /\ Keeps

LingerTimer == Running /\ session.has_linger_timer /\ Update(linger_timer_event(State(0))) /\ Keeps

\* process_term of the connecter, and the end of the session
TermConnecter ==
    /\ Running /\ session.own = "terminating" /\ connecter.status # "absent"
    /\ Update([State(0) EXCEPT !.c = ConnecterTerm(connecter)])
    /\ Keeps
Delete ==
    /\ Running /\ session.own = "terminating" /\ connecter.status = "absent" /\ ~session.attach
    /\ Update(Destroyed(State(0)))
    /\ env' = [env EXCEPT !.dropped = engine.live /\ ~wire.closed /\ User(engine.out) # << >>]
-----------------------------------------------------------------------------
(* The socket at the other end of the pipe and the peer.                   *)

SocketWrites(p) ==
    /\ Running /\ p = session.pipe /\ pipes[p].state = "active" /\ ~env.closed
    /\ env.written < opt.out
    /\ pipes' = [pipes EXCEPT ![p].in = @ \o Frames(env.written + 1)]
    /\ env' = [env EXCEPT !.written = @ + 1]
    /\ UNCHANGED <<opt, session, engine, connecter, wire, crash>>

\* A message is read, or a mark of the engine
Message(s) == IF Head(s).more THEN 2 ELSE 1
SocketReads(p) ==
    /\ Running /\ pipes[p].delivered # << >>
    /\ LET s == pipes[p].delivered
           k == Message(s)
       IN  pipes' = [pipes EXCEPT ![p].delivered = SubSeq(s, k + 1, Len(s)),
                                  ![p].room = IF s[1].flavour = "identity" THEN @ ELSE @ + 1]
    /\ UNCHANGED <<opt, session, engine, connecter, wire, env, crash>>

\* zmq_close or zmq_disconnect terminates the socket's end of the pipe, and a closing
\* socket those that come later
Shut(ps) ==
    /\ pipes' = [p \in PipeIds |-> IF p \in ps THEN [pipes[p] EXCEPT !.in = Append(@, Delimiter)]
                                   ELSE pipes[p]]
    /\ env' = [env EXCEPT !.closed = TRUE, !.shut = @ \cup ps]
    /\ UNCHANGED <<opt, session, engine, connecter, wire, crash>>
Open == {p \in PipeIds \ env.shut : pipes[p].state \in {"active", "waiting", "delimited"}}
SocketCloses == Running /\ ~env.closed /\ session.own # "absent" /\ Shut(Open)
SocketRefuses(p) == Running /\ env.closed /\ opt.close /\ p \in Open /\ Shut({p})

\* The peer sends its greeting, then its identity or READY, then parts of messages
PeerFrame(f, stage, mid) ==
    /\ wire' = [wire EXCEPT !.in = Append(@, f), !.stage = stage, !.mid = mid]
    /\ UNCHANGED <<opt, pipes, session, engine, connecter, crash>>
Talks(stage) == Running /\ wire.up /\ ~wire.closed /\ wire.stage = stage
Flow == IF opt.raw THEN 0 ELSE 2
PeerGreets ==
    \/ /\ Talks(0) /\ ~opt.raw /\ Keeps
       /\ \E g \in opt.greetings : PeerFrame(Mark(g), 1, FALSE)
    \/ Talks(1) /\ PeerFrame(Mark("ready"), 2, FALSE) /\ Keeps
PeerSends ==
    /\ Talks(Flow)
    /\ \/ /\ wire.mid /\ PeerFrame(Frames(env.arrived)[2], Flow, FALSE) /\ Keeps
       \/ /\ ~wire.mid /\ env.arrived < opt.arrive
          /\ LET f == Frames(env.arrived + 1)[1] IN PeerFrame(f, Flow, f.more)
          /\ env' = [env EXCEPT !.arrived = @ + 1]
       \/ opt.malformed /\ PeerFrame(Mark("malformed"), 3, FALSE) /\ Keeps
PeerCloses ==
    /\ Running /\ wire.up /\ ~wire.closed /\ ~opt.stays
    /\ wire' = [wire EXCEPT !.closed = TRUE]
    /\ UNCHANGED <<opt, pipes, session, engine, connecter, env, crash>>

Next ==
    \/ Plug \/ ConnecterPlug \/ ConnecterTimer \/ ConnecterEvent \/ ListenerAccepts
    \/ EngineAttached \/ InEvent \/ OutEvent \/ HandshakeTimer
    \/ \E p \in PipeIds : \/ ActivateRead(p) \/ ActivateWrite(p) \/ PipeTerm(p) \/ PipeGone(p)
                          \/ SocketWrites(p) \/ SocketReads(p) \/ SocketRefuses(p)
    \/ ZapReplies \/ ZapAsks \/ ZapGone
    \/ \E l \in Lingers : ProcessTerm(l)
    \/ LingerTimer \/ TermConnecter \/ Delete
    \/ SocketCloses \/ PeerGreets \/ PeerSends \/ PeerCloses

Spec == Init /\ [][Next]_vars
-----------------------------------------------------------------------------
\* parts in the order of their messages, none missing but at the end
Unbroken(s) ==
    \A i \in 1..Len(s) :
        /\ s[i].i = 2 => i > 1 /\ s[i - 1] = Frames(s[i].m)[1]
        /\ i > 1 => s[i].m >= s[i - 1].m /\ (s[i].i = 1 => ~s[i - 1].more)

\* What goes out on a connection, and what is passed to the socket, are whole messages in
\* order, although connections break between the parts of a message, in both directions.
WholeMessages ==
    /\ Unbroken(User(wire.sent \o engine.out))
    /\ \A p \in PipeIds : Unbroken(User(pipes[p].delivered))

\* An engine never stalls: input that was stopped will be restarted, because the pipe
\* refused a message and owes the session an activation; what the pipe has to offer is
\* polled for; nothing received waits in the buffer.
NoStall ==
    Running /\ engine.live /\ ~engine.io_error =>
        /\ engine.pollin # engine.input_stopped
        /\ ~engine.input_stopped => engine.in = << >>
        /\ session.pipe # 0 =>
            LET p == pipes[session.pipe]
            IN  /\ engine.input_stopped => p.state # "active" \/ ~p.out_active
                /\ CanRead(p) /\ engine.next_msg \in {"pull_and_encode", "pull_msg_from_session"}
                     /\ ~engine.handshaking => engine.pollout \/ wire.closed

\* There is one attempt to connect, one engine on its way or one engine at a time, and a
\* connecter leaves no timer, socket or registration with the poller behind.
OneConnection ==
    /\ ~(engine.live /\ session.attach)
    /\ connecter.status # "absent" => ~engine.live /\ ~session.attach
    /\ wire.up = (session.attach \/ engine.live)
    /\ ~(connecter.timer /\ connecter.handle) /\ (connecter.handle => connecter.fd)
    /\ connecter.status \in {"absent", "waiting_for_reconnect_time"} => ~connecter.fd
    /\ connecter.status = "absent" => Released(connecter)

\* A session that was told to terminate has a reason to wait: a pipe that its other end
\* must confirm, or one that still holds messages, for no longer than the linger period.
\* A session that lost its pipe to ZMQ_IMMEDIATE, or waits only for its ZAP pipe, may be
\* given a new pipe by a late connection and is left out.
TerminationGoesOn ==
    Running /\ session.pending /\ session.own = "running" /\ ~(opt.active /\ (opt.immediate \/ opt.zap)) =>
        \/ session.zap # "none"
        \/ \E p \in session.detached : pipes[p].state = "closing"
        \/ /\ session.pipe # 0
           /\ LET p == pipes[session.pipe]
              IN  \/ p.state = "closing"
                  \/ /\ p.state = "waiting" /\ session.linger # 0
                     /\ session.linger > 0 => session.has_linger_timer
                     /\ p.in # << >> \/ opt.sub

\* With an infinite linger period nothing that was handed to the engine is discarded.
InfiniteLingerDiscardsNothing == session.linger = -1 => ~env.dropped
=============================================================================
