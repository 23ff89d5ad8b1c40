------------------------------- MODULE Handshake --------------------------------
(***************************************************************************)
(* Two stream_engine_t at the ends of a connection: greetings, version and *)
(* mechanism, the commands of the mechanism, then messages.  The           *)
(* connection delivers any number of units at a time and takes less than   *)
(* it is offered.  Each engine has its session (only what it passes on)    *)
(* and may ask a ZAP handler.  An operator works on a record r: the        *)
(* options o, the engine e, the session s and both directions of the       *)
(* connection.  n is the number of units that may be read now.             *)
(***************************************************************************)
EXTENDS Codec, Curve, Gssapi, SequencesExt

CONSTANT Scenarios      \* options of both ends

VARIABLES
    opt,        \* the scenario
    eng,        \* the engines
    ses,        \* the sessions and sockets
    wire        \* units under way to each end; eof: the other end was closed

vars == <<opt, eng, ses, wire>>

Ends == {"A", "B"}
Other(x) == IF x = "A" THEN "B" ELSE "A"

\* The greeting: signature, revision, and the rest of ZMTP 2.0 or 3.0
signature_size == 3
v2_greeting_size == 5
v3_greeting_size == 6
Identity(o) == Msg(FALSE, FALSE, <<Unit(o.identity)>>)
\* the signature is also the header of a long message of ZMTP 1.0, our identity
Signature(o) == <<Unit(ByteMax), Unit(Len(Identity(o).body) + 1), Unit(1)>>

NoMechanism == Base("none", "none")

\* the constructor of stream_engine_t, and plug
PlugEngine(o) ==
    [live |-> TRUE, crash |-> FALSE, handshaking |-> TRUE, got |-> << >>, greeted |-> signature_size,
     greeting_size |-> v2_greeting_size, out |-> Signature(o), in |-> << >>,
     enc |-> NewEncoder("none"), dec |-> NewDecoder("v2", o.maxmsgsize),
     pollout |-> TRUE, input_stopped |-> FALSE, output_stopped |-> FALSE,
     next_msg |-> "identity_msg", process_msg |-> "process_identity_msg",
     subscription_required |-> FALSE, m |-> NoMechanism]

\* plug of a raw connection (Session has the empty message that its socket gets first); and
\* a peer that knows no versions, which is external
PlugRaw(o) ==
    [PlugEngine(o) EXCEPT !.handshaking = FALSE, !.out = << >>, !.enc = NewEncoder("raw"),
        !.dec = NewDecoder("raw", -1), !.next_msg = "pull_msg_from_session",
        !.process_msg = "push_msg_to_session"]
PlugUnversioned(o) ==
    [PlugEngine(o) EXCEPT !.handshaking = FALSE, !.out = << >>, !.enc = NewEncoder("v1"),
        !.dec = NewDecoder("v1", -1)]

Init ==
    /\ opt \in Scenarios
    /\ eng = [x \in Ends |-> CASE opt[x].version = "raw" -> PlugRaw(opt[x])
                               [] opt[x].version = "unversioned" -> PlugUnversioned(opt[x])
                               [] OTHER -> PlugEngine(opt[x])]
    /\ ses = [x \in Ends |-> [written |-> 0, pending |-> << >>, asleep |-> FALSE,
                              delivered |-> << >>, read |-> 0, zap |-> "none"]]
    /\ wire = [x \in Ends |-> [units |-> << >>, eof |-> FALSE]]

State(x, n) == [o |-> opt[x], e |-> eng[x], s |-> ses[x], in |-> wire[x].units,
                eof |-> wire[x].eof, out |-> << >>, n |-> n, rc |-> "ok", msg |-> EmptyMsg]
Update(x, r) ==
    /\ eng' = [eng EXCEPT ![x] = r.e] /\ ses' = [ses EXCEPT ![x] = r.s]
    /\ wire' = [wire EXCEPT ![x].units = r.in,
                            ![Other(x)] = [units |-> @.units \o r.out, eof |-> ~r.e.live]]
    /\ UNCHANGED opt

Rc(r, rc) == [r EXCEPT !.rc = rc]
AndThen(r, Op(_)) == IF r.rc = "ok" THEN Op(r) ELSE r
Loop(Turn(_), r, n) == LET f[i \in 0..n] == IF i = 0 THEN r ELSE Turn(f[i - 1]) IN f[n]
error(r) == [Rc(r, "error") EXCEPT !.e.live = FALSE, !.in = << >>]
-----------------------------------------------------------------------------
(* The session.                                                            *)
pull_msg(r) ==
    IF r.s.pending = << >> THEN [Rc(r, "again") EXCEPT !.s.asleep = TRUE]
    ELSE [Rc(r, "ok") EXCEPT !.msg = Head(r.s.pending), !.s.pending = Tail(@)]

Full(r) == Len(r.s.delivered) - r.s.read >= r.o.hwm
push_msg(r, kind, msg) ==
    IF Full(r) THEN Rc(r, "again")
    ELSE [Rc(r, "ok") EXCEPT !.s.delivered = Append(@, [kind |-> kind, msg |-> msg])]

zap_enabled(o) == o.mechanism # "NULL" \/ o.domain # ""
-----------------------------------------------------------------------------
(* The mechanism that the engine has.                                      *)
Command(msg) ==
    CASE msg.body = << >> -> [name |-> "empty"] [] OTHER -> msg.body[1].c
CommandMsg(cmd) ==
    Msg(FALSE, TRUE, IF cmd.name = "empty" THEN << >> ELSE <<Content(cmd)>>)

status(m) ==
    CASE m.kind = "NULL" -> null_status(m)
      [] m.kind \in {"PLAIN client", "PLAIN server"} -> plain_status(m)
      [] m.kind \in {"CURVE client", "CURVE server"} -> curve_status(m)
      [] OTHER -> gssapi_status(m)

NextCommand(o, m) ==
    CASE m.kind = "NULL" -> null_next_handshake_command(o, m)
      [] m.kind = "PLAIN client" -> plain_client_next_handshake_command(o, m)
      [] m.kind = "PLAIN server" -> plain_server_next_handshake_command(o, m)
      [] m.kind = "CURVE client" -> curve_client_next_handshake_command(o, m)
      [] m.kind = "CURVE server" -> curve_server_next_handshake_command(o, m)
      [] m.kind = "GSSAPI client" -> gssapi_client_next_handshake_command(o, m)
      [] m.kind = "GSSAPI server" -> gssapi_server_next_handshake_command(o, m)

ProcessCommand(o, m, cmd) ==
    CASE m.kind = "NULL" -> null_process_handshake_command(o, m, cmd)
      [] m.kind = "PLAIN client" -> plain_client_process_handshake_command(o, m, cmd)
      [] m.kind = "PLAIN server" -> plain_server_process_handshake_command(o, m, cmd)
      [] m.kind = "CURVE client" -> curve_client_process_handshake_command(o, m, cmd)
      [] m.kind = "CURVE server" -> curve_server_process_handshake_command(o, m, cmd)
      [] m.kind = "GSSAPI client" -> gssapi_client_process_handshake_command(o, m, cmd)
      [] m.kind = "GSSAPI server" -> gssapi_server_process_handshake_command(o, m, cmd)

ZapAnswer(o, m) ==
    CASE m.kind = "NULL" -> null_zap_msg_available(o, m)
      [] m.kind = "PLAIN server" -> plain_zap_msg_available(o, m)
      [] m.kind = "CURVE server" -> curve_zap_msg_available(o, m)
      [] m.kind = "GSSAPI server" -> gssapi_zap_msg_available(o, m)

\* mechanism_t::encode and decode; flags of the frame are lost when there is encryption
Sealed(r, p) == [r EXCEPT !.e.m = p.m, !.msg = Msg(FALSE, FALSE, <<Content(p.cmd)>>)]
encode_msg(r) ==
    LET m == r.e.m
    IN  CASE m.kind = "CURVE client" -> Sealed(r, curve_client_encode(r.o, m, r.msg))
          [] m.kind = "CURVE server" -> Sealed(r, curve_server_encode(r.o, m, r.msg))
          [] m.kind \in {"GSSAPI client", "GSSAPI server"} /\ r.o.encrypt ->
               Sealed(r, Produced(m, encode_message(r.o, r.msg)))
          [] OTHER -> r

Opened(r, c, cmd) ==
    [Rc(r, c.rc) EXCEPT !.e.m = c.m,
                        !.msg = IF c.rc = "ok" THEN Msg(cmd.more, FALSE, cmd.box.body) ELSE @]
Unwrapped(r, cmd) ==
    [Rc(r, decode_message(cmd)) EXCEPT
       !.msg = IF cmd.name = "MESSAGE" THEN Msg(cmd.more, FALSE, cmd.body) ELSE @]
decode_msg(r) ==
    LET cmd == Command(r.msg)
        m == r.e.m
    IN  CASE m.kind = "CURVE client" -> Opened(r, curve_client_decode(r.o, m, cmd), cmd)
          [] m.kind = "CURVE server" -> Opened(r, curve_server_decode(r.o, m, cmd), cmd)
          [] m.kind \in {"GSSAPI client", "GSSAPI server"} /\ r.o.encrypt -> Unwrapped(r, cmd)
          [] OTHER -> Rc(r, "ok")
-----------------------------------------------------------------------------
(* Output.                                                                 *)
mechanism_ready(r) ==
    LET a == IF ~r.o.recv_identity THEN r
             ELSE [r EXCEPT !.s.delivered =
                     Append(@, [kind |-> "identity", msg |-> <<r.e.m.identity>>]), !.s.read = @ + 1]
    IN  [a EXCEPT !.e.next_msg = "pull_and_encode", !.e.process_msg = "write_credential"]

pull_and_encode(r) == AndThen(pull_msg(r), encode_msg)

\* a request to the ZAP handler is under way when it was made
Asked(r, m) == IF m.request # << >> /\ r.e.m.request = << >> /\ ~r.o.prompt
               THEN [r EXCEPT !.e.m = m, !.s.zap = "asked"] ELSE [r EXCEPT !.e.m = m]

Sends(r, p) == [Rc(Asked(r, p.m), p.rc) EXCEPT !.msg = CommandMsg(p.cmd)]
next_handshake_command(r) ==
    CASE status(r.e.m) = "ready" -> pull_and_encode(mechanism_ready(r))
      [] status(r.e.m) = "error" -> Rc(r, "error")
      [] OTHER -> Sends(r, NextCommand(r.o, r.e.m))

identity_msg(r) ==
    [Rc(r, "ok") EXCEPT !.msg = Identity(r.o), !.e.next_msg = "pull_msg_from_session"]

next_msg(r) ==
    CASE r.e.next_msg = "identity_msg" -> identity_msg(r)
      [] r.e.next_msg = "next_handshake_command" -> next_handshake_command(r)
      [] r.e.next_msg = "pull_and_encode" -> pull_and_encode(r)
      [] r.e.next_msg = "pull_msg_from_session" -> pull_msg(r)

\* the loop that fills the buffer; load_msg asserts that no message is in progress
Encoded(r) ==
    LET b == encode(load_msg(r.e.enc, r.msg), out_batch - Len(r.e.out),
                    r.e.enc.kind = "raw" /\ r.e.out = << >>)
    IN  [r EXCEPT !.e.enc = b.enc, !.e.out = @ \o b.units, !.e.crash = @ \/ r.e.enc.in_progress]
Fill(r) == IF r.rc # "ok" \/ Len(r.e.out) >= out_batch THEN r ELSE AndThen(next_msg(r), Encoded)
FillBuffer(r) ==
    LET x == encode(r.e.enc, out_batch, TRUE)
    IN  Loop(Fill, [Rc(r, "ok") EXCEPT !.e.enc = x.enc, !.e.out = x.units], out_batch)

\* k units are written
Transmit(r, k) ==
    LET o == SubSeq(r.e.out, k + 1, Len(r.e.out))
    IN  [Rc(r, "ok") EXCEPT !.out = @ \o SubSeq(r.e.out, 1, k), !.e.out = o,
                            !.e.pollout = @ /\ ~(r.e.handshaking /\ o = << >>)]
Least(r, all) == IF all THEN Len(r.e.out) ELSE Min({1, Len(r.e.out)})

\* with nothing to write, polling for output stops
Write(r, all) ==
    IF r.e.out # << >> THEN Transmit(r, Least(r, all))
    ELSE [Rc(r, "ok") EXCEPT !.e.output_stopped = TRUE, !.e.pollout = FALSE]

out_event(r, all) ==
    IF r.e.out = << >> /\ r.e.enc.kind = "none" THEN Rc(r, "ok")
    ELSE Write(IF r.e.out = << >> THEN FillBuffer(r) ELSE r, all)

\* Mutant: output that was stopped is not polled for again.
restart_output_stays(r) == out_event(r, TRUE)
restart_output(r) ==
    out_event(IF r.e.output_stopped
              THEN [r EXCEPT !.e.pollout = TRUE, !.e.output_stopped = FALSE] ELSE r, TRUE)
-----------------------------------------------------------------------------
(* Input.                                                                  *)
process_identity_msg(r) ==
    LET a == IF ~r.o.recv_identity THEN r
             ELSE [r EXCEPT !.s.delivered = Append(@, [kind |-> "identity", msg |-> <<r.msg.body[1].v>>]),
                            !.s.read = @ + 1]
    IN  [Rc(a, "ok") EXCEPT !.e.process_msg = IF r.e.subscription_required
                                              THEN "write_subscription_msg" ELSE "push_msg_to_session"]

RestartStopped(r) == IF r.e.output_stopped THEN restart_output(r) ELSE r
Processed(r, p) ==
    LET a == Asked(r, p.m)
    IN  IF p.rc # "ok" \/ status(p.m) = "error" THEN Rc(a, "error")
        ELSE Rc(RestartStopped(IF status(p.m) = "ready" THEN mechanism_ready(a) ELSE a), "ok")
process_handshake_command(r) == Processed(r, ProcessCommand(r.o, r.e.m, Command(r.msg)))

\* A message that the session refuses was decrypted already
Refused(r) == IF r.rc = "again" THEN [r EXCEPT !.e.process_msg = "push_one_then_decode_and_push"]
              ELSE r
\* Mutant: it is decrypted again.
decode_and_push_again(r) ==
    [AndThen(decode_msg(r), LAMBDA d : push_msg(d, "message", d.msg)) EXCEPT !.msg = r.msg]
decode_and_push(r) == AndThen(decode_msg(r), LAMBDA d : Refused(push_msg(d, "message", d.msg)))

push_one_then_decode_and_push(r) ==
    AndThen(push_msg(r, "message", r.msg),
            LAMBDA p : [p EXCEPT !.e.process_msg = "decode_and_push"])

write_credential(r) ==
    AndThen(IF r.e.m.user THEN push_msg(r, "credential", EmptyMsg) ELSE Rc(r, "ok"),
            LAMBDA a : decode_and_push([a EXCEPT !.e.process_msg = "decode_and_push"]))

write_subscription_msg(r) ==
    AndThen(push_msg(r, "subscription", EmptyMsg),
            LAMBDA a : push_msg([a EXCEPT !.e.process_msg = "push_msg_to_session"], "message", a.msg))

process_msg(r) ==
    CASE r.e.process_msg = "process_identity_msg" -> process_identity_msg(r)
      [] r.e.process_msg = "process_handshake_command" -> process_handshake_command(r)
      [] r.e.process_msg = "write_credential" -> write_credential(r)
      [] r.e.process_msg = "decode_and_push" -> decode_and_push(r)
      [] r.e.process_msg = "push_one_then_decode_and_push" -> push_one_then_decode_and_push(r)
      [] r.e.process_msg = "write_subscription_msg" -> write_subscription_msg(r)
      [] r.e.process_msg = "push_msg_to_session" -> push_msg(r, "message", r.msg)

\* The message is in the decoder; when it is refused, what became of it stays there
Kept(r) == [r EXCEPT !.e.dec.msg = r.msg]
Taken(r, d) == [Rc(r, CASE d.dec.rc = 1 -> "message" [] d.dec.rc = 0 -> "ok" [] OTHER -> "error") EXCEPT
                  !.e.dec = d.dec, !.e.in = SubSeq(@, d.used + 1, Len(@)), !.msg = d.dec.msg]
Passed(r) == IF r.rc = "message" THEN Kept(process_msg(r)) ELSE r
Decode(r) ==
    IF r.rc # "ok" \/ r.e.in = << >> THEN r ELSE Passed(Taken(r, decode(r.e.dec, r.e.in)))

Finished(r) == CASE r.rc = "error" -> error(r)
                 [] r.rc = "again" -> [r EXCEPT !.e.input_stopped = TRUE]
                 [] OTHER -> r
DecodeAll(r) == Finished(Loop(Decode, Rc(r, "ok"), Len(r.e.in)))

\* tcp_read of at most n units
Read(r, n) == LET k == Min({n, r.n, Len(r.in)})
              IN  [r EXCEPT !.msg = SubSeq(r.in, 1, k), !.in = SubSeq(@, k + 1, Len(@)), !.n = @ - k]
-----------------------------------------------------------------------------
(* The greeting.                                                           *)
Put(r, units) == [r EXCEPT !.e.out = @ \o units, !.e.greeted = @ + Len(units), !.e.pollout = TRUE]

\* ours is the revision of this library; that of an older peer, which is external, is lower
Revision(o) == IF o.version = "1.0" THEN 0 ELSE IF o.version = "2.0" THEN 1 ELSE 3
Agreed(r) == Min({r.e.got[signature_size + 1].v, Revision(r.o)})

Unversioned(got) == got[1].v # ByteMax \/ got[3].v % 2 = 0
SendRevision(r) == IF r.e.greeted = signature_size THEN Put(r, <<Unit(Revision(r.o))>>) ELSE r
SendRest(r) ==
    IF Len(r.e.got) <= signature_size \/ r.e.greeted # signature_size + 1 THEN r
    ELSE IF Agreed(r) \in {0, 1} THEN Put(r, <<Unit(0)>>)
    ELSE [Put(r, <<Unit(0), Content([name |-> r.o.mechanism])>>) EXCEPT
            !.e.greeting_size = v3_greeting_size]

\* The loop that receives the greeting: rc is "wait" when it is not complete
Greet(r) ==
    LET a == Read(r, r.e.greeting_size - Len(r.e.got))
        b == [a EXCEPT !.e.got = @ \o a.msg]
    IN  IF r.rc # "ok" THEN r
        ELSE IF a.msg = << >> THEN Rc(b, "wait")
        ELSE IF b.e.got[1].v # ByteMax THEN Rc(b, "done")
        ELSE IF Len(b.e.got) < signature_size THEN b
        ELSE IF Unversioned(b.e.got) THEN Rc(b, "done")
        ELSE LET c == SendRest(SendRevision(b))
             IN  IF Len(c.e.got) < c.e.greeting_size THEN c ELSE Rc(c, "done")

Coded(r, kind) == [r EXCEPT !.e.enc = NewEncoder(kind), !.e.dec = NewDecoder(kind, r.o.maxmsgsize)]

\* our signature was the header of our identity: the encoder goes on with the body
Unversion(r) ==
    [Coded(r, "v1") EXCEPT
        !.e.enc.in_progress = TRUE, !.e.enc.rest = Identity(r.o).body, !.e.in = r.e.got,
        !.e.subscription_required = r.o.type \in {"PUB", "XPUB"},
        !.e.next_msg = "pull_msg_from_session", !.e.process_msg = "process_identity_msg"]

NewMechanism(o) ==
    CASE o.mechanism = "NULL" -> NewNull(o)
      [] o.mechanism = "PLAIN" -> IF o.as_server THEN NewPlainServer ELSE NewPlainClient
      [] o.mechanism = "CURVE" -> IF o.as_server THEN NewCurveServer ELSE NewCurveClient
      [] o.mechanism = "GSSAPI" -> IF o.as_server THEN NewGssapiServer ELSE NewGssapiClient

Negotiated(r) ==
    IF Unversioned(r.e.got) THEN IF zap_enabled(r.o) THEN error(r) ELSE Unversion(r)
    ELSE IF Agreed(r) \in {0, 1}
      THEN IF zap_enabled(r.o) THEN error(r) ELSE Coded(r, IF Agreed(r) = 0 THEN "v1" ELSE "v2")
    ELSE IF r.e.got[v3_greeting_size].c.name # r.o.mechanism THEN error(r)
    ELSE [Coded(r, "v2") EXCEPT !.e.m = NewMechanism(r.o),
            !.e.next_msg = "next_handshake_command", !.e.process_msg = "process_handshake_command"]

\* the greetings are over, or not complete yet
Greeted(r) ==
    IF ~r.e.live THEN r
    ELSE [r EXCEPT !.e.handshaking = FALSE, !.e.pollout = @ \/ r.e.out = << >>]
Answered(r) ==
    IF r.rc = "done" THEN Greeted(Negotiated(Rc(r, "ok")))
    ELSE IF r.eof /\ r.in = << >> THEN error(r) ELSE r
handshake(r) == Answered(Loop(Greet, Rc(r, "ok"), v3_greeting_size))

Filled(r) == IF r.msg = << >> THEN IF r.eof THEN error(r) ELSE r ELSE [r EXCEPT !.e.in = r.msg]
Receive(r) ==
    AndThen(IF r.e.in = << >> THEN Filled(Read(r, get_buffer(r.e.dec))) ELSE r, DecodeAll)

in_event(r) == AndThen(IF r.e.handshaking THEN handshake(r) ELSE Rc(r, "ok"), Receive)

\* the message that was refused is offered again
Resumed(r) == IF r.e.live /\ ~r.e.input_stopped THEN in_event(r) ELSE r
Continued(r) ==
    CASE r.rc = "again" -> r
      [] r.rc = "error" -> error(r)
      [] OTHER -> Resumed(DecodeAll([r EXCEPT !.e.input_stopped = FALSE]))
restart_input(r) == Continued(Kept(process_msg([r EXCEPT !.msg = r.e.dec.msg])))

\* restart_input may have deleted the engine: output_stopped is then read from freed memory,
\* and is any value, stopped.
OutputResumed(r, stopped) ==
    IF r.e.live THEN RestartStopped(r) ELSE [r EXCEPT !.e.crash = @ \/ stopped]
zap_msg_available(r, stopped) ==
    LET p == ZapAnswer(r.o, r.e.m)
        a == [r EXCEPT !.e.m = p.m, !.s.zap = "answered"]
    IN  IF p.rc # "ok" THEN error(a)
        ELSE OutputResumed(IF a.e.input_stopped THEN restart_input(a) ELSE a, stopped)
-----------------------------------------------------------------------------
InEvent(x) ==
    /\ eng[x].live /\ ~eng[x].input_stopped
    /\ wire[x].units # << >> \/ wire[x].eof
    /\ \E n \in {1, Max({1, Len(wire[x].units)})} : Update(x, in_event(State(x, n)))
OutEvent(x) ==
    /\ eng[x].live /\ eng[x].pollout
    /\ \E all \in {opt[x].whole, TRUE} : Update(x, out_event(State(x, 0), all))
ZapReplies(x) == /\ eng[x].live /\ ses[x].zap = "asked"
                 /\ \E stopped \in BOOLEAN : Update(x, zap_msg_available(State(x, 0), stopped))
\* The socket writes a message; the session wakes the engine that found nothing to send
SocketWrites(x) ==
    /\ ses[x].written < Len(opt[x].msgs)
    /\ LET a == State(x, 0)
           b == [a EXCEPT !.s.written = @ + 1, !.s.asleep = FALSE,
                          !.s.pending = Append(@, opt[x].msgs[ses[x].written + 1])]
       IN  Update(x, IF eng[x].live /\ ses[x].asleep THEN restart_output(b) ELSE b)
SocketReads(x) ==
    /\ ses[x].read < Len(ses[x].delivered)
    /\ LET b == [State(x, 0) EXCEPT !.s.read = Len(ses[x].delivered)]
       IN  Update(x, IF eng[x].live /\ eng[x].input_stopped THEN restart_input(b) ELSE b)

Next == \E x \in Ends : \/ InEvent(x) \/ OutEvent(x) \/ ZapReplies(x)
                        \/ SocketWrites(x) \/ SocketReads(x)

Spec == Init /\ [][Next]_vars
-----------------------------------------------------------------------------
(* Properties.                                                             *)
Raw == \E x \in Ends : opt[x].version = "raw"
Current == \A x \in Ends : opt[x].version = "3.0"

\* the end x asks its ZAP handler about the other one; it gets a yes
Asks(x) == /\ opt[x].handler # "none"
           /\ IF opt[x].mechanism = "NULL" THEN opt[x].domain # "" ELSE opt[x].as_server
Accepts(x) == /\ opt[x].handler = "200"
              /\ CASE opt[x].mechanism = "NULL" -> TRUE
                   [] opt[x].mechanism = "GSSAPI" -> opt[x].principal = "good"
                   [] OTHER -> opt[Other(x)].credentials = "good"

\* what x may know of its peer before it takes a message from it
Trusts(x) ==
    IF ~Current THEN ~zap_enabled(opt[x])
    ELSE /\ opt["A"].mechanism = opt["B"].mechanism
         /\ check_socket_type(opt[x].type, opt[Other(x)].type)
         /\ Asks(x) => Accepts(x)
         /\ opt[x].mechanism # "NULL" => opt[x].as_server # opt[Other(x)].as_server
         /\ opt[x].mechanism = "CURVE" /\ ~opt[x].as_server => opt[x].server_key = opt[Other(x)].key

\* nothing keeps the two from talking
Compatible ==
    \A x \in Ends :
      \/ Raw
      \/ /\ Trusts(x)
         /\ opt[x].maxmsgsize = -1
         /\ opt[x].mechanism = "GSSAPI" => opt[x].gss /\ opt[x].encrypt = opt[Other(x)].encrypt

Kinds(x, kinds) == SelectSeq(ses[x].delivered, LAMBDA d : d.kind \in kinds)

\* Two ends that may talk to each other never lose the connection: however the network cuts
\* what they send, neither engine meets a protocol error, and load_msg never finds a
\* message in progress (zmq_assert in encoder.hpp).
PeersStay == \A x \in Ends : ~eng[x].crash /\ (Compatible => eng[x].live)

\* A socket gets messages only from a peer that passed: one of a matching type, with the
\* right keys, that the ZAP handler accepted where there is one; and none from a peer too
\* old to be asked when authentication is required (stream_engine_t::handshake).
OnlyAuthenticated == \A x \in Ends : Kinds(x, {"message"}) # << >> => Raw \/ Trusts(x)

\* the bytes of messages, and the messages that x got
Bytes(msgs) == FlattenSeq([i \in 1..Len(msgs) |-> msgs[i].body])
Messages(x) == LET got == Kinds(x, {"message"}) IN [i \in 1..Len(got) |-> got[i].msg]

\* What a socket gets is what the other one sent, in order and in whole messages with
\* their flags, for every framing and however it was cut on the way.  The identity comes
\* first, once; the credential before the first message.  (raw: the same bytes.)
Faithful ==
    \A x \in Ends :
      /\ IF Raw THEN IsPrefix(Bytes(Messages(x)), Bytes(opt[Other(x)].msgs))
         ELSE IsPrefix(Messages(x), opt[Other(x)].msgs)
      /\ \A i \in DOMAIN ses[x].delivered :
           LET d == ses[x].delivered[i]
           IN  /\ d.kind = "identity" => i = 1
               /\ d.kind \in {"credential", "subscription"} =>
                    \A j \in 1..(i - 1) : ses[x].delivered[j].kind = "identity"

\* Nothing is under way and nobody has anything to do
Quiescent ==
    \A x \in Ends :
      /\ ses[x].written = Len(opt[x].msgs) /\ ses[x].read = Len(ses[x].delivered)
      /\ eng[x].live => /\ ~eng[x].pollout /\ ses[x].zap # "asked"
                        /\ eng[x].input_stopped \/ (wire[x].units = << >> /\ ~wire[x].eof)

\* Ends that the code leaves connected for ever once the handshake timer was cancelled: two
\* servers; a security context that is refused (next_handshake_command fails, which out_event
\* takes for nothing to send); a reply of the ZAP handler that is there at once and wrong.
LeftWaiting ==
    \/ \A x \in Ends : opt[x].mechanism # "NULL" /\ opt[x].as_server
    \/ \E x \in Ends : \/ opt[x].mechanism = "GSSAPI" /\ ~opt[x].gss
                       \/ /\ opt[x].mechanism = "NULL" /\ opt[x].domain # "" /\ opt[x].prompt
                          /\ opt[x].handler \notin {"none", "200", "400"}

\* When all is quiet, two ends that may talk have got everything the other one sent, so no
\* restart of stopped input or output was lost; others are not left connected, but for the
\* three cases above.
NoStandstill ==
    Quiescent => \A x \in Ends :
                   IF Compatible THEN Bytes(Messages(x)) = Bytes(opt[Other(x)].msgs)
                   ELSE LeftWaiting \/ ~eng[x].live
=============================================================================
