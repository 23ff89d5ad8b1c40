------------------------------- MODULE Mechanism --------------------------------
(***************************************************************************)
(* mechanism_t and the NULL and PLAIN mechanisms.  An operator takes the   *)
(* options o of a socket and the state m of its mechanism; it returns the  *)
(* new state, rc ("ok", "again", or "error" for every other errno) and the *)
(* command that was produced.  A command is a record with a name.          *)
(***************************************************************************)
EXTENDS Integers, Sequences

Result(m, rc) == [m |-> m, rc |-> rc, cmd |-> [name |-> "none"]]
Produced(m, cmd) == [m |-> m, rc |-> "ok", cmd |-> cmd]

\* mechanism_t::check_socket_type
check_socket_type(type, peer) ==
    peer \in CASE type = "REQ" -> {"REP", "ROUTER"}
               [] type = "REP" -> {"REQ", "DEALER"}
               [] type = "DEALER" -> {"REP", "DEALER", "ROUTER"}
               [] type = "ROUTER" -> {"REQ", "DEALER", "ROUTER"}
               [] type = "PUSH" -> {"PULL"}
               [] type = "PULL" -> {"PUSH"}
               [] type \in {"PUB", "XPUB"} -> {"SUB", "XSUB"}
               [] type \in {"SUB", "XSUB"} -> {"PUB", "XPUB"}
               [] type = "PAIR" -> {"PAIR"}

\* socket_type_string and add_property: the metadata that a socket sends
Metadata(o) == [type |-> o.type,
                identity |-> IF o.type \in {"REQ", "DEALER", "ROUTER"} THEN o.identity ELSE 0]

\* mechanism_t::parse_metadata, with set_peer_identity
parse_metadata(o, m, meta) ==
    IF ~check_socket_type(o.type, meta.type) THEN Result(m, "error")
    ELSE Result([m EXCEPT !.identity = IF o.recv_identity THEN meta.identity ELSE @], "ok")

\* the members of mechanism_t; what a server asks the ZAP handler, and its verdict
Base(kind, state) == [kind |-> kind, state |-> state, identity |-> 0, user |-> FALSE,
                      request |-> << >>, status_code |-> "none"]
-----------------------------------------------------------------------------
(* ZAP.  session_base_t::zap_connect succeeds when there is a handler.  A  *)
(* handler is external: it looks at the credentials in the last frame.     *)
zap_connect(o) == o.handler # "none"

ZapRequest(o, mechanism, credentials) ==
    <<"", "1.0", "1", o.domain, "address", "identity", mechanism>> \o credentials

ZapReply(o, request) ==
    [frames |-> IF o.handler = "incomplete" THEN 6 ELSE 7,
     version |-> IF o.handler = "malformed" THEN "2.0" ELSE "1.0", id |-> request[3],
     status |-> IF request[Len(request)] = "bad" THEN "400"
                ELSE IF o.handler \in {"400", "40"} THEN o.handler ELSE "200"]

\* The checks that all mechanisms make of a reply: seven frames, the first empty
ReplyOK(reply) == /\ reply.frames = 7 /\ reply.version = "1.0" /\ reply.id = "1"
                  /\ reply.status \in {"200", "400"}
Verdict(m, reply) == Result([m EXCEPT !.status_code = reply.status, !.user = TRUE], "ok")
-----------------------------------------------------------------------------
(* null_mechanism_t                                                        *)
NewNull(o) ==
    [ready_command_sent |-> FALSE, error_command_sent |-> FALSE,
     ready_command_received |-> FALSE, error_command_received |-> FALSE,
     zap_connected |-> o.domain # "" /\ zap_connect(o), zap_request_sent |-> FALSE,
     zap_reply_received |-> FALSE,
     kind |-> "NULL", identity |-> 0, user |-> FALSE, request |-> << >>, status_code |-> "none"]

null_send_zap_request(o, m) ==
    [m EXCEPT !.request = ZapRequest(o, "NULL", << >>), !.zap_request_sent = TRUE]
null_receive_and_process_zap_reply(o, m) ==
    LET reply == ZapReply(o, m.request)
    IN  IF ReplyOK(reply) THEN Verdict(m, reply) ELSE Result(m, "error")

null_zap_msg_available(o, m) ==
    LET r == null_receive_and_process_zap_reply(o, m)
    IN  IF m.zap_reply_received THEN Result(m, "error")
        ELSE IF r.rc = "ok" THEN Result([r.m EXCEPT !.zap_reply_received = TRUE], "ok") ELSE r

\* READY, or ERROR when the ZAP handler refused
NullCommand(o, m) ==
    IF m.zap_reply_received /\ m.status_code # "200"
      THEN Produced([m EXCEPT !.error_command_sent = TRUE], [name |-> "ERROR", fits |-> TRUE])
      ELSE Produced([m EXCEPT !.ready_command_sent = TRUE],
                    [name |-> "READY", meta |-> Metadata(o)])

null_next_handshake_command(o, m) ==
    IF m.ready_command_sent \/ m.error_command_sent THEN Result(m, "again")
    ELSE IF ~m.zap_connected \/ m.zap_reply_received THEN NullCommand(o, m)
    ELSE IF m.zap_request_sent THEN Result(m, "again")
    ELSE LET a == null_send_zap_request(o, m)
             r == null_zap_msg_available(o, a)
         IN  IF ~o.prompt THEN Result(a, "again")
             ELSE IF r.rc = "ok" THEN NullCommand(o, r.m) ELSE Result(a, "error")

null_process_handshake_command(o, m, cmd) ==
    IF m.ready_command_received \/ m.error_command_received THEN Result(m, "error")
    ELSE CASE cmd.name = "READY" ->
                parse_metadata(o, [m EXCEPT !.ready_command_received = TRUE], cmd.meta)
           [] cmd.name = "ERROR" /\ cmd.fits ->
                Result([m EXCEPT !.error_command_received = TRUE], "ok")
           [] OTHER -> Result(m, "error")

null_status(m) ==
    IF m.ready_command_sent /\ m.ready_command_received THEN "ready"
    ELSE IF /\ m.ready_command_sent \/ m.error_command_sent
            /\ m.ready_command_received \/ m.error_command_received THEN "error"
    ELSE "handshaking"
-----------------------------------------------------------------------------
(* plain_client_t                                                          *)
NewPlainClient == Base("PLAIN client", "sending_hello")

plain_produce_hello(o) == [name |-> "HELLO", credentials |-> o.credentials]
plain_produce_initiate(o) == [name |-> "INITIATE", meta |-> Metadata(o)]

plain_client_next_handshake_command(o, m) ==
    CASE m.state = "sending_hello" ->
           Produced([m EXCEPT !.state = "waiting_for_welcome"], plain_produce_hello(o))
      [] m.state = "sending_initiate" ->
           Produced([m EXCEPT !.state = "waiting_for_ready"], plain_produce_initiate(o))
      [] OTHER -> Result(m, "again")

plain_process_welcome(m) ==
    IF m.state # "waiting_for_welcome" THEN Result(m, "error")
    ELSE Result([m EXCEPT !.state = "sending_initiate"], "ok")
plain_process_ready(o, m, cmd) ==
    LET r == parse_metadata(o, m, cmd.meta)
    IN  IF m.state # "waiting_for_ready" THEN Result(m, "error")
        ELSE IF r.rc = "ok" THEN Result([r.m EXCEPT !.state = "ready"], "ok") ELSE r
plain_process_error(m, cmd) ==
    IF m.state \notin {"waiting_for_welcome", "waiting_for_ready"} \/ ~cmd.fits
      THEN Result(m, "error") ELSE Result([m EXCEPT !.state = "error_command_received"], "ok")

plain_client_process_handshake_command(o, m, cmd) ==
    CASE cmd.name = "WELCOME" -> plain_process_welcome(m)
      [] cmd.name = "READY" -> plain_process_ready(o, m, cmd)
      [] cmd.name = "ERROR" -> plain_process_error(m, cmd)
      [] OTHER -> Result(m, "error")
-----------------------------------------------------------------------------
(* plain_server_t                                                          *)
NewPlainServer == Base("PLAIN server", "waiting_for_hello")

plain_send_zap_request(o, m, credentials) ==
    [m EXCEPT !.request = ZapRequest(o, "PLAIN", <<"username", credentials>>)]
plain_receive_and_process_zap_reply(o, m) ==
    LET reply == ZapReply(o, m.request)
    IN  IF ReplyOK(reply) THEN Verdict(m, reply) ELSE Result(m, "error")

\* Mutant: the status code is not compared.
plain_verdict_accepts(r) ==
    IF r.rc # "ok" THEN r ELSE Result([r.m EXCEPT !.state = "sending_welcome"], "ok")
plain_verdict(r) ==
    IF r.rc # "ok" THEN r
    ELSE Result([r.m EXCEPT !.state = IF r.m.status_code = "200" THEN "sending_welcome"
                                      ELSE "sending_error"], "ok")

\* The user name and the password are both there, and nothing else
plain_process_hello(o, m, cmd) ==
    LET a == plain_send_zap_request(o, m, cmd.credentials)
    IN  IF cmd.name # "HELLO" THEN Result(m, "error")
        ELSE IF ~zap_connect(o) THEN Result([m EXCEPT !.state = "sending_welcome"], "ok")
        ELSE IF o.prompt THEN plain_verdict(plain_receive_and_process_zap_reply(o, a))
        ELSE Result([a EXCEPT !.state = "waiting_for_zap_reply"], "ok")

plain_process_initiate(o, m, cmd) ==
    IF cmd.name # "INITIATE" THEN Result(m, "error")
    ELSE LET r == parse_metadata(o, m, cmd.meta)
         IN  IF r.rc = "ok" THEN Result([r.m EXCEPT !.state = "sending_ready"], "ok") ELSE r

plain_server_process_handshake_command(o, m, cmd) ==
    CASE m.state = "waiting_for_hello" -> plain_process_hello(o, m, cmd)
      [] m.state = "waiting_for_initiate" -> plain_process_initiate(o, m, cmd)
      [] OTHER -> Result(m, "error")

plain_produce_welcome == [name |-> "WELCOME"]
plain_produce_ready(o) == [name |-> "READY", meta |-> Metadata(o)]
plain_produce_error == [name |-> "ERROR", fits |-> TRUE]

plain_server_next_handshake_command(o, m) ==
    CASE m.state = "sending_welcome" ->
           Produced([m EXCEPT !.state = "waiting_for_initiate"], plain_produce_welcome)
      [] m.state = "sending_ready" -> Produced([m EXCEPT !.state = "ready"], plain_produce_ready(o))
      [] m.state = "sending_error" ->
           Produced([m EXCEPT !.state = "error_command_sent"], plain_produce_error)
      [] OTHER -> Result(m, "again")

plain_zap_msg_available(o, m) ==
    IF m.state # "waiting_for_zap_reply" THEN Result(m, "error")
    ELSE plain_verdict(plain_receive_and_process_zap_reply(o, m))

plain_status(m) ==
    CASE m.state = "ready" -> "ready"
      [] m.state \in {"error_command_sent", "error_command_received"} -> "error"
      [] OTHER -> "handshaking"
=============================================================================
