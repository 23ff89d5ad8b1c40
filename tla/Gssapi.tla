--------------------------------- MODULE Gssapi ---------------------------------
(***************************************************************************)
(* gssapi_client_t and gssapi_server_t.  The GSSAPI library is external:   *)
(* the client's tokens are numbered, the server's context is complete      *)
(* after Legs of them and the client's with the answer to the last.        *)
(***************************************************************************)
EXTENDS Mechanism

CONSTANT Legs
ASSUME GssapiAssumption == Legs \in Nat \ {0}

\* the members of gssapi_mechanism_base_t; token counts what was exchanged
GssapiBase(kind, state, maj_stat) ==
    [security_context_established |-> FALSE, maj_stat |-> maj_stat, token |-> 0,
     send_tok |-> 0, kind |-> kind, state |-> state, identity |-> 0, user |-> FALSE,
     request |-> << >>, status_code |-> "none"]
NewGssapiClient == GssapiBase("GSSAPI client", "call_next_init", "complete")
NewGssapiServer == GssapiBase("GSSAPI server", "recv_next_token", "continue")
Failed(m) == m.maj_stat \notin {"complete", "continue"}

\* encode_message and decode_message: with encryption everything is wrapped
Wrap(o, more, body) == [name |-> "MESSAGE", more |-> more, body |-> body]
encode_message(o, msg) == Wrap(o, msg.more, msg.body)
decode_message(cmd) == IF cmd.name = "MESSAGE" THEN "ok" ELSE "error"

gssapi_produce_initiate(token) == [name |-> "INITIATE", token |-> token]
process_initiate(cmd) == cmd.name = "INITIATE"

gssapi_produce_ready(o) ==
    LET ready == [name |-> "READY", meta |-> Metadata(o)]
    IN  IF o.encrypt THEN Wrap(o, FALSE, ready) ELSE ready
gssapi_process_ready(o, m, cmd) ==
    LET ready == IF o.encrypt /\ decode_message(cmd) = "ok" THEN cmd.body ELSE cmd
    IN  IF (o.encrypt /\ decode_message(cmd) # "ok") \/ ready.name # "READY" THEN Result(m, "error")
        ELSE parse_metadata(o, m, ready.meta)

Moved(r, state) == IF r.rc = "ok" THEN [r EXCEPT !.m.state = state] ELSE r
-----------------------------------------------------------------------------
\* gss_init_sec_context
initialize_context(m) ==
    LET k == m.token + 1
    IN  [m EXCEPT !.token = k, !.send_tok = IF k <= Legs THEN k ELSE 0,
                  !.maj_stat = IF k <= Legs THEN "continue" ELSE "complete"]

\* produce_next_token: an empty token leaves the message empty
gssapi_produce_next_token(m) ==
    IF Failed(m) THEN Result(m, "error")
    ELSE Produced([m EXCEPT !.send_tok = 0],
                  IF m.send_tok = 0 THEN [name |-> "empty"] ELSE gssapi_produce_initiate(m.send_tok))

gssapi_client_next_handshake_command(o, m) ==
    IF m.state = "send_ready"
      THEN Produced([m EXCEPT !.state = "connected"], gssapi_produce_ready(o))
    ELSE IF m.state # "call_next_init" THEN Result(m, "again")
    ELSE LET r == gssapi_produce_next_token(initialize_context(m))
         IN  IF r.rc # "ok" THEN r
             ELSE IF r.m.maj_stat = "complete"
               THEN [r EXCEPT !.m.security_context_established = TRUE, !.m.state = "recv_ready"]
             ELSE [r EXCEPT !.m.state = "recv_next_token"]

gssapi_client_process_handshake_command(o, m, cmd) ==
    IF m.state = "recv_ready" THEN Moved(gssapi_process_ready(o, m, cmd), "send_ready")
    ELSE IF m.state # "recv_next_token" \/ Failed(m) THEN Result(m, "error")
    ELSE IF m.maj_stat = "continue" /\ ~process_initiate(cmd) THEN Result(m, "error")
    ELSE Result([m EXCEPT !.state = "call_next_init"], "ok")
-----------------------------------------------------------------------------
\* gss_accept_sec_context
accept_context(o, m) ==
    LET k == m.token + 1
    IN  [m EXCEPT !.token = k, !.send_tok = k,
                  !.maj_stat = IF ~o.gss THEN "failure"
                               ELSE IF k < Legs THEN "continue" ELSE "complete"]

gssapi_send_zap_request(o, m) == [m EXCEPT !.request = ZapRequest(o, "GSSAPI", <<o.principal>>)]
gssapi_receive_and_process_zap_reply(o, m) ==
    LET reply == ZapReply(o, m.request)
    IN  IF ReplyOK(reply) /\ reply.status = "200" THEN Verdict(m, reply) ELSE Result(m, "error")

gssapi_server_next_handshake_command(o, m) ==
    IF m.state = "send_ready"
      THEN Produced([m EXCEPT !.state = "recv_ready"], gssapi_produce_ready(o))
    ELSE IF m.state # "send_next_token" THEN Result(m, "again")
    ELSE LET r == gssapi_produce_next_token(m)
         IN  IF r.rc # "ok" THEN r
             ELSE [r EXCEPT !.m.security_context_established = @ \/ m.maj_stat = "complete",
                            !.m.state = "recv_next_token"]

\* Once the context is established the client's last token, which is empty, asks for READY
gssapi_server_process_handshake_command(o, m, cmd) ==
    IF m.state = "recv_ready" THEN Moved(gssapi_process_ready(o, m, cmd), "connected")
    ELSE IF m.state # "recv_next_token" THEN Result(m, "error")
    ELSE IF m.security_context_established
      THEN LET a == gssapi_send_zap_request(o, m)
           IN  IF ~zap_connect(o) THEN Result([m EXCEPT !.state = "send_ready"], "ok")
               ELSE IF o.prompt THEN Moved(gssapi_receive_and_process_zap_reply(o, a), "send_ready")
               ELSE Result([a EXCEPT !.state = "expect_zap_reply"], "ok")
    ELSE IF m.maj_stat = "continue" /\ ~process_initiate(cmd) THEN Result(m, "error")
    ELSE Result([accept_context(o, m) EXCEPT !.state = "send_next_token"], "ok")

gssapi_zap_msg_available(o, m) ==
    IF m.state # "expect_zap_reply" THEN Result(m, "error")
    ELSE Moved(gssapi_receive_and_process_zap_reply(o, m), "send_ready")

gssapi_status(m) == IF m.state = "connected" THEN "ready" ELSE "handshaking"
=============================================================================
