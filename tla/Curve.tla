--------------------------------- MODULE Curve ----------------------------------
(***************************************************************************)
(* curve_client_t and curve_server_t.  Encryption is external: a box names *)
(* the key pair it was made with and can be opened with the same pair      *)
(* only.  o.cn is the socket's short-term key, o.key the server's          *)
(* long-term key and o.server_key what the client takes it to be.          *)
(***************************************************************************)
EXTENDS Mechanism

Box(from, to, body) == [from |-> from, to |-> to, body |-> body]
Opens(box, from, to) == box.from = from /\ box.to = to

NewCurveClient ==
    [cn_server |-> "none", cn_cookie |-> [client |-> "none", secret |-> "none"],
     cn_nonce |-> 1, cn_peer_nonce |-> 1,
     kind |-> "CURVE client", state |-> "send_hello", identity |-> 0, user |-> FALSE,
     request |-> << >>, status_code |-> "none"]

curve_produce_hello(o, m) ==
    Produced([m EXCEPT !.cn_nonce = @ + 1, !.state = "expect_welcome"],
             [name |-> "HELLO", cn |-> o.cn, nonce |-> m.cn_nonce,
              box |-> Box(o.cn, o.server_key, "zeros")])

\* with the vouch, Box [C',S](C->S')
curve_produce_initiate(o, m) ==
    Produced([m EXCEPT !.cn_nonce = @ + 1, !.state = "expect_ready"],
             [name |-> "INITIATE", cookie |-> m.cn_cookie, nonce |-> m.cn_nonce,
              box |-> Box(o.cn, m.cn_server,
                          [key |-> o.credentials, meta |-> Metadata(o),
                           vouch |-> Box(o.credentials, m.cn_server, o.cn)])])

curve_client_next_handshake_command(o, m) ==
    CASE m.state = "send_hello" -> curve_produce_hello(o, m)
      [] m.state = "send_initiate" -> curve_produce_initiate(o, m)
      [] OTHER -> Result(m, "again")

curve_process_welcome(o, m, cmd) ==
    IF ~Opens(cmd.box, o.server_key, o.cn) THEN Result(m, "error")
    ELSE Result([m EXCEPT !.cn_server = cmd.box.body.cn, !.cn_cookie = cmd.box.body.cookie,
                          !.state = "send_initiate"], "ok")

curve_process_ready(o, m, cmd) ==
    LET a == [m EXCEPT !.cn_peer_nonce = cmd.nonce]
        r == parse_metadata(o, a, cmd.box.body)
    IN  IF ~Opens(cmd.box, m.cn_server, o.cn) THEN Result(a, "error")
        ELSE IF r.rc = "ok" THEN Result([r.m EXCEPT !.state = "connected"], "ok") ELSE r

curve_process_error(m, cmd) ==
    IF m.state \notin {"expect_welcome", "expect_ready"} \/ ~cmd.fits THEN Result(m, "error")
    ELSE Result([m EXCEPT !.state = "error_received"], "ok")

curve_client_process_handshake_command(o, m, cmd) ==
    CASE cmd.name = "WELCOME" -> curve_process_welcome(o, m, cmd)
      [] cmd.name = "READY" -> curve_process_ready(o, m, cmd)
      [] cmd.name = "ERROR" -> curve_process_error(m, cmd)
      [] OTHER -> Result(m, "error")

\* encode: the flag of the message travels inside the box
curve_client_encode(o, m, msg) ==
    Produced([m EXCEPT !.cn_nonce = @ + 1],
             [name |-> "MESSAGE", nonce |-> m.cn_nonce, more |-> msg.more,
              box |-> Box(o.cn, m.cn_server, msg.body)])

\* decode: a nonce is accepted once
curve_client_decode(o, m, cmd) ==
    IF cmd.name # "MESSAGE" THEN Result(m, "error")
    ELSE IF cmd.nonce <= m.cn_peer_nonce THEN Result(m, "error")
    ELSE Result([m EXCEPT !.cn_peer_nonce = cmd.nonce],
                IF Opens(cmd.box, m.cn_server, o.cn) THEN "ok" ELSE "error")
-----------------------------------------------------------------------------
NewCurveServer ==
    [cn_client |-> "none", cn_nonce |-> 1, cn_peer_nonce |-> 1,
     kind |-> "CURVE server", state |-> "expect_hello", identity |-> 0, user |-> FALSE,
     request |-> << >>, status_code |-> "none"]

curve_process_hello(o, m, cmd) ==
    IF cmd.name # "HELLO" THEN Result(m, "error")
    ELSE LET a == [m EXCEPT !.cn_client = cmd.cn, !.cn_peer_nonce = cmd.nonce]
         IN  IF ~Opens(cmd.box, cmd.cn, o.key) THEN Result(a, "error")
             ELSE Result([a EXCEPT !.state = "send_welcome"], "ok")

\* the cookie is C' and s' under a key of the server's own
curve_produce_welcome(o, m) ==
    Produced([m EXCEPT !.state = "expect_initiate"],
             [name |-> "WELCOME",
              box |-> Box(o.key, m.cn_client,
                          [cn |-> o.cn, cookie |-> [client |-> m.cn_client, secret |-> o.cn]])])

curve_send_zap_request(o, m, key) == [m EXCEPT !.request = ZapRequest(o, "CURVE", <<key>>)]
curve_receive_and_process_zap_reply(o, m) ==
    LET reply == ZapReply(o, m.request)
    IN  IF ReplyOK(reply) THEN Verdict(m, reply) ELSE Result(m, "error")
curve_verdict(r) ==
    IF r.rc # "ok" THEN r
    ELSE Result([r.m EXCEPT !.state = IF r.m.status_code = "200" THEN "send_ready"
                                      ELSE "send_error"], "ok")

\* the checks of cookie, box and vouch
InitiateOK(o, m, cmd) ==
    /\ cmd.cookie = [client |-> m.cn_client, secret |-> o.cn]
    /\ Opens(cmd.box, m.cn_client, o.cn)
    /\ Opens(cmd.box.body.vouch, cmd.box.body.key, o.cn)
    /\ cmd.box.body.vouch.body = m.cn_client

\* The metadata are parsed after the state was set
curve_process_initiate(o, m, cmd) ==
    IF cmd.name # "INITIATE" THEN Result(m, "error")
    ELSE IF ~InitiateOK(o, m, cmd) THEN Result([m EXCEPT !.cn_peer_nonce = cmd.nonce], "error")
    ELSE LET a == [m EXCEPT !.cn_peer_nonce = cmd.nonce]
             b == curve_send_zap_request(o, a, cmd.box.body.key)
             r == IF ~zap_connect(o) THEN Result([a EXCEPT !.state = "send_ready"], "ok")
                  ELSE IF o.prompt THEN curve_verdict(curve_receive_and_process_zap_reply(o, b))
                  ELSE Result([b EXCEPT !.state = "expect_zap_reply"], "ok")
         IN  IF r.rc = "ok" THEN parse_metadata(o, r.m, cmd.box.body.meta) ELSE r

curve_server_process_handshake_command(o, m, cmd) ==
    CASE m.state = "expect_hello" -> curve_process_hello(o, m, cmd)
      [] m.state = "expect_initiate" -> curve_process_initiate(o, m, cmd)
      [] OTHER -> Result(m, "error")

curve_produce_ready(o, m) ==
    Produced([m EXCEPT !.cn_nonce = @ + 1, !.state = "connected"],
             [name |-> "READY", nonce |-> m.cn_nonce, box |-> Box(o.cn, m.cn_client, Metadata(o))])

\* The length that is sent is sizeof of a string object, more than what follows
curve_produce_error(m) == Produced([m EXCEPT !.state = "error_sent"],
                                   [name |-> "ERROR", fits |-> FALSE])

curve_server_next_handshake_command(o, m) ==
    CASE m.state = "send_welcome" -> curve_produce_welcome(o, m)
      [] m.state = "send_ready" -> curve_produce_ready(o, m)
      [] m.state = "send_error" -> curve_produce_error(m)
      [] OTHER -> Result(m, "again")

curve_zap_msg_available(o, m) ==
    IF m.state # "expect_zap_reply" THEN Result(m, "error")
    ELSE curve_verdict(curve_receive_and_process_zap_reply(o, m))

curve_server_encode(o, m, msg) ==
    Produced([m EXCEPT !.cn_nonce = @ + 1],
             [name |-> "MESSAGE", nonce |-> m.cn_nonce, more |-> msg.more,
              box |-> Box(o.cn, m.cn_client, msg.body)])
curve_server_decode(o, m, cmd) ==
    IF cmd.name # "MESSAGE" THEN Result(m, "error")
    ELSE IF cmd.nonce <= m.cn_peer_nonce THEN Result(m, "error")
    ELSE Result([m EXCEPT !.cn_peer_nonce = cmd.nonce],
                IF Opens(cmd.box, m.cn_client, o.cn) THEN "ok" ELSE "error")

curve_status(m) ==
    CASE m.state = "connected" -> "ready"
      [] m.state \in {"error_sent", "error_received"} -> "error"
      [] OTHER -> "handshaking"
=============================================================================
