------------------------------- MODULE Connecter --------------------------------
(***************************************************************************)
(* The objects that make connections: tcp, ipc and tipc connecters, the    *)
(* connecter that goes through a SOCKS proxy, and the listeners.  A        *)
(* connecter is a record; what the network may answer makes its operations *)
(* sets of records.  status "attached" means that an engine was made, sent *)
(* to the session, and that the connecter asked to be terminated.          *)
(***************************************************************************)
EXTENDS Integers, Sequences, FiniteSets, FiniteSetsExt

\* the constructors
NewConnecter(proto, ivl, ivl_max) ==
    [proto |-> proto, status |-> "unplugged", fd |-> FALSE, handle |-> FALSE, timer |-> FALSE,
     ivl |-> ivl, reconnect_ivl |-> ivl, reconnect_ivl_max |-> ivl_max, unsent |-> 0, unread |-> 0]
NoConnecter == [NewConnecter("tcp", 1, 0) EXCEPT !.status = "absent"]

Aborts(c, what) == [c EXCEPT !.status = what]
\* an assertion of the code fails
Aborted(c) == c.status \in {"assert", "unlisted errno", "division by zero"}

(* What opening a socket and connecting it comes to.  A socket is there in *)
(* all cases but the first two.                                            *)
tcp_open == {"unresolved", "no socket", "not bound", "connected", "in progress", "refused"}
ipc_open == {"no socket", "connected", "in progress", "refused"}
tipc_open == {"no socket", "connected", "in progress", "refused"}
connect_to_proxy == {"unresolved", "no socket", "connected", "in progress", "refused"}

open(c) ==
    CASE c.proto = "tcp" -> tcp_open
      [] c.proto = "ipc" -> ipc_open
      [] c.proto = "tipc" -> tipc_open
      [] c.proto = "socks" -> connect_to_proxy
Opened(c, o) == [c EXCEPT !.fd = o \notin {"unresolved", "no socket"}]
Closed(c) == [c EXCEPT !.fd = FALSE]

(* The error that SO_ERROR reports once the socket is writable.  An errno   *)
(* that is not on the list of networking problems aborts the process.      *)
tcp_connect == {"ok", "refused", "unlisted errno"}
ipc_connect == {"ok", "refused", "unlisted errno"}
tipc_connect == {"ok", "refused", "unlisted errno"}
check_proxy_connection == {"ok", "refused", "unlisted errno"}
connect(c) ==
    CASE c.proto = "tcp" -> tcp_connect
      [] c.proto = "ipc" -> ipc_connect
      [] c.proto = "tipc" -> tipc_connect
      [] c.proto = "socks" -> check_proxy_connection
-----------------------------------------------------------------------------
\* int arithmetic, of few bits: a negative interval doubles until it overflows
IntMax == 7
Wrap(i) == ((i + IntMax + 1) % (2 * IntMax + 2)) - IntMax - 1

\* the interval doubles up to reconnect_ivl_max, when that is above reconnect_ivl
get_new_reconnect_ivl(c) ==
    IF c.reconnect_ivl_max > 0 /\ c.reconnect_ivl_max > c.reconnect_ivl
      THEN Min({Wrap(c.ivl * 2), c.reconnect_ivl_max}) ELSE c.ivl

\* the random part is generate_random () % reconnect_ivl
add_reconnect_timer(c) ==
    IF c.reconnect_ivl = 0 THEN Aborts(c, "division by zero")
    ELSE [c EXCEPT !.timer = TRUE, !.ivl = get_new_reconnect_ivl(c),
                   !.status = "waiting_for_reconnect_time"]

\* out_event of a tcp, ipc or tipc connecter: the attempt is over
\* Mutant: the socket of a failed attempt is left open.
out_event_keeps_fd(c) ==
    {[c EXCEPT !.handle = FALSE, !.fd = FALSE, !.status = "attached"],
     add_reconnect_timer([c EXCEPT !.handle = FALSE])}
out_event(c) ==
    {CASE o = "ok" -> [c EXCEPT !.handle = FALSE, !.fd = FALSE, !.status = "attached"]
       [] o = "refused" -> add_reconnect_timer(Closed([c EXCEPT !.handle = FALSE]))
       [] OTHER -> Aborts(c, o) : o \in connect(c)}

start_connecting(c) ==
    UNION {CASE o = "connected" -> out_event([Opened(c, o) EXCEPT !.handle = TRUE])
             [] o = "in progress" -> {[Opened(c, o) EXCEPT !.handle = TRUE, !.status = "connecting"]}
             [] OTHER -> {add_reconnect_timer(Closed(Opened(c, o)))} : o \in open(c)}
-----------------------------------------------------------------------------
(* socks_connecter_t.  Requests are written and answers read in pieces:    *)
(* unsent and unread count the pieces that are missing.  An answer that    *)
(* says no, a short read or write and a lost connection all end in error.  *)
Pieces == 2

socks_error(c) == add_reconnect_timer([c EXCEPT !.handle = FALSE, !.fd = FALSE,
                                                !.unsent = 0, !.unread = 0])

\* greeting_encoder.encode and request_encoder.encode
greeting_encode(c) == [c EXCEPT !.unsent = Pieces, !.status = "sending_greeting"]
request_encode(c) == [c EXCEPT !.unsent = Pieces, !.status = "sending_request"]

\* socks_greeting_encoder_t::output and socks_request_encoder_t::output
socks_output(c) == {[c EXCEPT !.unsent = n] : n \in 0..(c.unsent - 1)}
\* choice_decoder.input and response_decoder.input
choice_input(c) == {[c EXCEPT !.unread = n] : n \in 0..(c.unread - 1)}
response_input(c) == {[c EXCEPT !.unread = n] : n \in 0..(c.unread - 1)}

\* A connection that succeeds at once has no greeting encoded.
initiate_connect(c) ==
    {CASE o = "connected" -> [Opened(c, o) EXCEPT !.handle = TRUE, !.status = "sending_greeting"]
       [] o = "in progress" -> [Opened(c, o) EXCEPT !.handle = TRUE,
                                                    !.status = "waiting_for_proxy_connection"]
       [] OTHER -> add_reconnect_timer(Closed(Opened(c, o))) : o \in open(c)}

socks_out_event(c) ==
    IF c.status = "waiting_for_proxy_connection"
      THEN {CASE o = "ok" -> greeting_encode(c)
              [] o = "refused" -> socks_error(c)
              [] OTHER -> Aborts(c, o) : o \in connect(c)}
    ELSE IF c.unsent = 0 THEN {Aborts(c, "assert")}
    ELSE {socks_error(c)} \cup
         {IF d.unsent > 0 THEN d
          ELSE [d EXCEPT !.unread = Pieces,
                         !.status = IF c.status = "sending_greeting" THEN "waiting_for_choice"
                                    ELSE "waiting_for_response"] : d \in socks_output(c)}

socks_in_event(c) ==
    {socks_error(c)} \cup
    CASE c.status = "waiting_for_choice" ->
           {IF d.unread > 0 THEN d ELSE request_encode(d) : d \in choice_input(c)}
      [] c.status = "waiting_for_response" ->
           {IF d.unread > 0 THEN d
            ELSE [d EXCEPT !.handle = FALSE, !.fd = FALSE, !.status = "attached"]
              : d \in response_input(c)}
      [] OTHER -> {}
-----------------------------------------------------------------------------
\* process_plug, of any connecter
Begin(c) == IF c.proto = "socks" THEN initiate_connect(c) ELSE start_connecting(c)
process_plug(c, delayed_start) == IF delayed_start THEN {add_reconnect_timer(c)} ELSE Begin(c)
timer_event(c) == Begin([c EXCEPT !.timer = FALSE])

\* the poller reports the socket of the connecter
Reported(c) ==
    IF c.proto # "socks" THEN out_event(c)
    ELSE socks_in_event(c) \cup
         (IF c.status \in {"waiting_for_choice", "waiting_for_response"} THEN {}
          ELSE socks_out_event(c))

\* process_term of a tcp, ipc or tipc connecter, and of a SOCKS connecter
connecter_process_term(c) == [c EXCEPT !.timer = FALSE, !.handle = FALSE, !.fd = FALSE]
socks_process_term(c) ==
    CASE c.status = "waiting_for_reconnect_time" -> [c EXCEPT !.timer = FALSE]
      [] c.status \in {"unplugged", "attached"} -> c
      [] OTHER -> [c EXCEPT !.handle = FALSE, !.fd = FALSE]
ConnecterTerm(c) == [(IF c.proto = "socks" THEN socks_process_term(c) ELSE connecter_process_term(c))
                       EXCEPT !.status = "absent"]

\* the destructor asserts that nothing is left behind
Released(c) == ~c.timer /\ ~c.handle /\ ~c.fd
-----------------------------------------------------------------------------
(* Listeners: what accepting a connection comes to.  A connection that the *)
(* filters refuse is closed again.                                         *)
tcp_accept == {"ok", "reset", "filtered"}
ipc_accept == {"ok", "reset", "filtered", "unlisted errno"}
tipc_accept == {"ok", "reset"}
accept(proto) ==
    CASE proto = "tcp" -> tcp_accept
      [] proto = "ipc" -> ipc_accept
      [] proto = "tipc" -> tipc_accept
=============================================================================
