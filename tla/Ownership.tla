------------------------------- MODULE Ownership -------------------------------
(***************************************************************************)
(* The life and death of a context: its sockets, the listeners, sessions   *)
(* and connecters they own (own_t), the I/O thread, the reaper thread and  *)
(* the thread that terminates the context.  Objects talk by commands; each *)
(* thread has a mailbox.  Of a pipe only its termination is kept: once one *)
(* end asks for it, both ends are deleted, each in its own thread.         *)
(***************************************************************************)
EXTENDS Integers, Sequences, SequencesExt, FiniteSets

CONSTANTS
    Sockets,        \* the sockets of the context
    Networked,      \* those that bind and connect
    IoThreads,      \* the I/O threads, among which the objects are spread
    Objects,        \* the listeners, sessions and connecters, each created once
    MaxRestarts     \* bound on the interruptions of zmq_ctx_term

ASSUME OwnershipAssumption ==
    /\ Networked \subseteq Sockets /\ MaxRestarts \in Nat
    /\ IsFiniteSet(Sockets) /\ IsFiniteSet(Objects) /\ Sockets \cap Objects = {}
    /\ "null" \notin Sockets \cup Objects
    /\ IoThreads \cap Sockets = {} /\ {"reaper", "term"} \cap (Sockets \cup IoThreads) = {}

VARIABLES
    own,            \* the objects, sockets included
    mail,           \* the mailboxes
    pipes,          \* by session: what is left of the pipe between it and its socket
    sockets,        \* ctx_t::sockets
    terminating,    \* ctx_t::terminating
    term,           \* the thread in zmq_ctx_term
    restarts,
    reaper,         \* reaper_t: the sockets it reaps, whether it is to stop, and its state
    closed,         \* the sockets on which zmq_close was called
    failed          \* an assertion failed, or a command reached a deleted object

ctxVars == <<sockets, terminating, term, restarts>>
vars == <<own, mail, pipes, ctxVars, reaper, closed, failed>>

Null == "null"
\* One record has the members of all classes: own_t; socket_base_t; session_base_t; what
\* they share with the listeners and connecters.
Unborn ==
    [kind |-> "unborn", tid |-> Null, owner |-> Null, terminating |-> FALSE, owned |-> {},
     sent_seqnum |-> 0, processed_seqnum |-> 0, term_acks |-> 0,
     pipes |-> {}, endpoints |-> {}, reaping |-> FALSE, destroyed |-> FALSE,
     ctx_terminated |-> FALSE,
     socket |-> Null, active |-> FALSE, pending |-> FALSE, engine |-> FALSE,
     plugged |-> FALSE, connected |-> FALSE]
Deleted == [Unborn EXCEPT !.kind = "deleted"]
Own(kind, tid, owner) == [Unborn EXCEPT !.kind = kind, !.tid = tid, !.owner = owner]
Socket(s) == Own("socket", s, Null)
Session(t, owner, socket, active) ==
    [Own("session", t, owner) EXCEPT !.socket = socket, !.active = active]
Listener(t, owner) == Own("listener", t, owner)
Connecter(t, owner) == Own("connecter", t, owner)

\* ends: 1 is the socket's, 2 the session's; asked: those that called terminate
NoPipe == [asked |-> {}, ends |-> {}]
NewPipe == [asked |-> {}, ends |-> {1, 2}]

Init ==
    /\ own = [o \in Sockets \cup Objects |-> Unborn]
    /\ mail = [t \in Sockets \cup IoThreads \cup {"reaper", "term"} |-> << >>]
    /\ pipes = [o \in Objects |-> NoPipe]
    /\ sockets = {} /\ terminating = FALSE /\ term = "idle" /\ restarts = 0
    /\ reaper = [sockets |-> 0, terminating |-> FALSE, stopped |-> FALSE]
    /\ closed = {} /\ failed = FALSE
-----------------------------------------------------------------------------
\* A step of an object works on a record of all that it may change.
State == [own |-> own, mail |-> mail, pipes |-> pipes, failed |-> failed]
Update(r) == own' = r.own /\ mail' = r.mail /\ pipes' = r.pipes /\ failed' = r.failed

Live(r, o) == r.own[o].kind \notin {"unborn", "deleted"}
Cmd(type, dest, arg) == [type |-> type, dest |-> dest, arg |-> arg]
Expect(r, ok) == [r EXCEPT !.failed = @ \/ ~ok]
Send(r, type, dest, arg) ==
    IF Live(r, dest) THEN [r EXCEPT !.mail[r.own[dest].tid] = Append(@, Cmd(type, dest, arg))]
    ELSE Expect(r, FALSE)
\* with the counter that keeps the destination from being deleted
SendCounted(r, type, dest, arg) ==
    Send([r EXCEPT !.own[dest].sent_seqnum = @ + 1], type, dest, arg)

\* The end of own_t::check_term_acks: the owner is told, and process_destroy deletes
\* the object, or marks a socket, which its own thread still uses.
Destroy(r, o) ==
    LET x == r.own[o]
        t == Expect(r, x.owned = {})
    IN  IF x.kind = "socket" THEN [t EXCEPT !.own[o].destroyed = TRUE]
        ELSE Expect([Send(t, "term_ack", x.owner, Null) EXCEPT !.own[o] = Deleted],
                    x.kind = "session" => 2 \notin r.pipes[o].ends)

\* Mutant: the commands on their way are not waited for.
CheckTermAcksOnly(r, o) ==
    LET x == r.own[o]
    IN  IF x.terminating /\ x.term_acks = 0 THEN Destroy(r, o) ELSE r

CheckTermAcks(r, o) ==
    LET x == r.own[o]
    IN  IF x.terminating /\ x.processed_seqnum = x.sent_seqnum /\ x.term_acks = 0
          THEN Destroy(r, o) ELSE r

process_seqnum(r, o) == CheckTermAcks([r EXCEPT !.own[o].processed_seqnum = @ + 1], o)

\* Mutant: that the last acknowledgement has arrived goes unnoticed.
unregister_term_ack_only(r, o) ==
    Expect([r EXCEPT !.own[o].term_acks = @ - 1], r.own[o].term_acks > 0)

unregister_term_ack(r, o) ==
    CheckTermAcks(Expect([r EXCEPT !.own[o].term_acks = @ - 1], r.own[o].term_acks > 0), o)

\* the command term to each of a set, in any order
SendTerms(r, set) ==
    Expect([r EXCEPT !.mail = [t \in DOMAIN @ |-> @[t] \o
              SetToSeq({Cmd("term", c, Null) : c \in {d \in set : Live(r, d) /\ r.own[d].tid = t}})]],
           \A c \in set : Live(r, c))

\* own_t::process_term
OwnProcessTerm(r, o) ==
    LET x == r.own[o]
        s == [SendTerms(r, x.owned) EXCEPT
                !.own[o].term_acks = @ + Cardinality(x.owned), !.own[o].owned = {},
                !.own[o].terminating = TRUE]
    IN  CheckTermAcks(Expect(s, ~x.terminating), o)

\* own_t::process_term_req, which is also own_t::term_child
process_term_req(r, o, child) ==
    IF r.own[o].terminating \/ child \notin r.own[o].owned THEN r
    ELSE Send([r EXCEPT !.own[o].owned = @ \ {child}, !.own[o].term_acks = @ + 1], "term", child, Null)

process_own(r, o, child) ==
    IF r.own[o].terminating
      THEN Send([r EXCEPT !.own[o].term_acks = @ + 1], "term", child, Null)
      ELSE [r EXCEPT !.own[o].owned = @ \cup {child}]

\* own_t::launch_child of a new object
LaunchChild(r, child, x) ==
    SendCounted(SendCounted([r EXCEPT !.own[child] = x], "plug", child, Null),
                "own", x.owner, child)

\* own_t::terminate, of an object that is owned
Terminate(r, o) ==
    IF r.own[o].terminating THEN r ELSE Send(r, "term_req", r.own[o].owner, o)

\* pipe_t::terminate by the owner of an end
AskPipes(r, set, end) ==
    [r EXCEPT !.pipes = [c \in Objects |-> IF c \in set /\ end \in @[c].ends
                           THEN [@[c] EXCEPT !.asked = r.pipes[c].asked \cup {end}] ELSE @[c]]]
AskPipe(r, c, end) == AskPipes(r, {c}, end)

\* Which object is used makes no difference; one is kept for the connecter of each session that
\* is still to be plugged.
Free == {o \in Objects : own[o] = Unborn}
Fresh == CHOOSE o \in Free : TRUE
Kept == {o \in Objects : own[o].kind = "session" /\ own[o].active /\ ~own[o].plugged}
Available(n) == Cardinality(Free) >= n + Cardinality(Kept)
-----------------------------------------------------------------------------
\* ctx_t::create_socket, which fails once the context terminates
CreateSocket(s) ==
    /\ own[s] = Unborn /\ ~terminating /\ term = "idle"
    /\ own' = [own EXCEPT ![s] = Socket(s)]
    /\ sockets' = sockets \cup {s}
    /\ UNCHANGED <<mail, pipes, terminating, term, restarts, reaper, closed, failed>>

\* bind, connect and term_endpoint process the pending commands first
Calls(s) ==
    /\ s \in (Networked \cap sockets) \ closed
    /\ mail[s] = << >> /\ ~own[s].ctx_terminated

\* ctx_t::choose_io_thread: the least loaded one, which may be any
choose_io_thread == IoThreads

Local(r) == Update(r) /\ UNCHANGED <<ctxVars, reaper, closed>>

Bind(s) ==
    /\ Calls(s) /\ Available(1)
    /\ \E t \in choose_io_thread :
         Local([LaunchChild(State, Fresh, Listener(t, s)) EXCEPT
                  !.own[s].endpoints = @ \cup {Fresh}])

Connect(s) ==
    /\ Calls(s) /\ Available(2)
    /\ \E t \in choose_io_thread :
         Local([LaunchChild(State, Fresh, Session(t, s, s, TRUE)) EXCEPT
                  !.own[s].endpoints = @ \cup {Fresh}, !.own[s].pipes = @ \cup {Fresh},
                  !.pipes[Fresh] = NewPipe])

\* term_endpoint: the pipe of the endpoint is terminated and so is the object
TermEndpoint(s, c) ==
    /\ Calls(s) /\ c \in own[s].endpoints
    /\ Local([process_term_req(AskPipe(State, c, 1), s, c) EXCEPT !.own[s].endpoints = @ \ {c}])

Close(s) ==
    /\ s \in sockets \ closed
    /\ closed' = closed \cup {s}
    /\ mail' = [mail EXCEPT !["reaper"] = Append(@, Cmd("reap", "reaper", s))]
    /\ UNCHANGED <<own, pipes, ctxVars, reaper, failed>>

\* socket_base_t::process_term
SocketProcessTerm(r, s) ==
    OwnProcessTerm([AskPipes(r, r.own[s].pipes, 1) EXCEPT
                      !.own[s].term_acks = @ + Cardinality(r.own[s].pipes)], s)

\* socket_base_t::attach_pipe for a pipe that a session has made
process_bind(r, s, c) ==
    LET t == [r EXCEPT !.own[s].pipes = @ \cup {c}]
    IN  IF r.own[s].terminating THEN AskPipe([t EXCEPT !.own[s].term_acks = @ + 1], c, 1) ELSE t
-----------------------------------------------------------------------------
\* session_base_t::start_connecting
StartConnecting(r, c, t) == LaunchChild(r, Fresh, Connecter(t, c))

\* process_plug: a listener starts to listen and a connecter to connect
process_plug(r, o, t) ==
    LET x == [r EXCEPT !.own[o].plugged = TRUE]
    IN  IF r.own[o].kind = "session" /\ r.own[o].active THEN StartConnecting(x, o, t) ELSE x

\* session_base_t::process_term: the pipe first
SessionProcessTerm(r, c) ==
    IF 2 \in r.pipes[c].ends
      THEN Expect([AskPipe(r, c, 2) EXCEPT !.own[c].pending = TRUE], ~r.own[c].pending)
      ELSE OwnProcessTerm(r, c)

\* session_base_t::process_attach: a session without a pipe makes one
process_attach(r, c) ==
    LET x == r.own[c]
        t == IF 2 \in r.pipes[c].ends \/ x.terminating THEN r
             ELSE SendCounted(Expect([r EXCEPT !.pipes[c] = NewPipe], 1 \notin r.pipes[c].ends),
                              "bind", x.socket, c)
    IN  Expect([t EXCEPT !.own[c].engine = TRUE], ~x.engine)

\* tcp_listener_t::in_event: the session is attached to its engine before anyone else
\* knows of it
Accept(l, t) ==
    /\ own[l].kind = "listener" /\ own[l].plugged /\ ~own[l].terminating /\ Available(1)
    /\ Local(SendCounted(LaunchChild(State, Fresh, Session(t, l, own[l].owner, FALSE)),
                         "attach", Fresh, Null))

\* tcp_connecter_t::out_event of a connection that is made
Connected(o) ==
    /\ own[o].kind = "connecter" /\ own[o].plugged /\ ~own[o].connected /\ ~own[o].terminating
    /\ Local(Terminate(SendCounted([State EXCEPT !.own[o].connected = TRUE],
                                   "attach", own[o].owner, Null), o))

\* session_base_t::engine_error
EngineError(c, reason, t) ==
    /\ own[c].kind = "session" /\ own[c].engine
    /\ LET r == [State EXCEPT !.own[c].engine = FALSE]
       IN  \/ /\ reason = "connection" /\ own[c].active /\ Available(1)
              /\ Local(StartConnecting(r, c, t))
           \/ /\ reason = "protocol" \/ ~own[c].active
              /\ Local(Terminate(r, c))

\* The thread of a socket: the application's, and once it is reaped the reaper's.
Runs(s) == s \in sockets /\ (s \in closed => own[s].reaping)

\* pipe_terminated of the session or the socket: the end that asked is told first, or
\* both of them when both have asked
PipeGone(c, end) ==
    /\ end \in pipes[c].ends /\ pipes[c].asked # {}
    /\ end \in pipes[c].asked \/ (3 - end) \notin pipes[c].ends
    /\ LET r == [State EXCEPT !.pipes[c].ends = @ \ {end}]
       IN  \/ /\ end = 2
              /\ Local(IF own[c].pending THEN OwnProcessTerm([r EXCEPT !.own[c].pending = FALSE], c)
                       ELSE r)
           \/ /\ end = 1
              /\ \E s \in Sockets :
                   /\ Runs(s) /\ c \in own[s].pipes
                   /\ LET t == [r EXCEPT !.own[s].pipes = @ \ {c}]
                      IN  Local(IF own[s].terminating THEN unregister_term_ack(t, s) ELSE t)

\* object_t::process_command
process_command(r, cmd, t) ==
    LET o == cmd.dest
    IN  CASE cmd.type = "plug" -> process_seqnum(process_plug(r, o, t), o)
          [] cmd.type = "own" -> process_seqnum(process_own(r, o, cmd.arg), o)
          [] cmd.type = "attach" -> process_seqnum(process_attach(r, o), o)
          [] cmd.type = "bind" -> process_seqnum(process_bind(r, o, cmd.arg), o)
          [] cmd.type = "term_req" -> process_term_req(r, o, cmd.arg)
          [] cmd.type = "term_ack" -> unregister_term_ack(r, o)
          [] cmd.type = "stop" -> [r EXCEPT !.own[o].ctx_terminated = TRUE]
          [] cmd.type = "term" /\ r.own[o].kind = "session" -> SessionProcessTerm(r, o)
          [] cmd.type = "term" /\ r.own[o].kind # "session" -> OwnProcessTerm(r, o)

Take(r, slot) == [r EXCEPT !.mail[slot] = Tail(@)]

ProcessCommand(slot, t) ==
    /\ mail[slot] # << >> /\ (slot \in IoThreads \/ Runs(slot))
    /\ LET cmd == Head(mail[slot])
           r   == Take(State, slot)
       IN  Local(IF Live(r, cmd.dest) THEN process_command(r, cmd, t) ELSE Expect(r, FALSE))
-----------------------------------------------------------------------------
SendDone(r) == [r EXCEPT !.mail["term"] = Append(@, Cmd("done", "term", Null))]
\* Mutant: the reaper stops while a socket is still being reaped.
ReapedAtOnce(r, x) == IF x.terminating THEN SendDone(r) ELSE r

\* the reaper is to stop: once the last socket is reaped it says so
Reaped(r, x) == IF x.terminating /\ x.sockets = 0 THEN SendDone(r) ELSE r

\* reaper_t::in_event
ReaperCommand ==
    /\ mail["reaper"] # << >>
    /\ LET cmd == Head(mail["reaper"])
           r   == Take(State, "reaper")
       IN  \/ /\ cmd.type = "reap"
              /\ reaper' = [reaper EXCEPT !.sockets = @ + 1]
              /\ Update(SocketProcessTerm([r EXCEPT !.own[cmd.arg].reaping = TRUE], cmd.arg))
           \/ /\ cmd.type = "reaped"
              /\ reaper' = [reaper EXCEPT !.sockets = @ - 1]
              /\ Update(Reaped(r, reaper'))
           \/ /\ cmd.type = "stop"
              /\ reaper' = [reaper EXCEPT !.terminating = TRUE]
              /\ Update(Reaped(r, reaper'))
    /\ UNCHANGED <<ctxVars, closed>>

ToReaper(m, type) == [m EXCEPT !["reaper"] = Append(@, Cmd(type, "reaper", Null))]

\* socket_base_t::check_destroy, with ctx_t::destroy_socket
CheckDestroy(s) ==
    /\ s \in sockets /\ own[s].reaping /\ own[s].destroyed
    /\ sockets' = sockets \ {s}
    /\ LET m == IF terminating /\ sockets' = {} THEN ToReaper(mail, "stop") ELSE mail
       IN  mail' = ToReaper([m EXCEPT ![s] = << >>], "reaped")
    /\ own' = [own EXCEPT ![s] = Deleted]
    \* a command of ctx_t::terminate may remain, nothing else
    /\ failed' = (failed \/ \E i \in DOMAIN mail[s] : mail[s][i].type # "stop")
    /\ UNCHANGED <<pipes, terminating, term, restarts, reaper, closed>>

\* the first part of ctx_t::terminate, and all of ctx_t::shutdown: the sockets are told,
\* or the reaper when there are none
StopAll ==
    /\ terminating' = TRUE
    /\ mail' = IF terminating THEN mail
               ELSE IF sockets = {} THEN ToReaper(mail, "stop")
               ELSE [t \in DOMAIN mail |-> IF t \in sockets
                       THEN Append(mail[t], Cmd("stop", t, Null)) ELSE mail[t]]
    /\ UNCHANGED <<own, pipes, sockets, restarts, reaper, closed, failed>>

Started == \E s \in Sockets : own[s] # Unborn

Shutdown == Started /\ ~terminating /\ term = "idle" /\ StopAll /\ UNCHANGED term
TermCall == Started /\ term = "idle" /\ StopAll /\ term' = "waiting"

\* the wait is interrupted by a signal: the application calls zmq_ctx_term again
TermInterrupted ==
    /\ term = "waiting" /\ restarts < MaxRestarts
    /\ term' = "idle" /\ restarts' = restarts + 1
    /\ UNCHANGED <<own, mail, pipes, sockets, terminating, reaper, closed, failed>>

\* the reaper is done: the context is deleted, its threads with it
TermDone ==
    /\ term = "waiting" /\ mail["term"] # << >>
    /\ term' = "deleted"
    /\ mail' = [mail EXCEPT !["term"] = Tail(@)]
    /\ failed' = (failed \/ sockets # {})
    /\ UNCHANGED <<own, pipes, sockets, terminating, restarts, reaper, closed>>
-----------------------------------------------------------------------------
Application ==
    \/ \E s \in Sockets : CreateSocket(s) \/ Bind(s) \/ Connect(s) \/ Close(s)
    \/ \E s \in Sockets, c \in Objects : own[s].kind = "socket" /\ TermEndpoint(s, c)
    \/ Shutdown \/ TermCall \/ TermInterrupted

Network ==
    \/ \E o \in Objects, t \in IoThreads : Accept(o, t)
    \/ \E o \in Objects : Connected(o)
    \/ \E o \in Objects, t \in IoThreads, e \in {"connection", "protocol"} : EngineError(o, e, t)

Slots == Sockets \cup IoThreads
Library ==
    \/ ReaperCommand \/ TermDone
    \/ \E s \in Sockets : CheckDestroy(s)
    \/ \E slot \in Slots, t \in IoThreads : ProcessCommand(slot, t)
    \/ \E o \in Objects, e \in {1, 2} : PipeGone(o, e)

Next == Application \/ Network \/ Library

Spec == Init /\ [][Next]_vars
-----------------------------------------------------------------------------
\* No assertion of own_t, session_base_t or ctx_t fails and no command reaches an object
\* that is deleted, whatever is accepted, connected or broken while the owners
\* terminate: the counts of commands and acknowledgements keep each object alive.
NoUseAfterDelete == ~failed

\* When zmq_ctx_term returns, everything the context owned is deleted and no command is
\* left in the mailbox of a thread that it joins.
NothingOutlivesContext ==
    term = "deleted" =>
      /\ \A o \in DOMAIN own : own[o].kind \in {"unborn", "deleted"}
      /\ \A slot \in DOMAIN mail : mail[slot] = << >>
      /\ \A o \in Objects : pipes[o].ends = {}

\* The threads of the library have nothing left to do by themselves: the guards of the
\* disjuncts of Library.
Quiet ==
    /\ mail["reaper"] = << >> /\ (term = "waiting" => mail["term"] = << >>)
    /\ \A slot \in Slots : mail[slot] = << >> \/ (slot \in Sockets /\ ~Runs(slot))
    /\ \A s \in sockets : ~(own[s].reaping /\ own[s].destroyed)
    /\ \A c \in Objects : pipes[c].asked # {} => pipes[c].ends = {}

\* zmq_ctx_term never waits for nothing: once every socket is closed and the threads
\* come to rest, it has returned or was interrupted.  (Each step of Library uses up a
\* command or a pipe, so they do come to rest.)
TermReturns == Quiet /\ sockets \subseteq closed => term # "waiting"
=============================================================================
