---------------------------------- MODULE Pipe ----------------------------------
(***************************************************************************)
(* A pair of pipe_t objects, the two ends of a pipe between two threads.   *)
(* Each direction is a ypipe (what FlushQueue promises); everything else   *)
(* the ends know of each other they learn from commands, which arrive in   *)
(* the order they were sent.                                               *)
(***************************************************************************)
EXTENDS Integers, Sequences, SequencesExt, FiniteSets

CONSTANTS
    Scenarios,      \* the high-water marks of the outbound pipes (0 is none), the ends whose
                    \* user has called set_nodelay (delay is FALSE) and what the user of
                    \* each end does: whether it reads, the frames it writes, and bounds on
                    \* the messages it writes and on its hiccups
    max_wm_delta,
    Lingers         \* the values of terminate's argument

Ends == {1, 2}      \* 1 belongs to a socket, 2 to a session
Peer(e) == 3 - e
Frames == {"part", "last", "identity", "credential"}

ASSUME PipeAssumption ==
    /\ max_wm_delta \in Nat /\ Lingers \subseteq BOOLEAN
    /\ \A s \in Scenarios :
          /\ s.hwm \in [Ends -> Nat] /\ s.delay \in [Ends -> BOOLEAN]
          /\ s.user \in [Ends -> [frames : SUBSET Frames, written : Nat, hiccups : Nat,
                                  reads : BOOLEAN]]

VARIABLES
    pipe,           \* the two pipe_t objects
    queue,          \* the ypipes, by address
    freed,          \* the ypipes that were deleted
    mailbox,        \* the commands on their way to each end
    terminating,    \* the ends within terminate, before the delimiter is written
    failed          \* an assertion failed

vars == <<pipe, queue, freed, mailbox, terminating, failed>>

Null == 0
Empty == [flushed |-> << >>, pending |-> << >>, partial |-> << >>, asleep |-> FALSE]

compute_lwm(hwm) ==
    IF hwm > max_wm_delta * 2 THEN hwm - max_wm_delta ELSE (hwm + 1) \div 2

\* pipepair, and the set_nodelay of a PUB or PUSH socket (xattach_pipe) or of a session for
\* its ZAP pipe, before any command comes to the end
Init ==
    /\ pipe \in {[e \in Ends |->
          [inpipe |-> Peer(e), outpipe |-> e, in_active |-> TRUE, out_active |-> TRUE,
           hwm |-> s.hwm[e], lwm |-> compute_lwm(s.hwm[Peer(e)]),
           msgs_read |-> 0, msgs_written |-> 0, peers_msgs_read |-> 0,
           state |-> "active", delay |-> s.delay[e], user |-> s.user[e]]] : s \in Scenarios}
    /\ queue = <<Empty, Empty>> /\ freed = {}
    /\ mailbox = [e \in Ends |-> << >>]
    /\ terminating = {} /\ failed = FALSE
-----------------------------------------------------------------------------
Alive(e) == pipe[e].state # "deleted"
Runs(e) == Alive(e) /\ e \notin terminating /\ ~failed
Readable(p) == p.in_active /\ p.state \in {"active", "waiting_for_delimiter"}
In(e) == queue[pipe[e].inpipe]
Out(e) == queue[pipe[e].outpipe]

Deliver(boxes, e, cmd) == [boxes EXCEPT ![e] = Append(@, cmd)]
Cmd(type, arg) == [type |-> type, arg |-> arg]

\* ypipe_t::write, flush and unwrite
Written(q, f) ==
    IF f = "part" THEN [q EXCEPT !.partial = Append(@, f)]
    ELSE [q EXCEPT !.pending = @ \o Append(q.partial, f), !.partial = << >>]
Flushed(q) ==
    IF q.pending = << >> THEN q
    ELSE [q EXCEPT !.flushed = @ \o q.pending, !.pending = << >>, !.asleep = FALSE]
RolledBack(q) == [q EXCEPT !.partial = << >>]

\* pipe_t::flush: activate_read to a peer whose reader is asleep
FlushTo(e, q, boxes) ==
    /\ queue' = [queue EXCEPT ![pipe[e].outpipe] = Flushed(q)]
    /\ mailbox' = IF q.asleep /\ q.pending # << >>
                  THEN Deliver(boxes, Peer(e), Cmd("activate_read", 0)) ELSE boxes

\* the last step of a termination the peer asked for
Acked(p) == [p EXCEPT !.state = "term_ack_sent", !.outpipe = Null]

\* process_delimiter
Delimited(e, p, boxes) ==
    IF p.state = "active"
      THEN pipe' = [pipe EXCEPT ![e] = [p EXCEPT !.state = "delimiter_received"]] /\ mailbox' = boxes
      ELSE /\ pipe' = [pipe EXCEPT ![e] = Acked(p)]
           /\ mailbox' = Deliver(boxes, Peer(e), Cmd("pipe_term_ack", 0))
-----------------------------------------------------------------------------
\* pipe_t::read when nothing is there, and check_read
ReadNothing(e) ==
    /\ Runs(e) /\ Readable(pipe[e]) /\ In(e).flushed = << >>
    /\ queue' = [queue EXCEPT ![pipe[e].inpipe].asleep = TRUE]
    /\ pipe' = [pipe EXCEPT ![e].in_active = FALSE]
    /\ UNCHANGED <<freed, mailbox, terminating, failed>>

\* pipe_t::read of a frame.  A credential is kept and the next frame read.
\* Mutant: the writer is told only when the low-water mark is passed exactly once.
ReadTellsOnce(e) ==
    /\ Runs(e) /\ Readable(pipe[e]) /\ In(e).flushed # << >>
    /\ queue' = [queue EXCEPT ![pipe[e].inpipe].flushed = Tail(@)]
    /\ LET f    == Head(In(e).flushed)
           p    == pipe[e]
           read == IF f = "last" THEN p.msgs_read + 1 ELSE p.msgs_read
       IN  \/ f = "credential" /\ UNCHANGED <<pipe, mailbox>>
           \/ f = "delimiter" /\ Delimited(e, p, mailbox)
           \/ /\ f \in {"part", "last", "identity"}
              /\ pipe' = [pipe EXCEPT ![e].msgs_read = read]
              /\ mailbox' = IF p.lwm > 0 /\ read = p.lwm
                            THEN Deliver(mailbox, Peer(e), Cmd("activate_write", read)) ELSE mailbox
    /\ UNCHANGED <<freed, terminating, failed>>

Read(e) ==
    /\ Runs(e) /\ Readable(pipe[e]) /\ In(e).flushed # << >>
    /\ queue' = [queue EXCEPT ![pipe[e].inpipe].flushed = Tail(@)]
    /\ LET f    == Head(In(e).flushed)
           p    == pipe[e]
           read == IF f = "last" THEN p.msgs_read + 1 ELSE p.msgs_read
       IN  \/ f = "credential" /\ UNCHANGED <<pipe, mailbox>>
           \/ f = "delimiter" /\ Delimited(e, p, mailbox)
           \/ /\ f \in {"part", "last", "identity"}
              /\ pipe' = [pipe EXCEPT ![e].msgs_read = read]
              /\ mailbox' = IF p.lwm > 0 /\ read % p.lwm = 0
                            THEN Deliver(mailbox, Peer(e), Cmd("activate_write", read)) ELSE mailbox
    /\ UNCHANGED <<freed, terminating, failed>>

Full(p) == p.hwm > 0 /\ p.msgs_written - p.peers_msgs_read = p.hwm

\* pipe_t::write, refused at the high-water mark
WriteRefused(e) ==
    /\ Runs(e) /\ pipe[e].out_active /\ pipe[e].state = "active" /\ Full(pipe[e])
    /\ pipe' = [pipe EXCEPT ![e].out_active = FALSE]
    /\ UNCHANGED <<queue, freed, mailbox, terminating, failed>>

Write(e, f) ==
    /\ Runs(e) /\ pipe[e].out_active /\ pipe[e].state = "active" /\ ~Full(pipe[e])
    /\ pipe[e].msgs_written < pipe[e].user.written /\ Len(Out(e).partial) < 1
    /\ f = "identity" => Out(e) = Empty /\ mailbox[e] = << >>
    /\ f \in {"identity", "credential"} => pipe[e].msgs_written = 0 /\ Out(e).partial = << >>
    /\ queue' = [queue EXCEPT ![pipe[e].outpipe] = Written(@, f)]
    /\ pipe' = [pipe EXCEPT ![e].msgs_written = IF f \in {"last", "credential"} THEN @ + 1 ELSE @]
    /\ UNCHANGED <<freed, mailbox, terminating, failed>>

Rollback(e) ==
    /\ Runs(e) /\ pipe[e].outpipe # Null /\ Out(e).partial # << >>
    /\ queue' = [queue EXCEPT ![pipe[e].outpipe] = RolledBack(@)]
    /\ UNCHANGED <<pipe, freed, mailbox, terminating, failed>>

Flush(e) ==
    /\ Runs(e) /\ pipe[e].state # "term_ack_sent" /\ pipe[e].outpipe # Null
    /\ Out(e).pending # << >>
    /\ FlushTo(e, Out(e), mailbox)
    /\ UNCHANGED <<pipe, freed, terminating, failed>>

\* pipe_t::hiccup, called by the session
Hiccup ==
    /\ Runs(2) /\ pipe[2].state = "active" /\ Len(queue) < 2 + pipe[2].user.hiccups
    /\ queue' = Append(queue, Empty)
    /\ pipe' = [pipe EXCEPT ![2].inpipe = Len(queue'), ![2].in_active = TRUE]
    /\ mailbox' = Deliver(mailbox, 1, Cmd("hiccup", Len(queue')))
    /\ UNCHANGED <<freed, terminating, failed>>

\* pipe_t::terminate, up to the command to the peer.  A call after the end has asked or
\* answered only sets delay, which nothing looks at any more.
Terminate(e, delay) ==
    /\ Runs(e) /\ pipe[e].state \in {"active", "delimiter_received", "waiting_for_delimiter"}
    /\ pipe[e].state = "waiting_for_delimiter" 
         => ~delay \/ "delimiter" \notin ToSet(Out(e).flushed)
    /\ LET p == [pipe[e] EXCEPT !.delay = delay, !.out_active = FALSE]
       IN  IF p.state # "waiting_for_delimiter"
             THEN /\ pipe' = [pipe EXCEPT ![e] = [p EXCEPT !.state = "term_req_sent1"]]
                  /\ mailbox' = Deliver(mailbox, Peer(e), Cmd("pipe_term", 0))
                  /\ terminating' = terminating \cup {e}
             ELSE IF delay
             THEN /\ pipe' = [pipe EXCEPT ![e] = p]
                  /\ terminating' = terminating \cup {e} /\ UNCHANGED mailbox
             ELSE /\ pipe' = [pipe EXCEPT ![e] = Acked(p)]
                  /\ mailbox' = Deliver(mailbox, Peer(e), Cmd("pipe_term_ack", 0))
                  /\ UNCHANGED terminating
    /\ UNCHANGED <<queue, freed, failed>>

\* the rest of terminate: the unfinished message is dropped, the delimiter written
\* Mutant: the unfinished message is left in the pipe.
WriteDelimiterAfterPart(e) ==
    /\ e \in terminating /\ ~failed
    /\ FlushTo(e, Written(Out(e), "delimiter"), mailbox)
    /\ terminating' = terminating \ {e}
    /\ UNCHANGED <<pipe, freed, failed>>

WriteDelimiter(e) ==
    /\ e \in terminating /\ ~failed
    /\ FlushTo(e, Written(RolledBack(Out(e)), "delimiter"), mailbox)
    /\ terminating' = terminating \ {e}
    /\ UNCHANGED <<pipe, freed, failed>>
-----------------------------------------------------------------------------
process_activate_read(e, p, rest) ==
    /\ pipe' = [pipe EXCEPT ![e].in_active = @ \/ p.state \in {"active", "waiting_for_delimiter"}]
    /\ mailbox' = rest
    /\ UNCHANGED <<queue, freed, failed>>

process_activate_write(e, p, msgs_read, rest) ==
    /\ pipe' = [pipe EXCEPT ![e].peers_msgs_read = msgs_read,
                            ![e].out_active = @ \/ p.state = "active"]
    /\ mailbox' = rest
    /\ UNCHANGED <<queue, freed, failed>>

\* The old outpipe is emptied and deleted, the new one plugged in.
process_hiccup(e, p, new, rest) ==
    LET old  == Flushed(queue[p.outpipe]).flushed
        left == {i \in DOMAIN old : old[i] # "part"}
    IN  /\ failed' = (p.outpipe = Null)
        /\ freed' = freed \cup {p.outpipe}
        /\ pipe' = [pipe EXCEPT ![e].outpipe = new, ![e].out_active = TRUE,
                                ![e].msgs_written = @ - Cardinality(left)]
        /\ queue' = [queue EXCEPT ![p.outpipe] = Empty]
        /\ mailbox' = rest

\* Mutant: an end whose termination crossed the peer's keeps its outpipe.
process_pipe_term_keeps(e, p, rest) ==
    /\ failed' = (p.state \notin {"active", "delimiter_received", "term_req_sent1"})
    /\ \/ /\ p.state = "active" /\ p.delay
          /\ pipe' = [pipe EXCEPT ![e].state = "waiting_for_delimiter"]
          /\ mailbox' = rest
       \/ /\ p.state = "delimiter_received" \/ (p.state = "active" /\ ~p.delay)
          /\ pipe' = [pipe EXCEPT ![e] = Acked(p)]
          /\ mailbox' = Deliver(rest, Peer(e), Cmd("pipe_term_ack", 0))
       \/ /\ p.state = "term_req_sent1"
          /\ pipe' = [pipe EXCEPT ![e].state = "term_req_sent2"]
          /\ mailbox' = Deliver(rest, Peer(e), Cmd("pipe_term_ack", 0))
       \/ failed' /\ UNCHANGED pipe /\ mailbox' = rest
    /\ UNCHANGED <<queue, freed>>

\* Mutant: an end waits for the delimiter although its user does not.
process_pipe_term_waits(e, p, rest) ==
    /\ failed' = (p.state \notin {"active", "delimiter_received", "term_req_sent1"})
    /\ \/ /\ p.state = "active"
          /\ pipe' = [pipe EXCEPT ![e].state = "waiting_for_delimiter"]
          /\ mailbox' = rest
       \/ /\ p.state = "delimiter_received"
          /\ pipe' = [pipe EXCEPT ![e] = Acked(p)]
          /\ mailbox' = Deliver(rest, Peer(e), Cmd("pipe_term_ack", 0))
       \/ /\ p.state = "term_req_sent1"
          /\ pipe' = [pipe EXCEPT ![e].state = "term_req_sent2", ![e].outpipe = Null]
          /\ mailbox' = Deliver(rest, Peer(e), Cmd("pipe_term_ack", 0))
       \/ failed' /\ UNCHANGED pipe /\ mailbox' = rest
    /\ UNCHANGED <<queue, freed>>

process_pipe_term(e, p, rest) ==
    /\ failed' = (p.state \notin {"active", "delimiter_received", "term_req_sent1"})
    /\ \/ /\ p.state = "active" /\ p.delay
          /\ pipe' = [pipe EXCEPT ![e].state = "waiting_for_delimiter"]
          /\ mailbox' = rest
       \/ /\ p.state = "delimiter_received" \/ (p.state = "active" /\ ~p.delay)
          /\ pipe' = [pipe EXCEPT ![e] = Acked(p)]
          /\ mailbox' = Deliver(rest, Peer(e), Cmd("pipe_term_ack", 0))
       \/ /\ p.state = "term_req_sent1"
          /\ pipe' = [pipe EXCEPT ![e].state = "term_req_sent2", ![e].outpipe = Null]
          /\ mailbox' = Deliver(rest, Peer(e), Cmd("pipe_term_ack", 0))
       \/ failed' /\ UNCHANGED pipe /\ mailbox' = rest
    /\ UNCHANGED <<queue, freed>>

\* The end is deleted with its inpipe.
process_pipe_term_ack(e, p, rest) ==
    /\ failed' = (p.state \notin {"term_ack_sent", "term_req_sent1", "term_req_sent2"}
                    \/ p.inpipe \in freed)
    /\ mailbox' = IF p.state = "term_req_sent1"
                  THEN Deliver(rest, Peer(e), Cmd("pipe_term_ack", 0)) ELSE rest
    /\ pipe' = [pipe EXCEPT ![e].state = "deleted", ![e].outpipe = Null, ![e].inpipe = Null]
    /\ queue' = [queue EXCEPT ![p.inpipe] = Empty]
    /\ freed' = freed \cup {p.inpipe}

\* object_t::process_command, for a pipe
ProcessCommand(e) ==
    /\ Runs(e) /\ mailbox[e] # << >>
    /\ LET cmd  == Head(mailbox[e])
           rest == [mailbox EXCEPT ![e] = Tail(@)]
           p    == pipe[e]
       IN  \/ cmd.type = "activate_read" /\ process_activate_read(e, p, rest)
           \/ cmd.type = "activate_write" /\ process_activate_write(e, p, cmd.arg, rest)
           \/ cmd.type = "hiccup" /\ process_hiccup(e, p, cmd.arg, rest)
           \/ cmd.type = "pipe_term" /\ process_pipe_term(e, p, rest)
           \/ cmd.type = "pipe_term_ack" /\ process_pipe_term_ack(e, p, rest)
    /\ UNCHANGED terminating
-----------------------------------------------------------------------------
\* the linger period of a session that waits for what is pending ends
LingerExpires ==
    FALSE \in Lingers /\ pipe[2].state = "waiting_for_delimiter" /\ Terminate(2, FALSE)

\* a PUSH socket never reads
Reads(e) == pipe[e].user.reads /\ (ReadNothing(e) \/ Read(e))

Next ==
    \/ \E e \in Ends :
          \/ Reads(e) \/ WriteRefused(e) \/ Rollback(e) \/ Flush(e)
          \/ WriteDelimiter(e) \/ ProcessCommand(e)
          \/ \E f \in pipe[e].user.frames : Write(e, f)
          \/ \E delay \in Lingers : Terminate(e, delay)
    \/ Hiccup

\* Both threads process their commands, finish a call they are in, flush what they have
\* written and read what they can: a socket's user reads, except PUSH's, and so does an
\* engine.  A finite linger period ends.
Spec ==
    /\ Init /\ [][Next]_vars
    /\ \A e \in Ends :
          /\ WF_vars(ProcessCommand(e)) /\ WF_vars(WriteDelimiter(e))
          /\ WF_vars(Reads(e)) /\ WF_vars(Flush(e))
    /\ WF_vars(LingerExpires)
-----------------------------------------------------------------------------
\* The handshake of the two terminations, however they cross: no assertion fails (the
\* states in which pipe_term, its acknowledgement and a hiccup may arrive), no command
\* is on its way to an end that was deleted, no ypipe in use was deleted, and when both
\* ends are gone no ypipe is left.
TerminationSafe ==
    /\ ~failed
    /\ \A e \in Ends :
          /\ ~Alive(e) => mailbox[e] = << >> /\ e \notin terminating
          /\ {pipe[e].inpipe, pipe[e].outpipe} \cap freed = {}
    /\ (\A e \in Ends : ~Alive(e)) => freed = DOMAIN queue

\* An end with delay has read all that is pending when it lets go of the pipe; at any end
\* the last message is complete and nothing follows the delimiter.
DrainedBeforeAck ==
    \A e \in {e \in Ends : Alive(e)} :
       /\ pipe[e].state \in {"delimiter_received", "term_ack_sent"} /\ pipe[e].delay
            => In(e).flushed = << >>
       /\ \A i \in DOMAIN In(e).flushed : In(e).flushed[i] = "delimiter" =>
             i = Len(In(e).flushed) /\ (i > 1 => In(e).flushed[i - 1] # "part")

\* Terminate deletes both ends, which is what the users of the pipe wait for: also when
\* the peer is a socket that never reads, and would never come to the delimiter.
Terminates == \A e \in Ends : pipe[e].state = "term_req_sent1" ~> ~Alive(1) /\ ~Alive(2)

\* A writer that was refused at the high-water mark writes again or is terminated.
WriterResumes ==
    \A e \in Ends : ~pipe[e].out_active ~> pipe[e].out_active \/ pipe[e].state # "active"
=============================================================================
