--------------------------------- MODULE Devpoll ---------------------------------
(***************************************************************************)
(* devpoll_t: a table by descriptor number.  A descriptor added during a   *)
(* pass of the loop is accepted only by the next one, so that an event for *)
(* an earlier owner of the number is not taken for its own.  The table is  *)
(* a vector that add_fd may have to make longer, which may move it, while  *)
(* the loop holds a pointer to the entry whose events it delivers.         *)
(***************************************************************************)
EXTENDS Naturals, FiniteSets

CONSTANT Fds

\* fd_table has size entries: a number beyond them is not valid.  dangling: the table may
\* have moved since the loop took its pointer.
New == [pending |-> {}, ev_buf |-> {}, size |-> 0, dangling |-> FALSE,
        fd_table |-> [fd \in Fds |-> [events |-> {}, sink |-> "none", valid |-> FALSE,
                                      accepted |-> FALSE]]]

Fresh(p, fd) == fd

AddFd(p, fd, sink) ==
    [p EXCEPT !.fd_table[fd] = [events |-> {}, sink |-> sink, valid |-> TRUE, accepted |-> FALSE],
              !.pending = @ \cup {fd},
              !.size = IF @ <= fd THEN fd + 1 ELSE @,
              !.dangling = @ \/ p.size <= fd]

RmFd(p, fd) == [p EXCEPT !.fd_table[fd].valid = FALSE]

SetPoll(p, fd, ev) == [p EXCEPT !.fd_table[fd].events = @ \cup {ev}]
ResetPoll(p, fd, ev) == [p EXCEPT !.fd_table[fd].events = @ \ {ev}]

Watched(p) ==
    UNION {{fd} \X (p.fd_table[fd].events \cup {"err"}) : fd \in {fd \in Fds : p.fd_table[fd].valid}}

LoopTop(p) ==
    [p EXCEPT !.pending = {},
              !.fd_table = [fd \in Fds |-> [p.fd_table[fd] EXCEPT !.accepted = @ \/ fd \in p.pending]]]

Waited(p, reported) == [p EXCEPT !.ev_buf = reported]

Todo(p, done) == {x[1] : x \in p.ev_buf} \ done
Skip(p, fd) == ~(p.fd_table[fd].valid /\ p.fd_table[fd].accepted)
Has(p, fd, ev) == <<fd, ev>> \in p.ev_buf
Sink(p, fd) == p.fd_table[fd].sink

\* fd_ptr = &fd_table [ev_buf [i].fd]
Point(p) == [p EXCEPT !.dangling = FALSE]
Dangles(p) == p.dangling

Cleanup(p) == [p EXCEPT !.ev_buf = {}]
=============================================================================
