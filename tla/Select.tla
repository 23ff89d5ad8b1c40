--------------------------------- MODULE Select ---------------------------------
(***************************************************************************)
(* select_t: the entries in a vector, the descriptors to watch in three    *)
(* sets, and the sets select () fills in, all by descriptor number.        *)
(***************************************************************************)
EXTENDS Retired, Sequences, SequencesExt, FiniteSetsExt

NoFds == [err |-> {}, out |-> {}, in |-> {}]

New == [fds |-> << >>, source |-> NoFds, ready |-> NoFds, maxfd |-> RetiredFd, retired |-> FALSE]

Fresh(p, fd) == fd

AddFd(p, fd, sink) ==
    [p EXCEPT !.fds = Append(@, [fd |-> fd, sink |-> sink]),
              !.source.err = p.source.err \cup {fd},
              !.maxfd = IF p.maxfd = RetiredFd \/ fd > p.maxfd THEN fd ELSE p.maxfd]

Cleared(sets, fd) == [ev \in DOMAIN sets |-> sets[ev] \ {fd}]

\* Mutant: the events already reported for the descriptor are not discarded.
RmFdKeepsEvents(p, fd) ==
    LET i    == CHOOSE i \in DOMAIN p.fds : p.fds[i].fd = fd
        left == {e.fd : e \in ToSet(p.fds)} \ {fd, RetiredFd}
    IN  [p EXCEPT !.fds[i].fd = RetiredFd, !.retired = TRUE,
                  !.source = Cleared(p.source, fd),
                  !.maxfd = IF fd # p.maxfd THEN p.maxfd
                            ELSE IF left = {} THEN RetiredFd ELSE Max(left)]

RmFd(p, fd) ==
    LET i    == CHOOSE i \in DOMAIN p.fds : p.fds[i].fd = fd
        left == {e.fd : e \in ToSet(p.fds)} \ {fd, RetiredFd}
    IN  [p EXCEPT !.fds[i].fd = RetiredFd, !.retired = TRUE,
                  !.source = Cleared(p.source, fd), !.ready = Cleared(p.ready, fd),
                  !.maxfd = IF fd # p.maxfd THEN p.maxfd
                            ELSE IF left = {} THEN RetiredFd ELSE Max(left)]

SetPoll(p, fd, ev) == [p EXCEPT !.source[ev] = @ \cup {fd}]
ResetPoll(p, fd, ev) == [p EXCEPT !.source[ev] = @ \ {fd}]

\* select () looks at the descriptors up to maxfd
Watched(p) ==
    UNION {{fd \in p.source[ev] : p.maxfd # RetiredFd /\ fd <= p.maxfd} \X {ev} :
             ev \in {"err", "out", "in"}}

LoopTop(p) == p

Waited(p, reported) ==
    [p EXCEPT !.ready = [ev \in DOMAIN p.ready |-> {x[1] : x \in {x \in reported : x[2] = ev}}]]

\* the loop over fds
Todo(p, done) ==
    LET left == DOMAIN p.fds \ done IN IF left = {} THEN {} ELSE {Min(left)}
Skip(p, i) == p.fds[i].fd = RetiredFd
Has(p, i, ev) == p.fds[i].fd \in p.ready[ev]
Sink(p, i) == p.fds[i].sink

Cleanup(p) ==
    IF ~p.retired THEN p
    ELSE [p EXCEPT !.fds = Erase(p.fds), !.retired = FALSE]
=============================================================================
