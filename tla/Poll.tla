---------------------------------- MODULE Poll ----------------------------------
(***************************************************************************)
(* poll_t: the array of pollfd's and, for each descriptor, its place in    *)
(* the array.  The handle of a descriptor is the descriptor itself.        *)
(***************************************************************************)
EXTENDS Retired, Sequences, SequencesExt, FiniteSetsExt

CONSTANT Fds

New == [pollset |-> << >>, retired |-> FALSE,
        fd_table |-> [fd \in Fds |-> [index |-> RetiredFd, sink |-> "none"]]]

Fresh(p, fd) == fd

AddFd(p, fd, sink) ==
    [p EXCEPT !.pollset = Append(@, [fd |-> fd, events |-> {}, revents |-> {}]),
              !.fd_table[fd] = [index |-> Len(p.pollset) + 1, sink |-> sink]]

RmFd(p, fd) ==
    [p EXCEPT !.pollset[p.fd_table[fd].index].fd = RetiredFd,
              !.fd_table[fd].index = RetiredFd, !.retired = TRUE]

SetPoll(p, fd, ev) == [p EXCEPT !.pollset[p.fd_table[fd].index].events = @ \cup {ev}]
ResetPoll(p, fd, ev) == [p EXCEPT !.pollset[p.fd_table[fd].index].events = @ \ {ev}]

Watched(p) ==
    UNION {{e.fd} \X (e.events \cup {"err"}) : e \in {e \in ToSet(p.pollset) : e.fd # RetiredFd}}

LoopTop(p) == p

\* poll (): a retired descriptor is negative and has no events
Waited(p, reported) ==
    [p EXCEPT !.pollset = [i \in DOMAIN p.pollset |->
        [p.pollset[i] EXCEPT !.revents =
            {ev \in {"err", "out", "in"} : <<p.pollset[i].fd, ev>> \in reported}]]]

\* the loop over pollset, entries that its callbacks append included
Todo(p, done) ==
    LET left == DOMAIN p.pollset \ done IN IF left = {} THEN {} ELSE {Min(left)}
Skip(p, i) == p.pollset[i].fd = RetiredFd
Has(p, i, ev) == ev \in p.pollset[i].revents
Sink(p, i) == p.fd_table[p.pollset[i].fd].sink

\* Mutant: the places of the entries that move up are not recorded.
CleanupKeepsIndex(p) ==
    IF ~p.retired THEN p
    ELSE [p EXCEPT !.pollset = Erase(p.pollset), !.retired = FALSE]

Cleanup(p) ==
    IF ~p.retired THEN p ELSE
    LET left == Erase(p.pollset)
        At(fd) == CHOOSE i \in DOMAIN left : left[i].fd = fd
    IN  [p EXCEPT !.pollset = left, !.retired = FALSE,
                  !.fd_table = [fd \in Fds |-> IF \E i \in DOMAIN left : left[i].fd = fd
                                               THEN [p.fd_table[fd] EXCEPT !.index = At(fd)]
                                               ELSE p.fd_table[fd]]]
=============================================================================
