--------------------------------- MODULE Epoll ---------------------------------
(***************************************************************************)
(* epoll_t: an entry on the heap per descriptor, which epoll_wait returns. *)
(* A poller is a record; a method is an operator from poller to poller.    *)
(***************************************************************************)
EXTENDS Retired, Functions

New == [pe |-> << >>, retired |-> {}, ev_buf |-> << >>]

\* the handle add_fd returns: an address that is not in use
Fresh(p, fd) == CHOOSE h \in 1..(Cardinality(DOMAIN p.pe) + 1) : h \notin DOMAIN p.pe

AddFd(p, fd, sink) ==
    LET new == Fresh(p, fd)
    IN  [p EXCEPT !.pe = [h \in DOMAIN @ \cup {new} |->
            IF h = new THEN [fd |-> fd, events |-> {}, sink |-> sink] ELSE @[h]]]

RmFd(p, h) == [p EXCEPT !.pe[h].fd = RetiredFd, !.retired = @ \cup {h}]

SetPoll(p, h, ev) == [p EXCEPT !.pe[h].events = @ \cup {ev}]
ResetPoll(p, h, ev) == [p EXCEPT !.pe[h].events = @ \ {ev}]

\* what the kernel watches: errors always
Watched(p) ==
    UNION {{p.pe[h].fd} \X (p.pe[h].events \cup {"err"}) : h \in DOMAIN p.pe \ p.retired}

LoopTop(p) == p

\* epoll_wait: the events reported, by entry
Waited(p, reported) ==
    LET Of(h) == {ev \in {"err", "out", "in"} : <<p.pe[h].fd, ev>> \in reported}
    IN  [p EXCEPT !.ev_buf = [h \in {h \in DOMAIN p.pe : Of(h) # {}} |-> Of(h)]]

\* the loop over ev_buf, in the order of the kernel's choice
Todo(p, done) == DOMAIN p.ev_buf \ done
Skip(p, h) == p.pe[h].fd = RetiredFd
Has(p, h, ev) == ev \in p.ev_buf[h]
Sink(p, h) == p.pe[h].sink

\* retired entries are deleted
Cleanup(p) == [p EXCEPT !.pe = Restrict(@, DOMAIN @ \ p.retired), !.retired = {}, !.ev_buf = << >>]
=============================================================================
