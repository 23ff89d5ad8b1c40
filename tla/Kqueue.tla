--------------------------------- MODULE Kqueue ---------------------------------
(***************************************************************************)
(* kqueue_t: an entry on the heap per descriptor, with a kernel filter for *)
(* each direction that is set; an event is about one filter.               *)
(***************************************************************************)
EXTENDS Retired, Functions

New == [pe |-> << >>, retired |-> {}, ev_buf |-> {}]

Fresh(p, fd) == CHOOSE h \in 1..(Cardinality(DOMAIN p.pe) + 1) : h \notin DOMAIN p.pe

AddFd(p, fd, sink) ==
    LET new == Fresh(p, fd)
    IN  [p EXCEPT !.pe = [h \in DOMAIN @ \cup {new} |->
            IF h = new THEN [fd |-> fd, flags |-> {}, sink |-> sink] ELSE @[h]]]

\* the filters that are set are deleted
RmFd(p, h) == [p EXCEPT !.pe[h].fd = RetiredFd, !.pe[h].flags = {}, !.retired = @ \cup {h}]

SetPoll(p, h, ev) == [p EXCEPT !.pe[h].flags = @ \cup {ev}]
ResetPoll(p, h, ev) == [p EXCEPT !.pe[h].flags = @ \ {ev}]

\* EV_EOF comes with the event of a filter
Watched(p) ==
    UNION {{p.pe[h].fd} \X (IF p.pe[h].flags = {} THEN {} ELSE p.pe[h].flags \cup {"err"}) :
             h \in DOMAIN p.pe \ p.retired}

LoopTop(p) == p

\* kevent (): one event per filter with, for a descriptor at its end, the flag EV_EOF
Waited(p, reported) ==
    LET Filters == UNION {{h} \X p.pe[h].flags : h \in DOMAIN p.pe}
        About(x) == reported \cap {<<p.pe[x[1]].fd, x[2]>>, <<p.pe[x[1]].fd, "err">>}
    IN  [p EXCEPT !.ev_buf = {[h |-> x[1], filter |-> x[2],
                               eof |-> <<p.pe[x[1]].fd, "err">> \in reported] :
                                x \in {x \in Filters : About(x) # {}}}]

Todo(p, done) == p.ev_buf \ done
Skip(p, e) == p.pe[e.h].fd = RetiredFd
Has(p, e, ev) == IF ev = "err" THEN e.eof ELSE e.filter = ev
Sink(p, e) == p.pe[e.h].sink

Cleanup(p) == [p EXCEPT !.pe = Restrict(@, DOMAIN @ \ p.retired), !.retired = {}, !.ev_buf = {}]
=============================================================================
