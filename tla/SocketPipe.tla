------------------------------- MODULE SocketPipe -------------------------------
(***************************************************************************)
(* A pipe as the socket at one of its ends sees it, and the two lists that *)
(* sockets keep of their pipes: fq_t reads from them in turn, lb_t writes  *)
(* to them in turn.  An operator works on a record r: the pipes, the lists *)
(* fq and lb, what the call returned (rc, msg and from) and whether an     *)
(* assertion failed.  A message part has a field more.                     *)
(***************************************************************************)
EXTENDS Integers, Sequences, SequencesExt, FiniteSets

None == "none"
NoId == <<"none", 0>>
Delimiter == [flavour |-> "delimiter", more |-> FALSE]

\* state: "waiting" for the delimiter, "delimited" when it came first, "closing" when
\* nothing more is read or written, "gone" when the socket was told
NewPipe(hwm) == [state |-> "active", in |-> << >>, in_active |-> TRUE, out_active |-> TRUE,
                 room |-> hwm, partial |-> << >>, delivered |-> << >>, nodelay |-> FALSE,
                 identity |-> NoId]

Fail(r, what) == IF r.crash = "none" THEN [r EXCEPT !.crash = what] ELSE r
Returns(r, rc) == [r EXCEPT !.rc = rc]
\* the rest of a function that gives up when a call fails
AndThen(r, Op(_)) == IF r.rc = "ok" THEN Op(r) ELSE r

\* process_delimiter
Delimited(p) == [p EXCEPT !.in = Tail(@),
                          !.state = IF @ = "active" THEN "delimited" ELSE "closing"]

\* pipe_t::check_read: nothing to read makes the pipe passive
CheckRead(p) ==
    IF ~p.in_active \/ p.state \notin {"active", "waiting"} THEN p
    ELSE IF p.in = << >> THEN [p EXCEPT !.in_active = FALSE]
    ELSE IF Head(p.in) = Delimiter THEN Delimited(p) ELSE p
CanRead(p) == p.in_active /\ p.state \in {"active", "waiting"}
              /\ p.in # << >> /\ Head(p.in) # Delimiter

\* pipe_t::check_write: no room makes the pipe passive
CanWrite(p) == p.out_active /\ p.state = "active" /\ p.room > 0
CheckWrite(p) ==
    IF p.out_active /\ p.state = "active" /\ p.room = 0 THEN [p EXCEPT !.out_active = FALSE] ELSE p

\* pipe_t::write and flush, of a pipe that can be written to
WritePart(p, part) ==
    IF part.more THEN [p EXCEPT !.partial = Append(@, part)]
    ELSE [p EXCEPT !.delivered = @ \o Append(p.partial, part), !.partial = << >>, !.room = @ - 1]

\* pipe_t::terminate rolls back what is unfinished; the peer confirms.  With delay, a pipe
\* whose peer left already is read to its end first.
Terminated(p, delay) ==
    [p EXCEPT !.partial = << >>, !.out_active = IF p.state = "gone" THEN @ ELSE FALSE,
              !.state = IF @ = "gone" \/ (@ = "waiting" /\ delay) THEN @ ELSE "closing"]

\* pipe_t::process_pipe_term, the peer's request: what it sent is read first
PeerTerminated(p) ==
    [p EXCEPT !.state = CASE @ = "active" /\ ~p.nodelay -> "waiting"
                          [] @ \in {"active", "delimited"} -> "closing"
                          [] OTHER -> @]

\* array_t::swap; positions count from 0
Swap(s, i, j) == [s EXCEPT ![i + 1] = s[j + 1], ![j + 1] = s[i + 1]]
Index(s, p) == (CHOOSE i \in 1..Len(s) : s[i] = p) - 1
\* array_t::erase puts the last item in the place of the one erased
Erase(s, p) == Front(Swap(s, Index(s, p), Len(s) - 1))

NoList == [pipes |-> << >>, active |-> 0, current |-> 0, more |-> FALSE, dropping |-> FALSE]
Actives(q) == {q.pipes[i] : i \in 1..q.active}

Attached(q, p) ==
    LET s == Append(q.pipes, p)
    IN  [q EXCEPT !.pipes = Swap(s, q.active, Len(s) - 1), !.active = @ + 1]
Activated(q, p) == [q EXCEPT !.pipes = Swap(@, Index(@, p), q.active), !.active = @ + 1]

\* the current pipe gives its place to the last active one
Deactivated(q) ==
    LET n == q.active - 1
    IN  [q EXCEPT !.pipes = Swap(@, q.current, n), !.active = n,
                  !.current = IF @ = n THEN 0 ELSE @]

\* pipe_terminated, common to both lists
Removed(q, p) ==
    LET i == Index(q.pipes, p)
        n == q.active - 1
    IN  IF i < q.active
          THEN [q EXCEPT !.pipes = Erase(Swap(@, i, n), p), !.active = n,
                         !.current = IF @ = n THEN 0 ELSE @]
          ELSE [q EXCEPT !.pipes = Erase(@, p)]

\* lb_t::pipe_terminated: the rest of a message under way is dropped
\* Mutant: the rest goes to another pipe.
LbTerminatedGoesOn(q, p) ==
    LET x == Removed(q, p)
    IN  IF Index(q.pipes, p) = q.current /\ q.more THEN [x EXCEPT !.more = FALSE] ELSE x
LbTerminated(q, p) ==
    LET x == Removed(q, p)
    IN  IF Index(q.pipes, p) = q.current /\ q.more THEN [x EXCEPT !.dropping = TRUE] ELSE x

Current(q) == q.pipes[q.current + 1]
\* Mutant: the same pipe is read as long as it has messages.
RotatedNot(q) == q
Rotated(q) == [q EXCEPT !.current = (@ + 1) % q.active]

\* a loop of at most n turns
Loop(Turn(_), r, n) == LET f[i \in 0..n] == IF i = 0 THEN r ELSE Turn(f[i - 1]) IN f[n]
-----------------------------------------------------------------------------
\* The loop of fq_t::recvpipe: one turn, which reads a part or makes a pipe passive
TryRead(r) ==
    LET p == Current(r.fq)
        x == r.pipes[p]
        part == Head(x.in)
        q == [r.fq EXCEPT !.more = part.more]
    IN  IF CanRead(x)
          THEN [r EXCEPT !.pipes[p].in = Tail(@), !.rc = "ok", !.msg = part, !.from = p,
                         !.fq = IF part.more THEN q ELSE Rotated(q)]
          ELSE [(IF r.fq.more THEN Fail(r, "fq") ELSE r) EXCEPT
                  !.pipes[p] = CheckRead(x), !.fq = Deactivated(r.fq)]

recvpipe(r) ==
    Loop(LAMBDA t : IF t.rc = "ok" \/ t.fq.active = 0 THEN t ELSE TryRead(t),
         Returns(r, "again"), r.fq.active)

\* The loop of lb_t::sendpipe
TryWrite(r, part) ==
    LET p == Current(r.lb)
        x == r.pipes[p]
    IN  IF CanWrite(x)
          THEN [r EXCEPT !.pipes[p] = WritePart(x, part), !.rc = "ok", !.from = p,
                         !.lb = LET q == [r.lb EXCEPT !.more = part.more]
                                IN  IF part.more THEN q ELSE Rotated(q)]
          ELSE [(IF r.lb.more THEN Fail(r, "lb") ELSE r) EXCEPT
                  !.pipes[p] = CheckWrite(x), !.lb = Deactivated(r.lb)]

sendpipe(r, part) ==
    IF r.lb.dropping
      THEN [r EXCEPT !.lb.more = part.more, !.lb.dropping = part.more, !.rc = "ok", !.from = None]
      ELSE Loop(LAMBDA t : IF t.rc = "ok" \/ t.lb.active = 0 THEN t ELSE TryWrite(t, part),
                Returns(r, "again"), r.lb.active)
=============================================================================
