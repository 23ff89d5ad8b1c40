---------------------------------- MODULE Dist ----------------------------------
(***************************************************************************)
(* dist_t, the list of the pipes to which messages are distributed.  The   *)
(* pipes at the positions below matching get the message under way; those  *)
(* below active take part in it; those below eligible can be written to.   *)
(***************************************************************************)
EXTENDS SocketPipe

NoDist == [pipes |-> << >>, matching |-> 0, active |-> 0, eligible |-> 0, more |-> FALSE]
Matching(d) == {d.pipes[i] : i \in 1..d.matching}
Active(d) == {d.pipes[i] : i \in 1..d.active}
Eligible(d) == {d.pipes[i] : i \in 1..d.eligible}

\* attach: a pipe that comes in the middle of a message has no part in it
\* Mutant: it gets the rest of the message.
DistAttachAtOnce(d, p) ==
    LET s == Append(d.pipes, p)
    IN  [d EXCEPT !.pipes = Swap(s, d.matching, Len(s) - 1), !.matching = IF d.more THEN @ + 1 ELSE @,
                  !.active = @ + 1, !.eligible = @ + 1]
DistAttach(d, p) ==
    LET s == Append(d.pipes, p)
    IN  IF d.more THEN [d EXCEPT !.pipes = Swap(s, d.eligible, Len(s) - 1), !.eligible = @ + 1]
        ELSE [d EXCEPT !.pipes = Swap(s, d.active, Len(s) - 1), !.active = @ + 1, !.eligible = @ + 1]

DistMatch(d, p) ==
    LET i == Index(d.pipes, p)
    IN  IF i < d.matching \/ i >= d.eligible THEN d
        ELSE [d EXCEPT !.pipes = Swap(@, i, d.matching), !.matching = @ + 1]

\* pipe_terminated: the pipe leaves one section after the other
DistLeaves(d, p, section) ==
    LET i == Index(d.pipes, p)
    IN  IF i < d[section] THEN [d EXCEPT !.pipes = Swap(@, i, d[section] - 1), ![section] = @ - 1] ELSE d
DistTerminated(d, p) ==
    LET x == DistLeaves(DistLeaves(DistLeaves(d, p, "matching"), p, "active"), p, "eligible")
    IN  [x EXCEPT !.pipes = Erase(@, p)]

\* activated: the pipe has room again
DistActivated(d, p) ==
    LET x == [d EXCEPT !.pipes = Swap(@, Index(@, p), d.eligible), !.eligible = @ + 1]
    IN  IF d.more THEN x
        ELSE [x EXCEPT !.pipes = Swap(@, x.eligible - 1, d.active), !.active = @ + 1]

\* write fails: the pipe becomes passive
DistPassive(d, p) ==
    LET m == d.matching - 1
        a == d.active - 1
        e == d.eligible - 1
        s == Swap(Swap(d.pipes, Index(d.pipes, p), m), m, a)
    IN  [d EXCEPT !.pipes = Swap(s, a, e), !.matching = m, !.active = a, !.eligible = e]

\* distribute: the pipes that refuse the part become passive, the others get it
Distribute(d, refusing) ==
    LET First(t) == t.pipes[CHOOSE i \in 1..t.matching :
                              /\ t.pipes[i] \in refusing
                              /\ \A j \in 1..(i - 1) : t.pipes[j] \notin refusing]
    IN  Loop(LAMBDA t : IF Matching(t) \cap refusing = {} THEN t ELSE DistPassive(t, First(t)),
             d, Len(d.pipes))

\* send_to_matching; the last part lets all eligible pipes take part in the next message
SentToMatching(d, more) == [d EXCEPT !.active = IF more THEN @ ELSE d.eligible, !.more = more]
=============================================================================
