------------------------------- MODULE MCPatterns -------------------------------
EXTENDS Patterns

CONSTANTS p1, p2, p3

TwoPipes == {p1, p2}
Base == [kind |-> "none", probe |-> FALSE, raw |-> FALSE, handover |-> FALSE, mandatory |-> FALSE,
         strict |-> TRUE, correlate |-> FALSE, disconnects |-> FALSE, rid |-> FALSE,
         pipes |-> {p1, p2}, max_in |-> 2, max_out |-> 1, parts |-> 2]
Socket(k) == [Base EXCEPT !.kind = k]

AllScenarios ==
    {[Socket("dealer") EXCEPT !.max_in = 1, !.disconnects = TRUE],
     [Socket("push") EXCEPT !.max_out = 3, !.disconnects = TRUE],
     [Socket("pull") EXCEPT !.pipes = {p1, p2, p3}, !.max_in = 4, !.parts = 1],
     [Socket("pair") EXCEPT !.max_in = 1, !.disconnects = TRUE],
     [Socket("req") EXCEPT !.max_out = 2],
     [Socket("req") EXCEPT !.max_out = 2, !.strict = FALSE],
     [Socket("req") EXCEPT !.max_out = 2, !.strict = FALSE, !.correlate = TRUE],
     [Socket("rep") EXCEPT !.max_out = 2],
     [Socket("router") EXCEPT !.handover = TRUE, !.max_in = 1],
     [Socket("router") EXCEPT !.mandatory = TRUE, !.probe = TRUE, !.rid = TRUE, !.max_in = 0],
     [Socket("router") EXCEPT !.raw = TRUE, !.rid = TRUE, !.max_in = 1],
     [Socket("stream") EXCEPT !.max_in = 1]}
Symmetric == Permutations({p1, p2})
TheIdentities == {<<"id", 1>>}
ThePipes == {p1, p2, p3}
=============================================================================
