--------------------------------- MODULE MCPipe ---------------------------------
EXTENDS Pipe

User(frames, written, hiccups) ==
    [frames |-> frames, written |-> written, hiccups |-> hiccups, reads |-> TRUE]
Silent == User({}, 0, 0)
Waits == <<TRUE, TRUE>>

\* A queue with a low-water mark above one; multipart messages, a hiccup and an answer;
\* what an engine writes at the start of a connection; PUSH, and PUB with subscriptions,
\* whose socket does not wait; a request and an answer of ZAP, whose session does not.
AllScenarios ==
    {[hwm |-> <<3, 1>>, delay |-> Waits, user |-> <<User({"last"}, 4, 0), Silent>>],
     [hwm |-> <<1, 1>>, delay |-> Waits,
      user |-> <<User({"part", "last"}, 2, 0), User({"last"}, 1, 1)>>],
     [hwm |-> <<1, 2>>, delay |-> Waits,
      user |-> <<Silent, User({"identity", "credential", "last"}, 3, 0)>>],
     [hwm |-> <<2, 1>>, delay |-> <<FALSE, TRUE>>,
      user |-> <<[User({"last"}, 3, 0) EXCEPT !.reads = FALSE], User({}, 0, 1)>>],
     [hwm |-> <<1, 1>>, delay |-> <<FALSE, TRUE>>,
      user |-> <<User({"part", "last"}, 1, 0), User({"last"}, 2, 1)>>],
     [hwm |-> <<0, 0>>, delay |-> <<TRUE, FALSE>>,
      user |-> <<User({"part", "last"}, 2, 0), User({"part", "last"}, 2, 0)>>]}
=============================================================================
