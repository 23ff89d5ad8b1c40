-------------------------------- MODULE MCPubSub --------------------------------
EXTENDS PubSub

CONSTANTS s1, s2, p1, p2, p3

TheOwner == [p \in Pipes |-> IF p = p2 THEN s2 ELSE s1]
TheFilters == {<< >>, <<1>>, <<2>>, <<4>>, <<2, 4>>}
TheTopics == {<<1>>, <<2, 4>>}
Wants(a, b) == (s1 :> a) @@ (s2 :> b)
Base == [type |-> "xpub", lossy |-> TRUE, verbose |-> FALSE, filter |-> TRUE, topics |-> TheTopics,
         max_changes |-> 3, max_messages |-> 0, breaks |-> {s1}, connected |-> {p1, p2}, wants |-> Wants({}, {})]
TheScenarios ==
    {[Base EXCEPT !.wants = Wants({<<1>>, <<2>>, <<4>>}, {<<2>>})],
     [Base EXCEPT !.wants = Wants({<<1>>, <<2>>, <<4>>}, {}), !.max_changes = 4, !.breaks = {}],
     [Base EXCEPT !.wants = Wants({<<2, 4>>, <<2>>}, {<< >>})],
     [Base EXCEPT !.type = "pub", !.wants = Wants({<<1>>}, {<<1>>}), !.topics = {<<1>>},
                  !.max_changes = 2, !.max_messages = 2],
     [Base EXCEPT !.lossy = FALSE, !.verbose = TRUE, !.filter = FALSE, !.breaks = {},
                  !.wants = Wants({<<1>>}, {<<2>>}), !.max_changes = 2, !.max_messages = 2]}
\* one message fits into the pipe upwards
TightScenarios ==
    {[Base EXCEPT !.wants = Wants({<<1>>, <<2>>}, {<<2>>}), !.max_changes = 4, !.breaks = {}]}
=============================================================================
