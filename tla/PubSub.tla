--------------------------------- MODULE PubSub ---------------------------------
(***************************************************************************)
(* An XPUB or PUB socket and its XSUB or SUB peers.  Subscriptions travel  *)
(* up the pipes and messages down.  A connection may break and be made     *)
(* again: the publisher then gets a new pipe while the old one ends, and   *)
(* the subscriber sends all its subscriptions again.                       *)
(***************************************************************************)
EXTENDS Dist, Trie, Functions, TLC

CONSTANTS
    Subs,           \* the subscribers
    Pipes,          \* the pipes at the publisher, one for each connection
    Owner,          \* the subscriber of a pipe
    Filters,       \* what is subscribed to
    Topics,         \* the first parts of messages
    Scenarios,      \* options of the sockets, and the bounds
    PubHwm, SubHwm, \* the messages that a pipe holds downwards and upwards
    MaxRefs         \* subscriptions to a prefix by one subscriber

ASSUME PubSubAssumption ==
    /\ Owner \in [Pipes -> Subs]
    /\ PubHwm \in Nat \ {0} /\ SubHwm \in Nat \ {0}

VARIABLES
    opt,        \* the scenario
    pub,        \* xpub_t: its tree, dist, the message under way and what its user will read
    pipe,       \* the pipes
    sub,        \* xsub_t, by subscriber
    msg,        \* the publisher's message under way
    asked,      \* by pipe: the prefixes that the publisher was asked for
    refs,       \* by subscriber: its subscriptions, counted
    seen,       \* the prefixes somebody asks for, as the user of XPUB was told
    last,       \* for the last first part sent: the pipes that must, may and do get it
    changes,    \* the subscriptions and unsubscriptions so far
    crash       \* the assertion that failed

vars == <<opt, pub, pipe, sub, msg, asked, refs, seen, last, changes, crash>>

\* the constructors; some subscribers may be connected, but have not subscribed
Connected == {Owner[p] : p \in opt.connected}
Init ==
    /\ opt \in Scenarios
    /\ pub = [trie |-> MtrieNode, pending |-> << >>, more |-> FALSE,
              dist |-> FoldLeft(DistAttach, NoDist, SetToSeq(opt.connected))]
    /\ pipe = [p \in Pipes |-> [state |-> IF p \in opt.connected THEN "active" ELSE "new", broken |-> FALSE, up |-> << >>, down |-> << >>,
                                partial |-> << >>, out_active |-> TRUE]]
    /\ sub = [s \in Subs |-> [trie |-> TrieNode, conn |-> IF s \in Connected THEN CHOOSE p \in opt.connected : Owner[p] = s ELSE None, inbox |-> << >>, more |-> FALSE,
                              has_message |-> FALSE, message |-> Delimiter]]
    /\ msg = [n |-> 0, topic |-> << >>, retry |-> FALSE, may |-> {}]
    /\ asked = [p \in Pipes |-> {}]
    /\ refs = [s \in Subs |-> [t \in Filters |-> 0]]
    /\ seen = {}
    /\ last = [must |-> {}, may |-> {}, got |-> {}]
    /\ changes = 0
    /\ crash = "none"

\* bounds on the subscriptions and unsubscriptions, and on the messages
MaxChanges == opt.max_changes
MaxMessages == opt.max_messages

Running == crash = "none"
Subscription(on, t) == [on |-> on, prefix |-> t]
-----------------------------------------------------------------------------
\* xsub_t::send_subscription and dist_t::send_to_all: what does not fit is dropped
WriteUp(x, m) == IF Len(x.up) < SubHwm THEN [x EXCEPT !.up = Append(@, m)] ELSE x

\* xsub_t::xattach_pipe and xsub_t::xhiccuped: all subscriptions are sent again
\* Mutant: after a reconnection they are not.
ResubscribeOnce(p) ==
    IF \E q \in Pipes \ {p} : Owner[q] = Owner[p] /\ pipe[q].state # "new" THEN pipe[p]
    ELSE FoldLeft(LAMBDA x, t : WriteUp(x, Subscription(TRUE, t)), pipe[p],
                  Apply(sub[Owner[p]].trie, << >>))
Resubscribe(p) ==
    FoldLeft(LAMBDA x, t : WriteUp(x, Subscription(TRUE, t)), pipe[p],
             Apply(sub[Owner[p]].trie, << >>))

Connect(p) ==
    /\ Running
    /\ pipe[p].state = "new" /\ sub[Owner[p]].conn = None
    /\ pipe' = [pipe EXCEPT ![p] = [Resubscribe(p) EXCEPT !.state = "connected"]]
    /\ sub' = [sub EXCEPT ![Owner[p]].conn = p]
    /\ UNCHANGED <<opt, pub, msg, asked, refs, seen, last, changes, crash>>

\* xpub_t::xattach_pipe
Accept(p) ==
    /\ Running
    /\ pipe[p].state = "connected"
    /\ pipe' = [pipe EXCEPT ![p].state = "active"]
    /\ pub' = [pub EXCEPT !.dist = DistAttach(@, p)]
    /\ UNCHANGED <<opt, sub, msg, asked, refs, seen, last, changes, crash>>

\* the connection is lost, with what is on its way; whole messages that came are still read
Reading(s) == sub[s].more \/ (sub[s].has_message /\ sub[s].message.more)
Break(s, k, m) ==
    LET p == sub[s].conn
        d == pipe[p].down
    IN  /\ Running
        /\ p # None /\ s \in opt.breaks
        /\ k \in 0..Len(pipe[p].up)
        /\ m = 0 \/ (m \in 1..Len(d) /\ ~d[m].more)
        /\ (Reading(s) /\ sub[s].inbox = << >>) => m > 0
        /\ pipe' = [pipe EXCEPT ![p].broken = TRUE, ![p].up = SubSeq(@, 1, k)]
        /\ sub' = [sub EXCEPT ![s].conn = None, ![s].inbox = @ \o SubSeq(d, 1, m)]
        /\ UNCHANGED <<opt, pub, msg, asked, refs, seen, last, changes, crash>>

\* pipe_t::process_pipe_term at the publisher; a PUB socket reads no more
PubTerm(p) ==
    /\ Running
    /\ pipe[p].broken /\ pipe[p].state = "active"
    /\ pipe' = [pipe EXCEPT ![p].state = IF opt.type = "pub" THEN "closing" ELSE "waiting",
                            ![p].partial = << >>]
    /\ UNCHANGED <<opt, pub, sub, msg, asked, refs, seen, last, changes, crash>>

\* xpub_t::send_unsubscription
Unsubscriptions(prefixes) ==
    IF opt.type = "pub" THEN << >>
    ELSE [i \in DOMAIN prefixes |-> Subscription(FALSE, prefixes[i])]

\* xpub_t::xpipe_terminated
\* Mutant: the user is not told of the prefixes that nobody asks for any more.
xpipe_terminated_silent(p) ==
    pub' = [pub EXCEPT !.trie = MRmPipe(pub.trie, p, << >>).node, !.dist = DistTerminated(@, p)]
xpipe_terminated(p) ==
    LET r == MRmPipe(pub.trie, p, << >>)
    IN  pub' = [pub EXCEPT !.trie = r.node, !.dist = DistTerminated(@, p),
                           !.pending = @ \o Unsubscriptions(r.gone)]

PubGone(p) ==
    /\ Running
    /\ pipe[p].state = "closing" \/ (pipe[p].state = "waiting" /\ pipe[p].up = << >>)
    /\ xpipe_terminated(p)
    /\ pipe' = [pipe EXCEPT ![p].state = "gone", ![p].up = << >>, ![p].down = << >>]
    /\ asked' = [asked EXCEPT ![p] = {}]
    /\ UNCHANGED <<opt, sub, msg, refs, seen, last, changes, crash>>
-----------------------------------------------------------------------------
\* sub_t::xsetsockopt and xsub_t::xsend
Up(s, m) ==
    IF sub[s].conn = None THEN pipe ELSE [pipe EXCEPT ![sub[s].conn] = WriteUp(@, m)]

Subscribe(s, t) ==
    /\ Running
    /\ t \in opt.wants[s] /\ changes < MaxChanges /\ refs[s][t] < MaxRefs
    /\ sub' = [sub EXCEPT ![s].trie = Add(@, t)]
    /\ pipe' = Up(s, Subscription(TRUE, t))
    /\ refs' = [refs EXCEPT ![s][t] = @ + 1]
    /\ changes' = changes + 1
    /\ UNCHANGED <<opt, pub, msg, asked, seen, last, crash>>

Unsubscribe(s, t) ==
    /\ Running
    /\ t \in opt.wants[s] /\ changes < MaxChanges
    /\ LET r == Rm(sub[s].trie, t)
       IN  /\ sub' = [sub EXCEPT ![s].trie = r.node]
           /\ pipe' = IF r.last THEN Up(s, Subscription(FALSE, t)) ELSE pipe
    /\ refs' = [refs EXCEPT ![s][t] = IF @ = 0 THEN 0 ELSE @ - 1]
    /\ changes' = IF refs[s][t] = 0 THEN changes ELSE changes + 1
    /\ UNCHANGED <<opt, pub, msg, asked, seen, last, crash>>

\* xpub_t::xread_activated, one turn of its loop
PubRead(p) ==
    /\ Running
    /\ pipe[p].state \in {"active", "waiting"} /\ pipe[p].up # << >>
    /\ LET m == Head(pipe[p].up)
           r == IF m.on THEN MAdd(pub.trie, m.prefix, p) @@ [ok |-> TRUE]
                ELSE MRm(pub.trie, m.prefix, p)
           tell == opt.type = "xpub" /\ (r.unique \/ (m.on /\ opt.verbose))
       IN  /\ pub' = [pub EXCEPT !.trie = r.node, !.pending = IF tell THEN Append(@, m) ELSE @]
           /\ asked' = [asked EXCEPT ![p] = IF m.on THEN @ \cup {m.prefix} ELSE @ \ {m.prefix}]
           /\ crash' = IF r.ok THEN crash ELSE "erased"
    /\ pipe' = [pipe EXCEPT ![p].up = Tail(@)]
    /\ UNCHANGED <<opt, sub, msg, refs, seen, last, changes>>

\* xpub_t::xrecv
Told(s, m) == IF m.on THEN s \cup {m.prefix} ELSE s \ {m.prefix}
PubRecv ==
    /\ Running
    /\ pub.pending # << >>
    /\ seen' = Told(seen, Head(pub.pending))
    /\ pub' = [pub EXCEPT !.pending = Tail(@)]
    /\ UNCHANGED <<opt, pipe, sub, msg, asked, refs, last, changes, crash>>
-----------------------------------------------------------------------------
Whole(d) == Len(SelectSeq(d, LAMBDA x : ~x.more))
Full(p) == Whole(pipe[p].down) >= PubHwm
Refuses(p) == pipe[p].state # "active" \/ ~pipe[p].out_active \/ Full(p)

\* pipe_t::write and flush at the publisher
WriteDown(x, part) ==
    IF part.more THEN [x EXCEPT !.partial = Append(@, part)]
    ELSE [x EXCEPT !.down = @ \o Append(x.partial, part), !.partial = << >>]

Asking(topic) == {p \in Pipes : \E t \in asked[p] : IsPrefix(t, topic)}

\* xpub_t::xsend; without lossy nothing is sent while a matching pipe is full
xsend(part) ==
    LET d == IF pub.more THEN pub.dist
             ELSE FoldLeft(DistMatch, pub.dist, SetToSeq(Match(pub.trie, part.topic)))
        refused == {p \in Matching(d) : Refuses(p)}
        e == SentToMatching(Distribute(d, refused), part.more)
    IN  IF ~opt.lossy /\ \E p \in Matching(d) : Full(p)
          THEN [rc |-> "again", dist |-> d, pipe |-> pipe, more |-> pub.more]
          ELSE [rc |-> "ok", more |-> part.more,
                dist |-> IF part.more THEN e ELSE [e EXCEPT !.matching = 0],
                pipe |-> [p \in Pipes |->
                            IF p \in refused THEN [pipe[p] EXCEPT !.out_active = FALSE]
                            ELSE IF p \in Matching(d) THEN WriteDown(pipe[p], part) ELSE pipe[p]]]

\* A message has one or two parts; the user tries again what was refused.
Publish(topic, more) ==
    /\ Running
    /\ pub.more \/ msg.retry \/ msg.n < MaxMessages
    /\ topic \in opt.topics
    /\ pub.more => ~more /\ topic = msg.topic
    /\ msg.retry => topic = msg.topic
    /\ LET n    == IF pub.more \/ msg.retry THEN msg.n ELSE msg.n + 1
           part == [topic |-> topic, more |-> more, n |-> n, i |-> IF pub.more THEN 2 ELSE 1]
           r    == xsend(part)
           may  == Asking(topic) \cup (IF msg.retry THEN msg.may ELSE {})
       IN  /\ pub' = [pub EXCEPT !.dist = r.dist, !.more = r.more]
           /\ pipe' = r.pipe
           /\ msg' = [n |-> n, topic |-> topic, retry |-> r.rc # "ok" /\ ~pub.more, may |-> may]
           /\ last' = IF r.rc # "ok" \/ pub.more THEN last
                      ELSE [must |-> {p \in Asking(topic) : ~Refuses(p)}, may |-> may,
                            got |-> {p \in Pipes : r.pipe[p].partial # pipe[p].partial
                                                    \/ r.pipe[p].down # pipe[p].down}]
    /\ UNCHANGED <<opt, sub, asked, refs, seen, changes, crash>>

\* xpub_t::xwrite_activated, when the peer has read
Drain(p) ==
    /\ Running
    /\ pipe[p].state = "active" /\ ~pipe[p].out_active /\ ~Full(p)
    /\ pipe' = [pipe EXCEPT ![p].out_active = TRUE]
    /\ pub' = [pub EXCEPT !.dist = DistActivated(@, p)]
    /\ UNCHANGED <<opt, sub, msg, asked, refs, seen, last, changes, crash>>
-----------------------------------------------------------------------------
\* The messages that a subscriber can read, and the ones that it passes over: the first
\* part decides, and the parts that follow go with it.
Readable(s) == sub[s].inbox \o (IF sub[s].conn = None THEN << >> ELSE pipe[sub[s].conn].down)
Wanted(s, part) == sub[s].more \/ ~opt.filter \/ part.i = 2 \/ Check(sub[s].trie, part.topic)
Skipped(s) ==
    LET q == Readable(s)
        Starts(i) == q[i].i = 1
        good == {i \in DOMAIN q : IF sub[s].more THEN i = 1 ELSE Starts(i) /\ Wanted(s, q[i])}
    IN  IF good = {} THEN Len(q) ELSE Min(good) - 1

Consume(s, n) ==
    LET b == Len(sub[s].inbox)
        c == sub[s].conn
    IN  IF n <= b THEN [inbox |-> SubSeq(sub[s].inbox, n + 1, b), pipe |-> pipe]
        ELSE [inbox |-> << >>, pipe |-> [pipe EXCEPT ![c].down = SubSeq(@, n - b + 1, Len(@))]]

\* xsub_t::xrecv
SubRecv(s) ==
    LET q == Readable(s)
        k == Skipped(s)
        found == k < Len(q)
        r == Consume(s, IF found THEN k + 1 ELSE k)
    IN  /\ Running
        /\ IF sub[s].has_message
             THEN /\ sub' = [sub EXCEPT ![s].has_message = FALSE, ![s].message = Delimiter,
                                        ![s].more = sub[s].message.more]
                  /\ pipe' = pipe
             ELSE /\ q # << >>
                  /\ sub' = [sub EXCEPT ![s].inbox = r.inbox,
                                        ![s].more = IF found THEN q[k + 1].more ELSE @]
                  /\ pipe' = r.pipe
        /\ UNCHANGED <<opt, pub, msg, asked, refs, seen, last, changes, crash>>

\* xsub_t::xhas_in, which fetches the message
SubPoll(s) ==
    LET q == Readable(s)
        k == Skipped(s)
        found == k < Len(q)
        r == Consume(s, IF found THEN k + 1 ELSE k)
    IN  /\ Running
        /\ ~sub[s].more /\ ~sub[s].has_message /\ q # << >>
        /\ sub' = [sub EXCEPT ![s].inbox = r.inbox, ![s].has_message = found,
                              ![s].message = IF found THEN q[k + 1] ELSE @]
        /\ pipe' = r.pipe
        /\ UNCHANGED <<opt, pub, msg, asked, refs, seen, last, changes, crash>>

Next ==
    \/ \E p \in Pipes : \/ Connect(p) \/ Accept(p) \/ PubTerm(p) \/ PubGone(p) \/ PubRead(p)
                        \/ Drain(p)
    \/ \E s \in Subs : \/ \E k \in 0..SubHwm, m \in 0..(2 * PubHwm) : Break(s, k, m)
                       \/ \E t \in Filters : Subscribe(s, t) \/ Unsubscribe(s, t)
                       \/ SubRecv(s) \/ SubPoll(s)
    \/ PubRecv
    \/ \E t \in Topics, more \in BOOLEAN : Publish(t, more)

Spec == Init /\ [][Next]_vars
-----------------------------------------------------------------------------
\* The trees contain what was asked for, in whatever order prefixes were added and removed, by
\* one or by a pipe that goes with all of its prefixes; and they are pruned and compacted.
TreesAgree == Running =>
    /\ Content(pub.trie, << >>, {}) =
          {<<t, {p \in Pipes : t \in asked[p]}>> : t \in UNION Range(asked)}
    /\ Sound(pub.trie, {})
    /\ \A s \in Subs : /\ Content(sub[s].trie, << >>, 0) =
                             {<<t, refs[s][t]>> : t \in {u \in Filters : refs[s][u] > 0}}
                       /\ Sound(sub[s].trie, 0)

\* Subscriptions are not lost: what the publisher has been asked for on a connection, after
\* what is still on the way, is what the subscriber wants, also after reconnections.
Arriving(p) == FoldLeft(Told, asked[p], pipe[p].up)
SubscriptionsArrive == Running =>
    \A s \in Subs : sub[s].conn # None =>
        Arriving(sub[s].conn) = {t \in Filters : refs[s][t] > 0}

\* The user of XPUB (a forwarder, for one) can tell from what it reads which prefixes somebody
\* asks for, although connections go with all of theirs and others ask for the same.
UserIsTold == (Running /\ opt.type = "xpub") =>
    FoldLeft(Told, seen, pub.pending) = UNION Range(asked)

\* A message goes to every connection that asked for it and has room, and to no other; all of
\* its parts or none, whoever comes, goes, wakes up or changes its mind in the middle.
DeliveredWhole ==
    /\ last.must \subseteq last.got /\ last.got \subseteq last.may
    /\ \A p \in {q \in Pipes : ~pipe[q].broken} :
          LET d == pipe[p].down \o pipe[p].partial
          IN  \A i \in 1..Len(d) :
                 d[i].i = 2 => IF i = 1 THEN Reading(Owner[p])
                               ELSE d[i - 1].n = d[i].n /\ d[i - 1].more

\* "If we reached the SNDHWM, and thus cannot send the subscription, drop the subscription
\* message instead" (xsub.cpp): the publisher goes on.
NoAbort == crash = "none"
=============================================================================
