---------------------------------- MODULE Trie ----------------------------------
(***************************************************************************)
(* The two prefix trees of the publish-subscribe sockets: trie_t counts    *)
(* the subscriptions of a subscriber, mtrie_t keeps for each prefix the    *)
(* pipes that asked for it.  A prefix is a sequence of characters, which   *)
(* are numbers.  A node has a window min .. min + count - 1 on the next    *)
(* character; next has the slots of the table that are not null.           *)
(***************************************************************************)
EXTENDS Integers, Sequences, SequencesExt, FiniteSets, FiniteSetsExt

\* the constructors; val is refcnt or pipes
Node(v) == [val |-> v, min |-> 0, count |-> 0, live |-> 0, next |-> << >>]
TrieNode == Node(0)
MtrieNode == Node({})

InWindow(n, c) == n.count # 0 /\ n.min <= c /\ c < n.min + n.count
Child(n, c) == n.next[c]
HasChild(n, c) == InWindow(n, c) /\ c \in DOMAIN n.next

\* is_redundant
Redundant(n) == n.val = 0 /\ n.live = 0
MRedundant(n) == n.val = {} /\ n.live = 0

\* the window grows so as to hold c
\* Mutant: a character below the window moves it instead of extending it.
ExtendMoves(n, c) ==
    IF InWindow(n, c) THEN n
    ELSE IF n.count = 0 THEN [n EXCEPT !.min = c, !.count = 1]
    ELSE IF n.min < c THEN [n EXCEPT !.count = c - n.min + 1]
    ELSE [n EXCEPT !.min = c]
Extend(n, c) ==
    IF InWindow(n, c) THEN n
    ELSE IF n.count = 0 THEN [n EXCEPT !.min = c, !.count = 1]
    ELSE IF n.min < c THEN [n EXCEPT !.count = c - n.min + 1]
    ELSE [n EXCEPT !.min = c, !.count = n.min + n.count - c]

Put(n, c, child) ==
    [n EXCEPT !.next = [d \in DOMAIN n.next \cup {c} |-> IF d = c THEN child ELSE n.next[d]],
              !.live = IF c \in DOMAIN n.next THEN @ ELSE @ + 1]
Drop(n, c) == [n EXCEPT !.next = [d \in DOMAIN n.next \ {c} |-> n.next[d]], !.live = @ - 1]

\* the window that is left when the slot of c was emptied
Window(n, lo, hi) == [n EXCEPT !.min = lo, !.count = hi - lo + 1]
HighEnd(n) == n.min + n.count - 1
\* trie_t::rm; with one live node left the pruned one was at an end of the table, and the
\* other end is taken without a look for it
Compact(n, c) ==
    LET d == DOMAIN n.next
    IN  IF n.count = 1 THEN [n EXCEPT !.count = 0]
        ELSE IF n.live = 1 THEN (IF c = n.min THEN Window(n, HighEnd(n), HighEnd(n)) ELSE Window(n, n.min, n.min))
        ELSE IF c = n.min THEN Window(n, Min(d), HighEnd(n))
        ELSE IF c = HighEnd(n) THEN Window(n, n.min, Max(d))
        ELSE n
\* mtrie_t::rm_helper of a prefix
MCompact(n, c) ==
    LET d == DOMAIN n.next
    IN  IF n.count = 1 THEN [n EXCEPT !.count = 0]
        ELSE IF n.live = 1 \/ c \in {n.min, HighEnd(n)} THEN Window(n, Min(d), Max(d))
        ELSE n
-----------------------------------------------------------------------------
\* trie_t::add
RECURSIVE Add(_, _)
Add(n, prefix) ==
    IF prefix = << >> THEN [n EXCEPT !.val = @ + 1]
    ELSE LET c == Head(prefix)
             m == Extend(n, c)
         IN  Put(m, c, Add(IF HasChild(m, c) THEN Child(m, c) ELSE TrieNode, Tail(prefix)))

\* trie_t::rm: the node, and whether that was the last subscription to the prefix
RECURSIVE Rm(_, _)
Rm(n, prefix) ==
    IF prefix = << >>
      THEN [node |-> [n EXCEPT !.val = IF @ = 0 THEN 0 ELSE @ - 1], last |-> n.val = 1]
    ELSE IF ~HasChild(n, Head(prefix)) THEN [node |-> n, last |-> FALSE]
    ELSE LET c == Head(prefix)
             r == Rm(Child(n, c), Tail(prefix))
         IN  [node |-> IF Redundant(r.node) THEN Compact(Drop(n, c), c) ELSE Put(n, c, r.node),
              last |-> r.last]

\* trie_t::check
RECURSIVE Check(_, _)
Check(n, data) ==
    \/ n.val > 0
    \/ data # << >> /\ HasChild(n, Head(data)) /\ Check(Child(n, Head(data)), Tail(data))

\* the children from left to right
Slots(n) == SetToSortSeq(DOMAIN n.next \cap n.min .. HighEnd(n), LAMBDA a, b : a < b)

\* trie_t::apply: the prefixes, in the order of the walk
RECURSIVE Apply(_, _)
Apply(n, prefix) ==
    (IF n.val > 0 THEN <<prefix>> ELSE << >>)
    \o FlattenSeq([i \in DOMAIN Slots(n) |-> Apply(Child(n, Slots(n)[i]), Append(prefix, Slots(n)[i]))])
-----------------------------------------------------------------------------
\* mtrie_t::add: the node, and whether nobody had asked for the prefix
RECURSIVE MAdd(_, _, _)
MAdd(n, prefix, p) ==
    IF prefix = << >> THEN [node |-> [n EXCEPT !.val = @ \cup {p}], unique |-> n.val = {}]
    ELSE LET c == Head(prefix)
             m == Extend(n, c)
             r == MAdd(IF HasChild(m, c) THEN Child(m, c) ELSE MtrieNode, Tail(prefix), p)
         IN  [node |-> Put(m, c, r.node), unique |-> r.unique]

\* mtrie_t::rm of a prefix: also whether the assertion that the pipe had asked for it holds
RECURSIVE MRm(_, _, _)
MRm(n, prefix, p) ==
    IF prefix = << >>
      THEN [node |-> [n EXCEPT !.val = @ \ {p}], unique |-> n.val \ {p} = {},
            ok |-> n.val = {} \/ p \in n.val]
    ELSE IF ~HasChild(n, Head(prefix)) THEN [node |-> n, unique |-> FALSE, ok |-> TRUE]
    ELSE LET c == Head(prefix)
             r == MRm(Child(n, c), Tail(prefix), p)
         IN  [r EXCEPT !.node = IF MRedundant(r.node) THEN MCompact(Drop(n, c), c)
                                ELSE Put(n, c, r.node)]

\* mtrie_t::rm of a pipe: the node, and the prefixes that nobody asks for any more
RECURSIVE MRmPipe(_, _, _)
MRmPipe(n, p, prefix) ==
    LET s    == Slots(n)
        subs == [i \in DOMAIN s |-> MRmPipe(Child(n, s[i]), p, Append(prefix, s[i]))]
        kept == {i \in DOMAIN s : ~MRedundant(subs[i].node)}
        m    == [n EXCEPT !.val = @ \ {p}, !.live = Cardinality(kept),
                          !.next = [c \in {s[i] : i \in kept} |->
                                      subs[CHOOSE i \in kept : s[i] = c].node]]
    IN  [node |-> IF kept = {} THEN [m EXCEPT !.count = 0]
                  ELSE Window(m, Min(DOMAIN m.next), Max(DOMAIN m.next)),
         gone |-> (IF n.val = {p} THEN <<prefix>> ELSE << >>)
                  \o FlattenSeq([i \in DOMAIN s |-> subs[i].gone])]

\* mtrie_t::match: the pipes of the nodes on the way
RECURSIVE Match(_, _)
Match(n, data) ==
    n.val \cup (IF data # << >> /\ HasChild(n, Head(data))
                  THEN Match(Child(n, Head(data)), Tail(data)) ELSE {})
-----------------------------------------------------------------------------
\* what a tree contains: prefix and value of each node that has one
RECURSIVE Content(_, _, _)
Content(n, prefix, nothing) ==
    (IF n.val = nothing THEN {} ELSE {<<prefix, n.val>>})
    \cup UNION {Content(Child(n, c), Append(prefix, c), nothing) : c \in DOMAIN n.next}

\* a node has as many children as it counts, within its window and at both ends of it, and
\* no child that is redundant
RECURSIVE Sound(_, _)
Sound(n, nothing) ==
    /\ n.live = Cardinality(DOMAIN n.next)
    /\ IF n.live = 0 THEN n.count = 0
       ELSE n.min = Min(DOMAIN n.next) /\ HighEnd(n) = Max(DOMAIN n.next)
    /\ \A c \in DOMAIN n.next :
          Sound(Child(n, c), nothing) /\ (Child(n, c).val # nothing \/ Child(n, c).live > 0)
=============================================================================
