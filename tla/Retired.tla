--------------------------------- MODULE Retired ---------------------------------
(***************************************************************************)
(* retired_fd, which marks the entry of a descriptor that was removed, and *)
(* the erasure of the entries so marked from the vector of poll_t or       *)
(* select_t.                                                               *)
(***************************************************************************)
EXTENDS Integers, FiniteSets

RetiredFd == -1

\* the entries that stay, and the place of each among them
Staying(v) == {i \in DOMAIN v : v[i].fd # RetiredFd}
Place(v, i) == Cardinality({j \in Staying(v) : j <= i})

Erase(v) ==
    [n \in 1..Cardinality(Staying(v)) |-> v[CHOOSE i \in Staying(v) : Place(v, i) = n]]
=============================================================================
