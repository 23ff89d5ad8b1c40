------------------------------- MODULE FlushQueue -------------------------------
(***************************************************************************)
(* What ypipe_base_t promises its two users.  The writer's items become    *)
(* visible to the reader in the order they were written, at a flush, and   *)
(* never while the message they belong to is incomplete.  A reader that    *)
(* finds nothing is asleep, and the flush that ends the sleep knows it.    *)
(***************************************************************************)
EXTENDS Sequences, SequencesExt

CONSTANT Items

VARIABLES
    flushed,    \* what the reader may read
    pending,    \* complete items that are not flushed
    partial,    \* the items of an incomplete message
    asleep,     \* the reader found nothing and waits to be woken
    got         \* the item read last

vars == <<flushed, pending, partial, asleep, got>>

Init == flushed = << >> /\ pending = << >> /\ partial = << >> /\ asleep = FALSE /\ got = << >>

Write(v, incomplete) ==
    /\ IF incomplete THEN partial' = Append(partial, v) /\ UNCHANGED pending
                     ELSE pending' = pending \o Append(partial, v) /\ partial' = << >>
    /\ UNCHANGED <<flushed, asleep, got>>

Unwrite ==
    /\ partial # << >>
    /\ partial' = Front(partial)
    /\ UNCHANGED <<flushed, pending, asleep, got>>

Flush ==
    /\ pending # << >>
    /\ flushed' = flushed \o pending /\ pending' = << >> /\ asleep' = FALSE
    /\ UNCHANGED <<partial, got>>

Read ==
    /\ flushed # << >>
    /\ got' = <<Head(flushed)>> /\ flushed' = Tail(flushed)
    /\ UNCHANGED <<pending, partial, asleep>>

Sleep ==
    /\ flushed = << >>
    /\ asleep' = TRUE
    /\ UNCHANGED <<flushed, pending, partial, got>>

Next ==
    \/ \E v \in Items, incomplete \in BOOLEAN : Write(v, incomplete)
    \/ Unwrite \/ Flush \/ Read \/ Sleep

Spec == Init /\ [][Next]_vars
=============================================================================
