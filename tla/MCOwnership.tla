---------------------------- MODULE MCOwnership ----------------------------
(* Instances of Ownership for TLC: one socket, so that its objects have room. *)
EXTENDS Ownership, TLC

CONSTANTS io1, io2

MCSockets == {"s1"}
MCIoThreads == {io1, io2}
MCObjects == {"o1", "o2", "o3"}
\* an I/O thread is only a mailbox and the objects that run there
Symmetry == Permutations(MCIoThreads)
=============================================================================
