------------------------------- MODULE MCIoThread -------------------------------
(* Model-checking instance of IoThread: one object is plugged at a time,   *)
(* and the third number is used by one of them only, with devpoll, whose   *)
(* table it makes longer while an event of the second is delivered.        *)
EXTENDS IoThread
Bounded ==
    /\ Cardinality(Plugged) <= 1
    /\ \A o \in Objects : objects[o].fd = 2 => kind = "devpoll" /\ o = CHOOSE q \in Objects : TRUE
=============================================================================
