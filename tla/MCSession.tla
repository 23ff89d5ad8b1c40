-------------------------------- MODULE MCSession --------------------------------
EXTENDS Session, TLC

AllLingers == {-1, 0, 1}

Base == [active |-> TRUE, proto |-> "tcp", ivl |-> 1, ivl_max |-> 3, immediate |-> FALSE,
         sub |-> FALSE, pub |-> FALSE, raw |-> FALSE, recv_identity |-> FALSE,
         credential |-> FALSE, zap |-> FALSE, handshake_ivl |-> FALSE, greetings |-> {"3.0"},
         hwm |-> 2, out |-> 0, arrive |-> 0, conns |-> 1, close |-> TRUE, malformed |-> FALSE,
         stays |-> FALSE, slow |-> FALSE]

AllScenarios ==
    {\* sends across a reconnection, with partial writes
     [out |-> 2, conns |-> 2, slow |-> TRUE] @@ Base,
     \* receives across a reconnection, at the high-water mark
     [arrive |-> 3, conns |-> 2, hwm |-> 1] @@ Base,
     \* delayed connections; a peer that breaks the protocol
     [immediate |-> TRUE, conns |-> 2, malformed |-> TRUE, out |-> 1] @@ Base,
     \* subscriptions are sent again
     [sub |-> TRUE, proto |-> "tipc", arrive |-> 1, hwm |-> 1, out |-> 1, conns |-> 2] @@ Base,
     \* raw connections, made and accepted
     [raw |-> TRUE, arrive |-> 1, hwm |-> 1, out |-> 1, conns |-> 2] @@ Base,
     [active |-> FALSE, proto |-> "ipc", raw |-> TRUE, arrive |-> 2, hwm |-> 1, out |-> 1] @@ Base,
     \* a publisher whose peer does not forward subscriptions
     [active |-> FALSE, pub |-> TRUE, greetings |-> {"unversioned", "2.0"}, arrive |-> 2,
      hwm |-> 1, out |-> 1] @@ Base,
     \* identities are passed to the socket
     [recv_identity |-> TRUE, greetings |-> {"3.0", "2.0"}, arrive |-> 1, conns |-> 2] @@ Base,
     \* no reconnection; the handshake takes too long
     [proto |-> "ipc", ivl |-> -1, handshake_ivl |-> TRUE,
      greetings |-> {"3.0", "2.0", "other mechanism"}] @@ Base,
     \* through a SOCKS proxy
     [proto |-> "socks", out |-> 1, conns |-> 2] @@ Base,
     \* with a ZAP handler
     [zap |-> TRUE, conns |-> 2] @@ Base,
     [active |-> FALSE, proto |-> "tipc", zap |-> TRUE, credential |-> TRUE, malformed |-> TRUE,
      arrive |-> 1] @@ Base}

\* the network takes less than was offered, and the peer stays
SlowNetwork == {[out |-> 1, slow |-> TRUE, stays |-> TRUE] @@ Base}
==================================================================================
