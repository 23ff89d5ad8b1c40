------------------------------ MODULE MCHandshake --------------------------------
EXTENDS Handshake, TLC

M(n) == Msg(FALSE, FALSE, [i \in 1..n |-> Unit(i % 3)])
Part(n) == Msg(TRUE, FALSE, [i \in 1..n |-> Unit(i % 3)])

Default == [version |-> "3.0", mechanism |-> "NULL", as_server |-> FALSE, type |-> "PAIR",
            identity |-> 0, recv_identity |-> FALSE, handler |-> "none", domain |-> "",
            prompt |-> FALSE, credentials |-> "good", principal |-> "good", cn |-> "cnA",
            key |-> "S", server_key |-> "S", msgs |-> << >>, maxmsgsize |-> -1, hwm |-> 1,
            gss |-> TRUE, encrypt |-> FALSE, whole |-> TRUE]
Pair(a, b) == [A |-> a @@ Default, B |-> b @@ [cn |-> "cnB"] @@ Default]

\* older protocols and raw connections; sizes around the largest that one byte holds
Framings ==
    {Pair([msgs |-> <<Part(3), M(4)>>, whole |-> FALSE], [msgs |-> <<M(0)>>]),
     Pair([msgs |-> <<Part(3), M(4)>>, type |-> "DEALER", recv_identity |-> TRUE],
          [version |-> "2.0", identity |-> 2, msgs |-> <<M(1)>>, type |-> "DEALER"]),
     Pair([msgs |-> <<Part(1), M(2)>>, recv_identity |-> TRUE],
          [version |-> "1.0", identity |-> 1, msgs |-> <<M(3)>>]),
     Pair([type |-> "XPUB", msgs |-> <<M(1)>>, recv_identity |-> TRUE],
          [version |-> "unversioned", type |-> "SUB", identity |-> 1, msgs |-> <<M(1), M(2)>>]),
     Pair([version |-> "raw", msgs |-> <<M(3), M(1)>>], [version |-> "raw", msgs |-> <<M(2)>>]),
     Pair([msgs |-> <<M(3), M(4)>>], [maxmsgsize |-> 3]),
     Pair([version |-> "1.0", msgs |-> <<M(1), M(4)>>], [maxmsgsize |-> 2]),
     Pair([domain |-> "d", handler |-> "200"], [version |-> "unversioned", msgs |-> <<M(1)>>]),
     Pair([mechanism |-> "PLAIN", as_server |-> TRUE], [version |-> "1.0", msgs |-> <<M(1)>>])}

Replies == {"200", "400", "40", "malformed", "incomplete"}
NullHandshakes ==
    {Pair([domain |-> "d", handler |-> h, prompt |-> p, msgs |-> <<M(1)>>],
          [msgs |-> <<M(2)>>]) : h \in Replies, p \in BOOLEAN}
    \cup {Pair([type |-> "PUSH", msgs |-> <<M(1)>>], [type |-> "PUSH"]),
          Pair([domain |-> "d", handler |-> "200", msgs |-> <<M(1)>>],
               [domain |-> "d", handler |-> "400", prompt |-> TRUE, msgs |-> <<M(2)>>])}

\* A client with its credentials and a server with its handler
Secure(mechanism, credentials, handler, prompt, encrypt, type) ==
    Pair([mechanism |-> mechanism, credentials |-> credentials, encrypt |-> encrypt,
          type |-> type, identity |-> 1, msgs |-> <<Part(1), M(1)>>],
         [mechanism |-> mechanism, as_server |-> TRUE, handler |-> handler, prompt |-> prompt,
          principal |-> credentials, encrypt |-> encrypt, type |-> "ROUTER",
          recv_identity |-> TRUE, msgs |-> <<M(2)>>])
SecureHandshakes ==
    {Secure(m, c, h, p, m = "GSSAPI" /\ p, "DEALER") :
       m \in {"PLAIN", "CURVE", "GSSAPI"}, c \in {"good", "bad"}, h \in {"none", "200"},
       p \in BOOLEAN}
    \cup {Secure(m, "good", h, p, FALSE, "DEALER") :
            m \in {"PLAIN", "CURVE", "GSSAPI"}, h \in {"40", "malformed"}, p \in BOOLEAN}
    \cup {Secure(m, "good", "200", FALSE, FALSE, "PUB") : m \in {"PLAIN", "CURVE", "GSSAPI"}}

\* Ends that do not agree
Mismatches ==
    {Pair([mechanism |-> "PLAIN", msgs |-> <<M(1)>>], [msgs |-> <<M(2)>>]),
     Pair([mechanism |-> "PLAIN", as_server |-> TRUE, msgs |-> <<M(1)>>],
          [mechanism |-> "PLAIN", as_server |-> TRUE]),
     Pair([mechanism |-> "CURVE", msgs |-> <<M(1)>>], [mechanism |-> "CURVE"]),
     Pair([mechanism |-> "CURVE", server_key |-> "T", msgs |-> <<M(1)>>],
          [mechanism |-> "CURVE", as_server |-> TRUE, msgs |-> <<M(2)>>]),
     Pair([mechanism |-> "GSSAPI", encrypt |-> TRUE, msgs |-> <<M(1)>>],
          [mechanism |-> "GSSAPI", as_server |-> TRUE, msgs |-> <<M(2)>>]),
     Pair([mechanism |-> "GSSAPI", msgs |-> <<M(1)>>],
          [mechanism |-> "GSSAPI", as_server |-> TRUE, gss |-> FALSE, msgs |-> <<M(2)>>])}

AllScenarios == Framings \cup NullHandshakes \cup SecureHandshakes \cup Mismatches
==================================================================================
