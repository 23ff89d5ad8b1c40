---------------------------- MODULE MCInproc ----------------------------
(* Instances of Inproc for TLC: one socket binds and two connect. *)
EXTENDS Inproc
MCConnecting == {"s1", "s3"}
MCBinding == {"s2"}
MCSockets == MCConnecting \cup MCBinding
Router == [recv_identity |-> TRUE, probe_router |-> FALSE, sndhwm |-> 1, rcvhwm |-> 2]
Dealer == [recv_identity |-> FALSE, probe_router |-> FALSE, sndhwm |-> 0, rcvhwm |-> 1]
Probing == [recv_identity |-> FALSE, probe_router |-> TRUE, sndhwm |-> 2, rcvhwm |-> 0]
MCOptions == {Router, Dealer, Probing}

Unsent == \A c \in Connecting, e \in Ends : "message" \notin ToSet(conn[c].ends[e].in)
Alive == ~terminating /\ term = "idle"
\* One socket of the first connection is a ROUTER; where the other one probes, nothing but
\* the probe is sent and the context stays.
Met ==
    /\ Router \in {options["s1"], options["s2"]}
    /\ Probing \in {options["s1"], options["s2"]} => Unsent /\ Alive

\* The second connecter is there for a bind that finds two connections waiting: either it
\* leaves before anything happens, or no message is sent and the context stays, unless
\* ctx_t::terminate finds both connections waiting.
Leaves ==
    /\ ~conn["s3"].made /\ options["s3"] = options["s1"]
    /\ \/ sock["s3"].life = "deleted"
       \/ sock["s1"] = Born /\ sock["s2"] = Born /\ pc = [s \in All |-> "idle"]
          /\ endpoint = Null /\ Alive
Stays ==
    /\ \A s \in Sockets : options[s] = Router
    /\ \/ Alive
       \/ /\ \A s \in MCConnecting : conn[s].made /\ conn[s].side \in {Null, "bind_side"}
          /\ \A s \in MCSockets : sock[s].life = "open"
          /\ pc["s2"] = "idle" /\ endpoint # "s2" /\ sock["s2"].pipes = {}
    /\ conn["s3"].made => conn["s1"].made
    /\ ~conn["s3"].made => endpoint = Null
    /\ Unsent
Bounded == Met /\ (Leaves \/ Stays)
=============================================================================
