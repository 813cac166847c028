----------------------------- MODULE MCRollout -----------------------------
(***************************************************************************)
(* Every depends_on of three services with lists of up to two entries is   *)
(* ordered; two services are rolled out, alone and one after the other.    *)
(***************************************************************************)
EXTENDS Rollout

Three == <<"db", "jobs", "web">>
Entry == ToSet(Three) \cup {"gone"}
Lists == {<<>>} \cup {<<d>> : d \in Entry} \cup {<<d, e>> : d, e \in Entry}
Chain == [db |-> <<>>, web |-> <<"db">>]
OneChain == {Chain}
AllGraphs == [ToSet(Three) -> Lists] \cup OneChain

SomeSetups == [db |-> {s \in SetupType :
                          /\ s.kind = "statefulset" => s.replicas = 1
                          /\ s.image = "same" => s.old # "none"},
               jobs |-> {[kind |-> "deployment", replicas |-> 1, image |-> "good",
                          old |-> "none", health |-> TRUE]},
               web |-> {[kind |-> "deployment", replicas |-> 1, image |-> i,
                         old |-> "good", health |-> FALSE] : i \in {"good", "crashing"}}]
============================================================================
