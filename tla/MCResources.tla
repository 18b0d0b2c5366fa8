----------------------------- MODULE MCResources ----------------------------
(* An instance of Resources: two links, two KNI devices and two ports to     *)
(* compete for, one name of every other kind.                                *)
EXTENDS Resources

Names == [k \in Kinds |-> CASE k \in {"link", "kni"} -> {"a", "b"}
                            [] OTHER -> {"x"}]

\* ifconfig down, an MTU at the limit and one above it.
Asked == {[what |-> "down", mtu |-> 0]} \cup [what : {"mtu"}, mtu : {EtherMaxLen, EtherMaxLen + 1}]
=============================================================================
