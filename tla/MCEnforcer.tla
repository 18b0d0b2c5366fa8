----------------------------- MODULE MCEnforcer -----------------------------
(* Small instances of Enforcer for TLC. *)
EXTENDS Enforcer

\* Two flows that share a slot; the key of the first is what the registers start with.
TwoFlows == {1, 2}
OneFlow  == {1}
KeyOfTwo == [f \in TwoFlows |-> f - 1]
KeyOfOne == [f \in OneFlow |-> 7]
SameSlot == [f \in Flows |-> 1]

\* Short and long packets, as one-hot rows.
Rows    == { <<1, 0, 0, 0>>, <<0, 1, 0, 0>>, <<0, 0, 0, 1>> }

\* The inputs that are not negative as signed bytes.
NonNegative == 0..(Byte \div 2 - 1)
=============================================================================
