---------------------------- MODULE MCWhiteList -----------------------------
(* An instance of WhiteList: versions of none to three blocks, all different, *)
(* as different contents of a file are.                                       *)
EXTENDS WhiteList

FourVersions == {"a", "b", "c", "empty"}
SixBlocks == {"a1", "a2", "b1", "b2", "b3", "c1"}
Contents == [a |-> <<"a1", "a2">>, b |-> <<"b1", "b2", "b3">>, c |-> <<"c1">>,
             empty |-> <<>>]
Sizes == [a |-> 2, b |-> 3, c |-> 1, empty |-> 0]
NotASize == {0, 9}
=============================================================================
