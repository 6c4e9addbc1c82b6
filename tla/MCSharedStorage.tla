-------------------------- MODULE MCSharedStorage --------------------------
(* SharedStorage with a key under one namespace and one under two.  The       *)
(* third callback calls SharedStorage itself.                                 *)
EXTENDS SharedStorage
CONSTANTS n1, n2, one, both, c1, c2, c3
MCMatches == {<<one, n1>>, <<both, n1>>, <<both, n2>>}
=============================================================================
