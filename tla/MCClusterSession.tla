-------------------------- MODULE MCClusterSession --------------------------
(***************************************************************************)
(* Instances of ClusterSession for TLC.                                    *)
(***************************************************************************)
EXTENDS ClusterSession, TLC

\* Two clusters to switch between, a list in the other order, and one that a
\* cluster has left.
MCLists == {<<"a", "b">>, <<"b", "a">>, <<"b">>}

\* The server also lists nothing.
MCListsEmpty == {<<"a", "b">>, <<>>}

Symmetry == Permutations(Loads)
=============================================================================
