---------------------------- MODULE MCClusterLink -----------------------------
(***************************************************************************)
(* Small instances of ClusterLink: two clusters, so that sagas meet in     *)
(* opposite directions and under the same names.                           *)
(***************************************************************************)
EXTENDS ClusterLink, TLC

Symmetry == Permutations(Clusters) \union Permutations(Sagas)

===============================================================================
