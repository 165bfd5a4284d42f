---------------------------- MODULE MCClusterRow ------------------------------
(***************************************************************************)
(* Small instances of ClusterRow: two clusters that join under the name,   *)
(* one after the other.                                                    *)
(***************************************************************************)
EXTENDS ClusterRow

===============================================================================
