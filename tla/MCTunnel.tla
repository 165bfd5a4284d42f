------------------------------ MODULE MCTunnel -------------------------------
(***************************************************************************)
(* Small instances of Tunnel.  The members, the connections and the        *)
(* requests are interchangeable, so the runs that look for a violated      *)
(* safety property use symmetry; the run with liveness properties must not.*)
(***************************************************************************)
EXTENDS Tunnel, TLC

Symmetry == Permutations(Members) \union Permutations(Conns) \union Permutations(Requests)

==============================================================================
