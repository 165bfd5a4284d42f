----------------------------- MODULE MCMtlsAuth -------------------------------
(***************************************************************************)
(* A small instance of MtlsAuth: one replica, which shares nothing with    *)
(* the others but the database, and two clusters that join with the same   *)
(* certificate, one after the other's row is deleted.                      *)
(***************************************************************************)
EXTENDS MtlsAuth

===============================================================================
