---------------------------- MODULE MCEnrollment ------------------------------
(***************************************************************************)
(* Small instances of Enrollment: two names, so that a token of one can be *)
(* presented for the other, and one certificate, so that joins under both  *)
(* names clash.                                                            *)
(***************************************************************************)
EXTENDS Enrollment

===============================================================================
