------------------------------ MODULE MCSession -------------------------------
(***************************************************************************)
(* A small instance of Session: one user, who logs in, renews and logs out *)
(* in several requests at a time.  Users meet in no statement, so a second *)
(* one only multiplies the states; SessionProofs is about any number.      *)
(***************************************************************************)
EXTENDS Session

===============================================================================
