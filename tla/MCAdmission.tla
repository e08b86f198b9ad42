------------------------------ MODULE MCAdmission ------------------------------
(* Admission with a key of two addresses, of one /56, and one of one. *)
EXTENDS Admission, TLC

CONSTANTS a, b, x, y, z, proxy

MCNet == x :> a @@ y :> a @@ z :> b @@ proxy :> b
=============================================================================
