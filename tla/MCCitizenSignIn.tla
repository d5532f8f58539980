-------------------------- MODULE MCCitizenSignIn --------------------------
(* CitizenSignIn on small instances.                                       *)
EXTENDS CitizenSignIn
=============================================================================
