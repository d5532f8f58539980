--------------------------- MODULE MCSessionLife ---------------------------
(* SessionLife on small instances.                                         *)
EXTENDS SessionLife
=============================================================================
