---------------------------- MODULE MCTransport ----------------------------
(* Transport with the retries the code has.                                *)
EXTENDS Transport
=============================================================================
