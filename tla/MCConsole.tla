----------------------------- MODULE MCConsole ------------------------------
(* Console on a small instance: an officer of each post, two rows.         *)
EXTENDS Console
MCPosts == {{s} : s \in Step}
MCStarting == {<<"MEDICAL_REVIEW", "MEDICAL_REVIEW">>, <<"MEDICAL_REVIEW", "FINAL_SHORTLIST">>,
               <<"DOCUMENT_REVIEW_AMBER", "FINAL_SHORTLIST">>}
=============================================================================
