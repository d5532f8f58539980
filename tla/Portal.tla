-------------------------------- MODULE Portal --------------------------------
(***************************************************************************)
(* The citizen's own pages of the applicant portal (apps/applicant-portal/ *)
(* src/app.tsx): the wizard, the documents panel, the certificate number   *)
(* and the exam pass. They share a session and a cache and no other state, *)
(* so one visit works one of them; the panel and the number read the same  *)
(* checklist, each its own part of it.                                     *)
(***************************************************************************)
EXTENDS Filing, Documents, Clearance, ExamPass

VARIABLE visit   \* the page this visit works

portalVars == <<visit, filingVars, documentsVars, clearanceVars, examPassVars>>

PortalInit ==
  /\ visit \in {"apply", "documents", "certificate", "pass"}
  /\ FilingInit /\ DocumentsInit /\ ClearanceInit /\ ExamPassInit
  /\ visit # "pass" => pass = "READY"

AtTheWizard ==
  /\ visit = "apply" /\ FilingNext
  /\ UNCHANGED <<visit, documentsVars, clearanceVars, examPassVars>>

AtTheDocuments ==
  /\ visit = "documents" /\ DocumentsNext
  /\ UNCHANGED <<visit, filingVars, clearanceVars, examPassVars>>

AtTheCertificate ==
  /\ visit = "certificate" /\ ClearanceNext
  /\ UNCHANGED <<visit, filingVars, documentsVars, examPassVars>>

AtThePass ==
  /\ visit = "pass" /\ ExamPassNext
  /\ UNCHANGED <<visit, filingVars, documentsVars, clearanceVars>>

PortalNext == AtTheWizard \/ AtTheDocuments \/ AtTheCertificate \/ AtThePass

PortalSpec == PortalInit /\ [][PortalNext]_portalVars
=============================================================================
