------------------------------ MODULE Stations ------------------------------
(***************************************************************************)
(* A tablet and the station it works (field-ops routes/index.tsx and       *)
(* stations.tsx): the station's page is opened and left, and the requests  *)
(* of a page that was left go on to the services. The stations share no    *)
(* state, so a tablet that changes stations adds nothing to them. Setting  *)
(* up has tabs of its own, and the page in each of them; the scanner,      *)
(* which the gate and the board put on their pages, is looked at by        *)
(* itself.                                                                 *)
(***************************************************************************)
EXTENDS Gate, WalkIn, Medical, Enrolment, Scanner

VARIABLES
  station,   \* the station this tablet works
  page       \* "stations", the list, or "station"

stationsVars == <<station, page, gateVars, walkInVars, medicalVars, enrolmentVars, scannerVars>>

StationsInit ==
  /\ station \in {"gate", "walk_in", "medical", "setup", "scanner"} /\ page = "stations"
  /\ GateInit /\ WalkInInit /\ MedicalInit /\ EnrolmentInit /\ ScannerInit
  /\ station # "setup" => kept = NoIdentity /\ ~day   \* a tablet's past is for setup

Open ==
  /\ station \notin {"setup", "scanner"} /\ page = "stations" /\ page' = "station"
  /\ UNCHANGED <<station, gateVars, walkInVars, medicalVars, enrolmentVars, scannerVars>>

Leave ==
  /\ page = "station" /\ page' = "stations" /\ UNCHANGED <<station, enrolmentVars, scannerVars>>
  /\ \/ station = "gate" /\ LeaveGate /\ UNCHANGED <<walkInVars, medicalVars>>
     \/ station = "walk_in" /\ LeaveDesk /\ UNCHANGED <<gateVars, medicalVars>>
     \/ station = "medical" /\ LeaveBoard /\ UNCHANGED <<gateVars, walkInVars>>

AtTheGate ==
  /\ station = "gate"
  /\ GateService \/ (page = "station" /\ GateOfficer)
  /\ UNCHANGED <<station, page, walkInVars, medicalVars, enrolmentVars, scannerVars>>

AtTheDesk ==
  /\ station = "walk_in"
  /\ DeskService \/ (page = "station" /\ DeskOfficer)
  /\ UNCHANGED <<station, page, gateVars, medicalVars, enrolmentVars, scannerVars>>

AtTheBoard ==
  /\ station = "medical"
  /\ MedicalService \/ (page = "station" /\ MedicalOfficer)
  /\ UNCHANGED <<station, page, gateVars, walkInVars, enrolmentVars, scannerVars>>

AtTheSetup ==
  /\ station = "setup" /\ EnrolmentNext
  /\ UNCHANGED <<station, page, gateVars, walkInVars, medicalVars, scannerVars>>

AtTheScanner ==
  /\ station = "scanner" /\ ScannerNext
  /\ UNCHANGED <<station, page, gateVars, walkInVars, medicalVars, enrolmentVars>>

StationsNext ==
  Open \/ Leave \/ AtTheGate \/ AtTheDesk \/ AtTheBoard \/ AtTheSetup \/ AtTheScanner

StationsSpec == StationsInit /\ [][StationsNext]_stationsVars
=============================================================================
