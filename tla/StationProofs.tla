---------------------------- MODULE StationProofs ----------------------------
(***************************************************************************)
(* Theorems about the stations, for any passes, people, venues and         *)
(* numbers of requests. Gate: its types, that a pass turns the screen      *)
(* green at most once, and that green is about the candidate at the gate.  *)
(* Medical and WalkIn: that a verdict called recorded and the banners of   *)
(* the desk are about the candidate they stand under. Enrolment: that a    *)
(* tablet that says it is ready is, and that its tabs share one key.       *)
(***************************************************************************)
EXTENDS Gate, Medical, WalkIn, Enrolment, Scanner, TLAPS

(* An admission on its way was made for the holder, is the only one of its *)
(* pass, and has not been shown.                                           *)
Spent ==
  /\ \A c \in gateCalls : c.answer = "ADMITTED" =>
       /\ admitted[c.pass] = "here" /\ greens[c.pass] = 0
       /\ HolderOf[c.pass] = c.person
  /\ \A c, d \in gateCalls :
       c.answer = "ADMITTED" /\ d.answer = "ADMITTED" /\ c.pass = d.pass => c = d

(* An officer who has not touched the form has on it what each answer due  *)
(* was asked for, and the pass of a green screen.                          *)
Steady == ~gateHurried =>
  /\ \A c \in gateCalls : c.heard => c.pass = gate.qr /\ c.person = gate.nid
  /\ gate.result.outcome = "ADMITTED" => gate.qr \in Pass

GInv == GateTypeOK /\ Spent /\ Steady /\ OneGreenPerPass /\ GreenIsThisCandidate

GateNext == GateOfficer \/ GateService \/ LeaveGate

-----------------------------------------------------------------------------
(* The page with its answer left unexpanded.                               *)
Result == [outcome : Outcome \cup {"none"}, pass : Pass \cup {None}]

LEMMA PageFields ==
  GatePage = [editing : BOOLEAN, qr : Pass \cup {None}, nid : Person \cup {None},
              result : Result, status : {"idle", "pending", "done", "failed"},
              latest : 0..MaxAdmissions]
  BY DEF GatePage, Result

LEMMA NoResultIs == NoResult \in Result /\ NoResult.outcome = "none"
  BY DEF NoResult, Result

LEMMA InitGInv == GateInit => GInv
<1> SUFFICES ASSUME GateInit PROVE GInv
  OBVIOUS
<1>1. gate \in GatePage /\ gate.result.outcome = "none"
  BY GateBound DEF GateInit, OpenGate, NoResult, GatePage
<1>2. GateTypeOK
  <2>1. admitted \in [Pass -> {"nowhere", "here", "elsewhere"}] /\ greens \in [Pass -> Nat]
    BY DEF GateInit
  <2>2. gateVenue \in Venue \cup {None} /\ gateCalls \subseteq Admission /\ admissions \in 0..MaxAdmissions
    BY GateBound DEF GateInit
  <2>3. gateHurried \in BOOLEAN
    BY Zenon DEF GateInit
  <2> QED
    BY <1>1, <2>1, <2>2, <2>3 DEF GateTypeOK
<1>3. OneGreenPerPass
  <2> SUFFICES ASSUME NEW p \in Pass
               PROVE  greens[p] <= IF admitted[p] = "here" THEN 1 ELSE 0
    BY Zenon DEF OneGreenPerPass
  <2>1. greens[p] = 0 /\ admitted[p] = "nowhere"
    BY DEF GateInit
  <2>2. admitted[p] # "here"
    BY <2>1
  <2> QED
    BY <2>1, <2>2
<1>4. Spent /\ Steady /\ GreenIsThisCandidate
  BY <1>1 DEF GateInit, Spent, Steady, GreenIsThisCandidate
<1> QED
  BY <1>2, <1>3, <1>4 DEF GInv

(* The officer at the form: no request, no pass and no answer changes.     *)
Edits ==
  /\ gate' \in GatePage /\ gateVenue' \in Venue \cup {None}
  /\ gateCalls' = gateCalls /\ admissions' = admissions /\ admitted' = admitted
  /\ greens' = greens /\ gateHurried' \in BOOLEAN
  /\ ~gateHurried' => \/ ~AnswerIsDue
                      \/ ~gateHurried /\ gate'.qr = gate.qr /\ gate'.nid = gate.nid
  /\ gate'.result.outcome = "ADMITTED" =>
       /\ gateHurried => gateHurried'
       /\ gate'.result = gate.result /\ gate'.qr = gate.qr /\ gate'.nid = gate.nid

LEMMA FormKeeps == ASSUME GInv, Edits PROVE GInv'
<1>1. GateTypeOK' /\ Spent' /\ OneGreenPerPass'
  BY DEF GInv, Edits, GateTypeOK, Spent, OneGreenPerPass
<1>2. Steady'
  BY DEF GInv, Edits, Steady, AnswerIsDue
<1>3. GreenIsThisCandidate'
  BY DEF GInv, Edits, GreenIsThisCandidate
<1> QED
  BY <1>1, <1>2, <1>3 DEF GInv

LEMMA OfficerKeeps ==
  ASSUME GInv,
         \/ \E v \in Venue : ConfirmVenue(v)
         \/ \E p \in Pass : Captured(p)
         \/ \E n \in Person \cup {None} : TypeNid(n)
         \/ ChangeVenue \/ Rescan \/ PressNext
  PROVE  GInv'
<1>1. ASSUME NEW v \in Venue, ConfirmVenue(v) PROVE GInv'
  <2>1. Edits
    BY <1>1, PageFields, NoResultIs DEF ConfirmVenue, GInv, GateTypeOK, Touch, Edits
  <2> QED
    BY <2>1, FormKeeps
<1>2. ASSUME NEW p \in Pass, Captured(p) PROVE GInv'
  <2>1. Edits
    BY <1>2, PageFields, NoResultIs DEF Captured, GInv, GateTypeOK, Touch, FormShows, Edits
  <2> QED
    BY <2>1, FormKeeps
<1>3. ASSUME NEW n \in Person \cup {None}, TypeNid(n) PROVE GInv'
  <2>1. Edits
    BY <1>3, PageFields, NoResultIs DEF TypeNid, GInv, GateTypeOK, Touch, FormShows, Edits
  <2> QED
    BY <2>1, FormKeeps
<1>4. CASE ChangeVenue
  <2>1. Edits
    BY <1>4, PageFields, NoResultIs DEF ChangeVenue, GInv, GateTypeOK, Edits
  <2> QED
    BY <2>1, FormKeeps
<1>5. CASE Rescan
  <2>1. Edits
    BY <1>5, PageFields, NoResultIs DEF Rescan, GInv, GateTypeOK, Touch, FormShows, Edits
  <2> QED
    BY <2>1, FormKeeps
<1>6. CASE PressNext
  <2>1. gate' = [editing |-> FALSE, qr |-> None, nid |-> None, result |-> NoResult,
                 status |-> "idle", latest |-> 0]
    BY <1>6, Zenon DEF PressNext, NextCandidate, OpenGate
  <2>2. gate' \in GatePage /\ gate'.result.outcome = "none"
    BY <2>1, PageFields, NoResultIs, GateBound
  <2>3. Edits
    BY <1>6, <2>2, Zenon DEF PressNext, GInv, GateTypeOK, AnswerIsDue, Edits
  <2> QED
    BY <2>3, FormKeeps
<1> QED
  BY <1>1, <1>2, <1>3, <1>4, <1>5, <1>6

LEMMA SubmitKeeps == ASSUME GInv, SubmitAdmission PROVE GInv'
<1> DEFINE r == [id |-> admissions + 1, pass |-> gate.qr, person |-> gate.nid,
                 venue |-> gateVenue, answer |-> "none", heard |-> TRUE]
<1>1. /\ gateCalls' = gateCalls \cup {r}
      /\ admitted' = admitted /\ greens' = greens /\ gateVenue' = gateVenue
      /\ gateHurried' = (gateHurried \/ AnswerIsDue)
      /\ gate' = [gate EXCEPT !.status = "pending", !.latest = admissions + 1]
      /\ gate.result = NoResult /\ admissions' = admissions + 1
  BY DEF SubmitAdmission, Touch, FormShows
<1>2. r \in Admission /\ gate' \in GatePage /\ admissions' \in 0..MaxAdmissions
  <2>1. admissions + 1 \in 1..MaxAdmissions
    BY GateBound DEF SubmitAdmission, GInv, GateTypeOK
  <2>2. gate.qr \in Pass /\ gate.nid \in Person /\ gateVenue \in Venue
    BY DEF SubmitAdmission, GInv, GateTypeOK, GatePage
  <2>3. r \in Admission
    BY <2>1, <2>2 DEF Admission
  <2>4. gate' \in GatePage
    <3>1. gate \in GatePage /\ admissions + 1 \in 0..MaxAdmissions
      BY <2>1, GateBound DEF GInv, GateTypeOK
    <3> QED
      BY <1>1, <3>1, PageFields
  <2> QED
    BY <1>1, <2>1, <2>3, <2>4
<1>3. /\ r.answer = "none" /\ r.pass = gate.qr /\ r.person = gate.nid
      /\ gate'.qr = gate.qr /\ gate'.nid = gate.nid /\ gate'.result = NoResult
  BY <1>1 DEF GInv, GateTypeOK, GatePage
<1> HIDE DEF r
<1>4. GateTypeOK' /\ OneGreenPerPass'
  BY <1>1, <1>2 DEF GInv, GateTypeOK, OneGreenPerPass
<1>5. Spent'
  BY <1>1, <1>3 DEF GInv, Spent
<1>6. Steady'
  BY <1>1, <1>3 DEF GInv, Steady, AnswerIsDue, NoResult
<1>7. GreenIsThisCandidate'
  BY <1>3 DEF GreenIsThisCandidate, NoResult
<1> QED
  BY <1>4, <1>5, <1>6, <1>7 DEF GInv

LEMMA HearKeeps ==
  ASSUME GInv, NEW c \in gateCalls, HearAdmission(c) PROVE GInv'
<1>1. /\ c.heard /\ c \in Admission /\ c.answer # "none"
      /\ gateCalls' = gateCalls \ {c}
      /\ admitted' = admitted /\ gateVenue' = gateVenue /\ admissions' = admissions
      /\ gateHurried' = gateHurried
      /\ greens' = IF c.answer = "ADMITTED" THEN [greens EXCEPT ![c.pass] = @ + 1] ELSE greens
  BY DEF HearAdmission, AdmitAtGate, GInv, GateTypeOK
<1>2. /\ gate' \in GatePage /\ gate'.qr = gate.qr /\ gate'.nid = gate.nid
      /\ c.answer = "FAULT" => gate'.result = gate.result
      /\ c.answer # "FAULT" => gate'.result = [outcome |-> c.answer, pass |-> c.pass]
  BY <1>1 DEF HearAdmission, AdmitAtGate, GInv, GateTypeOK, GatePage, Admission
<1>3. greens' \in [Pass -> Nat] /\ \A p \in Pass : greens'[p] =
        IF c.answer = "ADMITTED" /\ p = c.pass THEN greens[p] + 1 ELSE greens[p]
  BY <1>1 DEF GInv, GateTypeOK, Admission
<1>4. GateTypeOK'
  BY <1>1, <1>2, <1>3 DEF GInv, GateTypeOK
<1>5. OneGreenPerPass'
  BY <1>1, <1>3 DEF GInv, GateTypeOK, OneGreenPerPass, Spent
<1>6. Spent'
  BY <1>1, <1>3 DEF GInv, GateTypeOK, Spent, Admission
<1>7. Steady'
  BY <1>1, <1>2 DEF GInv, Steady, Admission
<1>8. GreenIsThisCandidate'
  BY <1>1, <1>2 DEF GInv, GreenIsThisCandidate, Spent, Steady
<1> QED
  BY <1>4, <1>5, <1>6, <1>7, <1>8 DEF GInv

(* The service decides: it admits only a pass that nobody has spent.       *)
LEMMA DecideKeeps ==
  ASSUME GInv, NEW c \in gateCalls, DecideAdmission(c) PROVE GInv'
<1>1. PICK a \in (IF Grounds(c) = {} THEN {"ADMITTED", "OTHER_REFUSAL"} ELSE Grounds(c)) :
        /\ admitted' = IF a = "ADMITTED" THEN [admitted EXCEPT ![c.pass] = "here"] ELSE admitted
        /\ gateCalls' = (gateCalls \ {c}) \cup IF c.heard THEN {[c EXCEPT !.answer = a]} ELSE {}
  BY DEF DecideAdmission
<1>2. /\ a \in Outcome
      /\ a = "ADMITTED" => admitted[c.pass] = "nowhere" /\ HolderOf[c.pass] = c.person
  BY <1>1 DEF Grounds, Outcome, Refused
<1>3. /\ gate' = gate /\ gateVenue' = gateVenue /\ admissions' = admissions
      /\ greens' = greens /\ gateHurried' = gateHurried
  BY DEF DecideAdmission
<1> DEFINE e == [c EXCEPT !.answer = a]
<1>4. /\ c \in Admission /\ e \in Admission /\ e.answer = a /\ e.pass = c.pass
      /\ e.person = c.person /\ e.heard = c.heard
  BY <1>2 DEF GInv, GateTypeOK, Admission
<1> HIDE DEF e
<1>5. \A d \in gateCalls' : d \in gateCalls \/ (d = e /\ c.heard)
  BY <1>1 DEF e
<1>6. admitted' \in [Pass -> {"nowhere", "here", "elsewhere"}]
      /\ \A p \in Pass : admitted'[p] = IF a = "ADMITTED" /\ p = c.pass THEN "here" ELSE admitted[p]
  BY <1>1 DEF GInv, GateTypeOK
<1>7. GateTypeOK'
  BY <1>3, <1>4, <1>5, <1>6 DEF GInv, GateTypeOK
<1>8. c.pass \in Pass /\ (a = "ADMITTED" => greens[c.pass] = 0)
  BY <1>2, <1>4 DEF GInv, GateTypeOK, OneGreenPerPass, Admission
<1>9. OneGreenPerPass'
  BY <1>3, <1>6, <1>8, <1>2 DEF GInv, GateTypeOK, OneGreenPerPass
<1>10. Spent'
  <2>1. \A d \in gateCalls : d.answer = "ADMITTED" =>
          d.pass \in Pass /\ (a = "ADMITTED" => d.pass # c.pass)
    BY <1>2 DEF GInv, GateTypeOK, Spent, Admission
  <2>2. \A d \in gateCalls' : d.answer = "ADMITTED" =>
          /\ admitted'[d.pass] = "here" /\ greens'[d.pass] = 0 /\ HolderOf[d.pass] = d.person
    BY <1>2, <1>3, <1>4, <1>5, <1>6, <1>8, <2>1 DEF GInv, Spent
  <2>3. \A d, f \in gateCalls' :
          d.answer = "ADMITTED" /\ f.answer = "ADMITTED" /\ d.pass = f.pass => d = f
    BY <1>4, <1>5, <2>1 DEF GInv, Spent
  <2> QED
    BY <2>2, <2>3 DEF Spent
<1>11. Steady'
  BY <1>3, <1>4, <1>5 DEF GInv, Steady
<1>12. GreenIsThisCandidate'
  BY <1>3, <1>6 DEF GInv, Steady, GreenIsThisCandidate
<1> QED
  BY <1>7, <1>9, <1>10, <1>11, <1>12 DEF GInv

(* A lost answer is no admission, and what was asked may still be decided. *)
LEMMA FailKeeps ==
  ASSUME GInv, NEW c \in gateCalls, AdmissionFails(c) PROVE GInv'
<1> DEFINE e == [c EXCEPT !.answer = "FAULT"]
           f == [c EXCEPT !.heard = FALSE]
<1>1. /\ gate' = gate /\ gateVenue' = gateVenue /\ admissions' = admissions /\ admitted' = admitted
      /\ greens' = greens /\ gateHurried' = gateHurried /\ c.heard
      /\ \A d \in gateCalls' : d \in gateCalls \/ d = e \/ (d = f /\ c.answer = "none")
  BY DEF AdmissionFails
<1>2. /\ e \in Admission /\ e.answer = "FAULT" /\ e.pass = c.pass /\ e.person = c.person
      /\ f \in Admission /\ f.answer = c.answer /\ ~f.heard
  BY DEF GInv, GateTypeOK, Admission
<1> HIDE DEF e, f
<1>3. GateTypeOK' /\ OneGreenPerPass' /\ GreenIsThisCandidate'
  BY <1>1, <1>2 DEF GInv, GateTypeOK, OneGreenPerPass, GreenIsThisCandidate
<1>4. Spent'
  BY <1>1, <1>2 DEF GInv, Spent
<1>5. Steady'
  BY <1>1, <1>2 DEF GInv, Steady
<1> QED
  BY <1>3, <1>4, <1>5 DEF GInv

LEMMA ElsewhereKeeps ==
  ASSUME GInv, NEW p \in Pass, AdmittedElsewhere(p) PROVE GInv'
<1>1. /\ gate' = gate /\ gateVenue' = gateVenue /\ admissions' = admissions /\ gateCalls' = gateCalls
      /\ greens' = greens /\ gateHurried' = gateHurried
      /\ admitted[p] = "nowhere" /\ admitted' = [admitted EXCEPT ![p] = "elsewhere"]
  BY DEF AdmittedElsewhere
<1>2. GateTypeOK' /\ OneGreenPerPass' /\ Spent'
  BY <1>1 DEF GInv, GateTypeOK, OneGreenPerPass, Spent, Admission
<1>3. Steady'
  BY <1>1 DEF GInv, Steady
<1>4. GreenIsThisCandidate'
  BY <1>1 DEF GInv, GateTypeOK, Steady, GreenIsThisCandidate
<1> QED
  BY <1>2, <1>3, <1>4 DEF GInv

LEMMA LeaveKeeps == ASSUME GInv, LeaveGate PROVE GInv'
<1>1. /\ gateVenue' = gateVenue /\ admissions' = admissions /\ admitted' = admitted
      /\ greens' = greens /\ gateHurried' = FALSE /\ gate' = OpenGate
  BY DEF LeaveGate
<1>2. \A d \in gateCalls' : d \in Admission /\ ~d.heard /\ d.answer = "none"
  BY DEF LeaveGate, GInv, GateTypeOK, Admission
<1>3. gate' \in GatePage /\ gate'.result.outcome = "none"
  BY <1>1, GateBound DEF OpenGate, GatePage, NoResult
<1>4. GateTypeOK' /\ OneGreenPerPass'
  BY <1>1, <1>2, <1>3 DEF GInv, GateTypeOK, OneGreenPerPass
<1>5. Spent' /\ Steady' /\ GreenIsThisCandidate'
  BY <1>2, <1>3 DEF Spent, Steady, GreenIsThisCandidate
<1> QED
  BY <1>4, <1>5 DEF GInv

LEMMA GateStep == GInv /\ [GateNext]_gateVars => GInv'
<1> SUFFICES ASSUME GInv, [GateNext]_gateVars PROVE GInv'
  OBVIOUS
<1>1. CASE GateOfficer
  <2>1. CASE SubmitAdmission
    BY <2>1, SubmitKeeps
  <2>2. ASSUME NEW c \in gateCalls, HearAdmission(c) PROVE GInv'
    BY <2>2, HearKeeps
  <2> QED
    BY <1>1, <2>1, <2>2, OfficerKeeps DEF GateOfficer
<1>2. CASE GateService
  BY <1>2, DecideKeeps, FailKeeps, ElsewhereKeeps DEF GateService
<1>3. CASE LeaveGate
  BY <1>3, LeaveKeeps
<1>4. CASE UNCHANGED gateVars
  BY <1>4 DEF gateVars, GInv, GateTypeOK, Spent, Steady, OneGreenPerPass, GreenIsThisCandidate
<1> QED
  BY <1>1, <1>2, <1>3, <1>4 DEF GateNext

LEMMA GateHolds == GateSpec => []GInv
  BY InitGInv, GateStep, PTL DEF GateSpec, GateNext

-----------------------------------------------------------------------------
(* Theorems                                                                *)

(* The page, its requests and the service keep their types (gate.tsx).     *)
THEOREM GateTypeCorrect == GateSpec => []GateTypeOK
  BY GateHolds, PTL DEF GInv

(* No pass turns the screen green twice, or once another gate has spent it,*)
(* whatever answers are lost and however the officer hurries (gate.tsx).   *)
THEOREM OnePassOneGreen == GateSpec => []OneGreenPerPass
  BY GateHolds, PTL DEF GInv

(* An officer who waits for each answer lets in the holder of the pass.    *)
THEOREM GreenMeansHolder == GateSpec => []GreenIsThisCandidate
  BY GateHolds, PTL DEF GInv

-----------------------------------------------------------------------------
(* The medical station: one review at a time, of the pass that was read.   *)

Due == review.at # "none" =>
  /\ board.busy /\ board.outcome = "none"
  /\ review.ticket \in Matching /\ review.choice \in ChoicesFor(Mode)
  /\ ~boardHurried => board.ticket = review.ticket
  /\ review.at = "recorded" => reviews[review.ticket] = review.choice
Idle == review.at = "none" => ~board.busy

MInv == MedicalTypeOK /\ Due /\ Idle /\ VerdictIsThisCandidates
MedicalNext == MedicalOfficer \/ MedicalService \/ LeaveBoard

LEMMA ChoiceFacts ==
  /\ ChoicesFor(Mode) \subseteq Choices /\ "none" \notin Choices
  /\ OpenBoard \in BoardPage /\ OpenBoard.busy = FALSE /\ OpenBoard.outcome = "none"
  /\ NoReview \in Review /\ NoReview.at = "none"
<1>1. ChoicesFor(Mode) \subseteq Choices /\ "none" \notin Choices
  BY MedicalMode DEF ChoicesFor, Choices
<1>2. OpenBoard \in BoardPage /\ OpenBoard.busy = FALSE /\ OpenBoard.outcome = "none"
  BY DEF OpenBoard, BoardPage, Shown, Why
<1>3. NoReview \in Review /\ NoReview.at = "none"
  BY DEF NoReview, Review, Why
<1> QED
  BY <1>1, <1>2, <1>3

LEMMA MInvInit == MedicalInit => MInv
<1> SUFFICES ASSUME MedicalInit PROVE MInv
  OBVIOUS
<1>1. boardHurried \in BOOLEAN
  BY Zenon DEF MedicalInit
<1>2. MedicalTypeOK
  BY <1>1, ChoiceFacts DEF MedicalInit, MedicalTypeOK
<1>3. Due /\ Idle /\ VerdictIsThisCandidates
  BY ChoiceFacts DEF MedicalInit, Due, Idle, VerdictIsThisCandidates
<1> QED
  BY <1>2, <1>3 DEF MInv

(* The form is edited: nothing but the pass, the choice and the name.      *)
Edited ==
  /\ board' \in BoardPage /\ board'.busy = board.busy
  /\ board.outcome = "none" /\ board'.outcome = "none"
  /\ boardHurried' \in BOOLEAN /\ (boardHurried => boardHurried')
  /\ board.busy => boardHurried' \/ board'.ticket = board.ticket
  /\ UNCHANGED <<review, unheard, reviews>>

LEMMA EditKeeps == ASSUME MInv, Edited PROVE MInv'
<1>1. MedicalTypeOK'
  BY DEF MInv, Edited, MedicalTypeOK
<1>2. Due'
  BY DEF MInv, Edited, Due
<1>3. Idle' /\ VerdictIsThisCandidates'
  BY DEF MInv, Edited, Idle, VerdictIsThisCandidates
<1> QED
  BY <1>1, <1>2, <1>3 DEF MInv

LEMMA BoardTouched ==
  ASSUME MInv, TouchBoard
  PROVE  boardHurried' \in BOOLEAN /\ (boardHurried => boardHurried') /\ (board.busy => boardHurried')
<1>1. boardHurried' = (boardHurried \/ board.busy)
  BY DEF TouchBoard
<1> QED
  BY <1>1, Zenon

LEMMA MedicalStep == MInv /\ [MedicalNext]_medicalVars => MInv'
<1> SUFFICES ASSUME MInv, [MedicalNext]_medicalVars PROVE MInv'
  OBVIOUS
<1>0. /\ MedicalTypeOK /\ Due /\ Idle /\ VerdictIsThisCandidates
      /\ board \in BoardPage /\ review \in Review /\ unheard \subseteq Request
      /\ reviews \in [Ticket -> Choices \cup {"none"}] /\ boardHurried \in BOOLEAN
  BY DEF MInv, MedicalTypeOK
<1>1. ASSUME NEW t \in Ticket, ReadTicket(t) PROVE MInv'
  <2>1. board' \in BoardPage /\ board'.busy = board.busy /\ board.outcome = "none" /\ board'.outcome = "none"
    BY <1>0, <1>1 DEF ReadTicket, ChooserShows, BoardPage
  <2>2. TouchBoard /\ UNCHANGED <<review, unheard, reviews>>
    BY <1>1 DEF ReadTicket
  <2> QED
    BY <2>1, <2>2, BoardTouched, EditKeeps DEF Edited
<1>2. CASE ClearTicket
  <2>1. board' \in BoardPage /\ board'.busy = board.busy /\ board.outcome = "none" /\ board'.outcome = "none"
    BY <1>0, <1>2 DEF ClearTicket, ChooserShows, BoardPage
  <2>2. TouchBoard /\ UNCHANGED <<review, unheard, reviews>>
    BY <1>2 DEF ClearTicket
  <2> QED
    BY <2>1, <2>2, BoardTouched, EditKeeps DEF Edited
<1>3. ASSUME NEW v \in Choices, Choose(v) PROVE MInv'
  <2>1. /\ board' \in BoardPage /\ board'.busy = board.busy /\ board'.ticket = board.ticket
        /\ board.outcome = "none" /\ board'.outcome = "none"
        /\ UNCHANGED <<review, unheard, reviews, boardHurried>>
    BY <1>0, <1>3 DEF Choose, ChooserShows, BoardPage
  <2> QED
    BY <1>0, <2>1, EditKeeps DEF Edited
<1>4. ASSUME NEW good \in BOOLEAN, NamePhysician(good) PROVE MInv'
  <2>1. /\ board' \in BoardPage /\ board'.busy = board.busy /\ board'.ticket = board.ticket
        /\ board.outcome = "none" /\ board'.outcome = "none"
        /\ UNCHANGED <<review, unheard, reviews, boardHurried>>
    BY <1>0, <1>4 DEF NamePhysician, ChooserShows, BoardPage
  <2> QED
    BY <1>0, <2>1, EditKeeps DEF Edited
<1>5. CASE Record
  <2>1. /\ board.ticket \in Matching /\ board.choice \in ChoicesFor(Mode) /\ board.outcome = "none"
        /\ review' = [at |-> "sent", ticket |-> board.ticket, choice |-> board.choice, why |-> "none"]
        /\ board' = [board EXCEPT !.busy = TRUE] /\ UNCHANGED <<unheard, reviews, boardHurried>>
    BY <1>5 DEF Record, HasInput, ChooserShows
  <2>2. review' \in Review
    BY <1>0, <2>1, MedicalNames, ChoiceFacts DEF Review, Why
  <2>3. board' \in BoardPage /\ board'.busy = TRUE /\ board'.outcome = "none" /\ board'.ticket = board.ticket
    BY <1>0, <2>1 DEF BoardPage
  <2>4. MedicalTypeOK'
    BY <1>0, <2>1, <2>2, <2>3 DEF MedicalTypeOK
  <2>5. Due' /\ Idle' /\ VerdictIsThisCandidates'
    BY <2>1, <2>3 DEF Due, Idle, VerdictIsThisCandidates
  <2> QED
    BY <2>4, <2>5 DEF MInv
<1>6. CASE HearReview
  <2>1. /\ review.at \in {"recorded", "refused", "lost"} /\ review' = NoReview
        /\ UNCHANGED <<unheard, reviews, boardHurried>>
        /\ board' = [board EXCEPT !.busy = FALSE, !.outcome = OutcomeOf(review), !.why = review.why,
                                  !.verdict = review.choice]
    BY <1>6 DEF HearReview
  <2>2. OutcomeOf(review) \in Shown /\ (OutcomeOf(review) = "recorded" => review.at = "recorded")
    <3>1. CASE review.at = "recorded"
      BY <3>1, Zenon DEF OutcomeOf, Shown
    <3>2. CASE review.at = "lost"
      BY <3>2 DEF OutcomeOf, Shown
    <3>3. CASE review.at = "refused"
      <4>1. OutcomeOf(review) = "refused"
        BY <3>3, Zenon DEF OutcomeOf
      <4> QED
        BY <4>1 DEF Shown
    <3> QED
      BY <2>1, <3>1, <3>2, <3>3
  <2>3. review.choice \in Choices \cup {"none"} /\ review.why \in Why
    BY <1>0 DEF Review
  <2>4. /\ board' \in BoardPage /\ board'.busy = FALSE /\ board'.outcome = OutcomeOf(review)
        /\ board'.verdict = review.choice /\ board'.ticket = board.ticket
    BY <1>0, <2>1, <2>2, <2>3 DEF BoardPage
  <2>5. MedicalTypeOK'
    BY <1>0, <2>1, <2>4, ChoiceFacts DEF MedicalTypeOK
  <2>6. Due' /\ Idle'
    BY <2>1, <2>4, ChoiceFacts DEF Due, Idle
  <2>7. VerdictIsThisCandidates'
    BY <1>0, <2>1, <2>2, <2>4 DEF Due, VerdictIsThisCandidates
  <2> QED
    BY <2>5, <2>6, <2>7 DEF MInv
<1>7. CASE PressNextTicket
  <2>1. board.outcome # "none" /\ board' = OpenBoard /\ boardHurried' = FALSE /\ UNCHANGED <<review, unheard, reviews>>
    BY <1>7 DEF PressNextTicket, ChooserShows, NextBoard
  <2>2. review.at = "none"
    BY <1>0, <2>1 DEF Due
  <2>3. boardHurried' \in BOOLEAN
    BY <2>1, Zenon
  <2>4. MedicalTypeOK'
    BY <1>0, <2>1, <2>3, ChoiceFacts DEF MedicalTypeOK
  <2>5. Due' /\ Idle' /\ VerdictIsThisCandidates'
    BY <2>1, <2>2, ChoiceFacts DEF Due, Idle, VerdictIsThisCandidates
  <2> QED
    BY <2>4, <2>5 DEF MInv
<1>8. CASE LeaveBoard
  <2>1. board' = OpenBoard /\ review' = NoReview /\ boardHurried' = FALSE /\ UNCHANGED reviews
    BY <1>8 DEF LeaveBoard
  <2>2. unheard' \subseteq Request
    <3>1. review.at = "sent" => [ticket |-> review.ticket, choice |-> review.choice] \in Request
      BY <1>0, MedicalNames, ChoiceFacts DEF Due, Request
    <3> QED
      BY <1>0, <1>8, <3>1 DEF LeaveBoard
  <2>3. boardHurried' \in BOOLEAN
    BY <2>1, Zenon
  <2>4. MedicalTypeOK'
    BY <1>0, <2>1, <2>2, <2>3, ChoiceFacts DEF MedicalTypeOK
  <2>5. Due' /\ Idle' /\ VerdictIsThisCandidates'
    BY <2>1, ChoiceFacts DEF Due, Idle, VerdictIsThisCandidates
  <2> QED
    BY <2>4, <2>5 DEF MInv
<1>9. CASE DecideReview
  <2>0. review.at = "sent" /\ UNCHANGED <<board, unheard, boardHurried>>
    BY <1>9 DEF DecideReview
  <2>a. board.outcome = "none" /\ review.ticket \in Ticket /\ review.choice \in Choices
    BY <1>0, <2>0, MedicalNames, ChoiceFacts DEF Due
  <2>1. CASE /\ reviews' = [reviews EXCEPT ![review.ticket] = review.choice]
             /\ review' = [review EXCEPT !.at = "recorded"]
    <3>1. review' \in Review /\ reviews' \in [Ticket -> Choices \cup {"none"}] /\ reviews'[review.ticket] = review.choice
      BY <1>0, <2>1, <2>a DEF Review
    <3>2. Due' /\ Idle' /\ VerdictIsThisCandidates'
      BY <1>0, <2>0, <2>1, <2>a, <3>1 DEF Due, Idle, VerdictIsThisCandidates, Review
    <3> QED
      BY <1>0, <2>0, <3>1, <3>2 DEF MInv, MedicalTypeOK
  <2>2. CASE \E w \in Why : review' = [review EXCEPT !.at = "refused", !.why = w] /\ reviews' = reviews
    <3>1. review' \in Review /\ reviews' = reviews
      BY <1>0, <2>2 DEF Review
    <3>2. Due' /\ Idle' /\ VerdictIsThisCandidates'
      BY <1>0, <2>0, <2>2, <2>a DEF Due, Idle, VerdictIsThisCandidates, Review
    <3> QED
      BY <1>0, <2>0, <3>1, <3>2 DEF MInv, MedicalTypeOK
  <2> QED
    BY <1>9, <2>1, <2>2 DEF DecideReview, Why
<1>10. CASE ReviewFails
  <2>0. review.at \in {"sent", "recorded"} /\ UNCHANGED <<board, reviews, boardHurried>>
    BY <1>10 DEF ReviewFails
  <2>1. PICK how \in {"lost", "refused"} :
          review' = [review EXCEPT !.at = how, !.why = IF how = "lost" THEN "none" ELSE "other"]
    BY <1>10 DEF ReviewFails
  <2>2. review' \in Review /\ review'.at = how /\ review'.ticket = review.ticket /\ review'.choice = review.choice
    BY <1>0, <2>1 DEF Review, Why
  <2>3. unheard' \subseteq Request
    <3>1. [ticket |-> review.ticket, choice |-> review.choice] \in Request
      BY <1>0, <2>0, MedicalNames, ChoiceFacts DEF Due, Request
    <3> QED
      BY <1>0, <1>10, <3>1 DEF ReviewFails
  <2>4. Due' /\ Idle' /\ VerdictIsThisCandidates'
    BY <1>0, <2>0, <2>2 DEF Due, Idle, VerdictIsThisCandidates
  <2> QED
    BY <1>0, <2>0, <2>2, <2>3, <2>4 DEF MInv, MedicalTypeOK
<1>11. ASSUME NEW r \in unheard, DecideUnheard(r) PROVE MInv'
  <2>1. r.ticket \in Ticket /\ r.choice \in Choices
    BY <1>0 DEF Request
  <2>2. /\ reviews' \in [Ticket -> Choices \cup {"none"}]
        /\ \A t \in Ticket : reviews[t] # "none" => reviews'[t] = reviews[t]
        /\ UNCHANGED <<board, review, boardHurried>> /\ unheard' \subseteq unheard
    BY <1>0, <1>11, <2>1 DEF DecideUnheard
  <2>3. MedicalTypeOK'
    BY <1>0, <2>2 DEF MedicalTypeOK
  <2>4. Due' /\ Idle'
    BY <1>0, <2>2, MedicalNames, ChoiceFacts DEF Due, Idle
  <2>5. VerdictIsThisCandidates'
    BY <1>0, <2>2, MedicalNames, ChoiceFacts DEF VerdictIsThisCandidates
  <2> QED
    BY <2>3, <2>4, <2>5 DEF MInv
<1>12. CASE UNCHANGED medicalVars
  BY <1>0, <1>12 DEF medicalVars, MInv, MedicalTypeOK, Due, Idle, VerdictIsThisCandidates
<1> QED
  BY <1>1, <1>2, <1>3, <1>4, <1>5, <1>6, <1>7, <1>8, <1>9, <1>10, <1>11, <1>12
     DEF MedicalNext, MedicalOfficer, MedicalService

(* The verdict the panel calls recorded is the one recorded of the         *)
(* candidate whose pass is on the form (medical.tsx, record), unless the   *)
(* pass was changed while the answer was due.                              *)
THEOREM VerdictsAreTheirs == MedicalSpec => []VerdictIsThisCandidates
<1>1. MInv => VerdictIsThisCandidates
  BY DEF MInv
<1> QED
  BY <1>1, MInvInit, MedicalStep, PTL DEF MedicalSpec, MedicalNext

-----------------------------------------------------------------------------
(* The walk-in desk: one chain and the vettings the page hears are of the  *)
(* candidate on it.                                                        *)

Registered == \A c \in chains : c.at = "registered" => application[c.applicant] # "none"
OneChain ==
  /\ \A c \in chains : c.heard => desk.registered = Nobody
  /\ \A c, d \in chains : c.heard /\ d.heard => c = d
VettedBacked == \A c \in vetCalls : c.answer = "VETTED" => application[c.applicant] = "vetted"
OfTheCandidate == ~deskHurried => \A c \in vetCalls : c.heard => c.applicant = desk.registered

WInv == WalkInTypeOK /\ Registered /\ OneChain /\ VettedBacked /\ OfTheCandidate /\ BannerIsThisCandidates
WalkInNext == DeskOfficer \/ DeskService \/ LeaveDesk

LEMMA OpenDeskIs ==
  /\ OpenDesk \in DeskPage /\ OpenDesk.registered = Nobody
  /\ OpenDesk.vetted = FALSE /\ OpenDesk.agePending = FALSE
BY WalkInBound DEF OpenDesk, DeskPage, Status

LEMMA WInvInit == WalkInInit => WInv
<1> SUFFICES ASSUME WalkInInit PROVE WInv
  OBVIOUS
<1>1. deskHurried \in BOOLEAN
  BY Zenon DEF WalkInInit
<1>2. WalkInTypeOK
  BY <1>1, OpenDeskIs, WalkInBound DEF WalkInInit, WalkInTypeOK
<1>3. Registered /\ OneChain /\ VettedBacked /\ OfTheCandidate
  BY DEF WalkInInit, Registered, OneChain, VettedBacked, OfTheCandidate
<1>4. BannerIsThisCandidates
  BY OpenDeskIs DEF WalkInInit, BannerIsThisCandidates
<1> QED
  BY <1>2, <1>3, <1>4 DEF WInv

LEMMA WalkInStep == WInv /\ [WalkInNext]_walkInVars => WInv'
<1> SUFFICES ASSUME WInv, [WalkInNext]_walkInVars PROVE WInv'
  OBVIOUS
<1>0. /\ WalkInTypeOK /\ Registered /\ OneChain /\ VettedBacked /\ OfTheCandidate /\ BannerIsThisCandidates
      /\ desk \in DeskPage /\ chains \subseteq Chain /\ vetCalls \subseteq Vetting /\ deskHurried \in BOOLEAN
      /\ vettings \in 0..MaxVettings /\ application \in [Applicant -> {"none", "registered", "vetted"}]
  BY DEF WInv, WalkInTypeOK
<1>c. \A c \in chains : c \in Chain /\ c.applicant \in Applicant /\ c.applicant # Nobody
  BY <1>0, WalkInNames DEF Chain
<1>v. \A c \in vetCalls : c \in Vetting /\ c.applicant \in Applicant /\ c.applicant # Nobody
  BY <1>0, WalkInNames DEF Vetting
(* The desk shows the same candidate and banners, and hears no new call.   *)
<1>a. ASSUME desk' \in DeskPage, desk'.registered = desk.registered, desk'.vetted = desk.vetted,
             desk'.agePending => desk.agePending,
             UNCHANGED <<vetCalls, vettings, application, deskHurried>>,
             chains' \subseteq Chain, Registered', OneChain'
      PROVE  WInv'
  <2>1. WalkInTypeOK'
    BY <1>0, <1>a DEF WalkInTypeOK
  <2>2. VettedBacked' /\ OfTheCandidate'
    BY <1>0, <1>a DEF VettedBacked, OfTheCandidate
  <2>3. BannerIsThisCandidates'
    BY <1>0, <1>a DEF BannerIsThisCandidates
  <2> QED
    BY <1>a, <2>1, <2>2, <2>3 DEF WInv
(* The service moves an application on, and none of them back.             *)
<1>s. ASSUME desk' = desk, UNCHANGED <<vettings, deskHurried>>,
             application' \in [Applicant -> {"none", "registered", "vetted"}],
             \A a \in Applicant : (application[a] # "none" => application'[a] # "none")
                               /\ (application[a] = "vetted" => application'[a] = "vetted"),
             chains' \subseteq Chain, Registered', OneChain',
             vetCalls' \subseteq Vetting, VettedBacked', OfTheCandidate'
      PROVE  WInv'
  <2>1. WalkInTypeOK'
    BY <1>0, <1>s DEF WalkInTypeOK
  <2>2. BannerIsThisCandidates'
    <3>1. desk.registered \in Applicant \cup {Nobody}
      BY <1>0 DEF DeskPage
    <3> QED
      BY <1>0, <1>s, <3>1 DEF BannerIsThisCandidates
  <2> QED
    BY <1>s, <2>1, <2>2 DEF WInv
<1>1. ASSUME NEW a \in Applicant, SubmitWalkIn(a) PROVE WInv'
  <2> DEFINE c == [at |-> "verify", applicant |-> a, heard |-> TRUE]
  <2>1. desk' \in DeskPage /\ desk'.registered = desk.registered /\ desk'.vetted = desk.vetted
        /\ desk'.agePending = desk.agePending
    BY <1>0, <1>1 DEF SubmitWalkIn, DeskPage, Status
  <2>2. c \in Chain /\ c.at = "verify"
    BY DEF Chain
  <2>3. chains' = chains \cup {c} /\ desk.registered = Nobody
        /\ UNCHANGED <<vetCalls, vettings, application, deskHurried>>
    BY <1>1 DEF SubmitWalkIn
  <2>9. \A d \in chains : ~d.heard
    BY <1>1, Zenon DEF SubmitWalkIn
  <2> HIDE DEF c
  <2>4. chains' \subseteq Chain
    BY <1>0, <2>2, <2>3
  <2>5. Registered'
    <3> SUFFICES ASSUME NEW d \in chains', d.at = "registered" PROVE application[d.applicant] # "none"
      BY <2>3 DEF Registered
    <3>1. d # c
      BY <2>2
    <3>2. d \in chains
      BY <2>3, <3>1
    <3> QED
      BY <1>0, <3>2 DEF Registered
  <2>6. OneChain'
    <3>1. \A d \in chains' : d.heard => d = c
      <4> SUFFICES ASSUME NEW d \in chains', d # c PROVE ~d.heard
        OBVIOUS
      <4>1. d \in chains
        BY <2>3
      <4> QED
        BY <2>9, <4>1, Zenon
    <3>2. desk'.registered = Nobody
      BY <2>1, <2>3
    <3> QED
      BY <3>1, <3>2, Zenon DEF OneChain
  <2>7. desk'.agePending => desk.agePending
    BY <2>1, Zenon
  <2>8. desk' \in DeskPage /\ desk'.registered = desk.registered /\ desk'.vetted = desk.vetted
    BY <2>1
  <2> QED
    BY <1>a, <2>3, <2>4, <2>5, <2>6, <2>7, <2>8
<1>2. CASE ChooseCategory
  <2>1. desk' \in DeskPage /\ desk'.registered = desk.registered /\ desk'.vetted = desk.vetted
        /\ desk'.agePending = desk.agePending
    BY <1>0, <1>2 DEF ChooseCategory, DeskPage, Status
  <2>2. UNCHANGED <<chains, vetCalls, vettings, application, deskHurried>>
    BY <1>2 DEF ChooseCategory
  <2>3. Registered' /\ OneChain'
    BY <1>0, <2>1, <2>2 DEF Registered, OneChain
  <2> QED
    BY <1>0, <1>a, <2>1, <2>2, <2>3
<1>3. ASSUME NEW c \in chains, VerifyIdentity(c) PROVE WInv'
  <2>1. desk' \in DeskPage /\ desk'.registered = desk.registered /\ desk'.vetted = desk.vetted
        /\ desk'.agePending = desk.agePending /\ UNCHANGED <<vetCalls, vettings, application, deskHurried>>
    <3>1. \/ desk' = desk \/ desk' = [desk EXCEPT !.verify = "done", !.register = "pending"]
          \/ desk' = [desk EXCEPT !.verify = "failed"]
      BY <1>3, Zenon DEF VerifyIdentity
    <3>2. UNCHANGED <<vetCalls, vettings, application, deskHurried>>
      BY <1>3 DEF VerifyIdentity
    <3>3. {"pending", "done", "failed"} \subseteq Status
      BY DEF Status
    <3>4. CASE desk' = desk
      BY <1>0, <3>2, <3>4
    <3>5. CASE desk' = [desk EXCEPT !.verify = "done", !.register = "pending"]
      BY <1>0, <3>2, <3>3, <3>5 DEF DeskPage
    <3>6. CASE desk' = [desk EXCEPT !.verify = "failed"]
      BY <1>0, <3>2, <3>3, <3>6 DEF DeskPage
    <3> QED
      BY <3>1, <3>4, <3>5, <3>6
  <2> DEFINE d == [c EXCEPT !.at = "register"]
  <2>2. d \in Chain /\ d.at = "register" /\ d.heard = c.heard
    BY <1>c DEF Chain
  <2>3. chains' = (chains \ {c}) \cup {d} \/ chains' = chains \ {c}
    BY <1>3 DEF VerifyIdentity, Moved
  <2> HIDE DEF d
  <2>4. chains' \subseteq Chain
    BY <1>0, <2>2, <2>3
  <2>5. Registered'
    BY <1>0, <2>1, <2>2, <2>3 DEF Registered
  <2>6. OneChain'
    BY <1>0, <2>1, <2>2, <2>3 DEF OneChain
  <2> QED
    BY <1>a, <2>1, <2>4, <2>5, <2>6
<1>4. ASSUME NEW c \in chains, RegisterWalkIn(c) PROVE WInv'
  <2>1. PICK at \in {"registered", "refused"} : chains' = (chains \ {c}) \cup {[c EXCEPT !.at = at]}
    BY <1>4 DEF RegisterWalkIn, Moved
  <2>2. /\ application' = IF application[c.applicant] = "none" /\ application' # application
                          THEN [application EXCEPT ![c.applicant] = "registered"] ELSE application
        /\ [c EXCEPT !.at = "registered"] \in chains' /\ [c EXCEPT !.at = "registered"] \notin chains
           => application'[c.applicant] # "none"
        /\ UNCHANGED <<desk, vetCalls, vettings, deskHurried>>
    BY <1>0, <1>4, <1>c DEF RegisterWalkIn, Moved, Chain
  <2> DEFINE d == [c EXCEPT !.at = at]
  <2>3. d \in Chain /\ d.at = at /\ d.heard = c.heard /\ d.applicant = c.applicant
    BY <1>c DEF Chain
  <2>4. /\ application' \in [Applicant -> {"none", "registered", "vetted"}]
        /\ \A a \in Applicant : (application[a] # "none" => application'[a] # "none")
                             /\ (application[a] = "vetted" => application'[a] = "vetted")
    BY <1>0, <1>c, <2>2
  <2>5. chains' = (chains \ {c}) \cup {d} /\ (at = "registered" => application'[c.applicant] # "none")
    <3>1. CASE at = "registered" /\ application[c.applicant] = "none" /\ application' = application
      <4>1. [c EXCEPT !.at = "registered"].at = "registered" /\ [c EXCEPT !.at = "registered"].applicant = c.applicant
        BY <1>c DEF Chain
      <4> QED
        BY <1>0, <2>1, <2>2, <3>1, <4>1 DEF Registered
    <3>2. CASE ~(at = "registered" /\ application[c.applicant] = "none" /\ application' = application)
      BY <1>0, <1>c, <2>1, <2>2, <3>2
    <3> QED
      BY <3>1, <3>2
  <2> HIDE DEF d
  <2>6. chains' \subseteq Chain
    BY <1>0, <2>3, <2>5
  <2>7. Registered'
    BY <1>0, <1>c, <2>3, <2>4, <2>5 DEF Registered
  <2>8. OneChain'
    BY <1>0, <2>2, <2>3, <2>5 DEF OneChain
  <2>9. VettedBacked' /\ OfTheCandidate'
    BY <1>0, <1>v, <2>2, <2>4 DEF VettedBacked, OfTheCandidate
  <2> QED
    BY <1>0, <1>s, <2>2, <2>4, <2>6, <2>7, <2>8, <2>9
<1>5. ASSUME NEW c \in chains, RegistrationFails(c) PROVE WInv'
  <2> DEFINE d == [c EXCEPT !.at = "failed"]
             e == [c EXCEPT !.heard = FALSE]
  <2>1. d \in Chain /\ d.at = "failed" /\ d.heard = c.heard
    BY <1>c DEF Chain
  <2>2. e \in Chain /\ e.at = c.at /\ e.heard = FALSE /\ e.applicant = c.applicant
    BY <1>c DEF Chain
  <2>3. chains' \subseteq (chains \ {c}) \cup {d, e} /\ UNCHANGED <<desk, vetCalls, vettings, application, deskHurried>>
    BY <1>5 DEF RegistrationFails
  <2> HIDE DEF d, e
  <2>4. chains' \subseteq Chain
    BY <1>0, <2>1, <2>2, <2>3
  <2>5. Registered'
    BY <1>0, <2>1, <2>2, <2>3 DEF Registered
  <2>6. OneChain'
    BY <1>0, <2>1, <2>2, <2>3 DEF OneChain
  <2> QED
    BY <1>0, <1>a, <2>3, <2>4, <2>5, <2>6
<1>6. ASSUME NEW c \in chains, HearRegistration(c) PROVE WInv'
  <2>1. chains' = chains \ {c} /\ UNCHANGED <<vetCalls, vettings, application, deskHurried>>
    BY <1>6 DEF HearRegistration
  <2>2. chains' \subseteq Chain /\ Registered'
    BY <1>0, <2>1 DEF Registered
  <2>3. CASE ~(c.heard /\ c.at = "registered")
    <3>1. desk' \in DeskPage /\ desk'.registered = desk.registered /\ desk'.vetted = desk.vetted
          /\ desk'.agePending = desk.agePending
      <4>1. CASE ~c.heard
        BY <1>0, <1>6, <4>1 DEF HearRegistration
      <4>2. CASE c.heard
        <5>1. (desk.register = "pending" /\ c.at = "refused") \in BOOLEAN
          BY Zenon
        <5> QED
          BY <1>0, <1>6, <2>3, <4>2, <5>1 DEF HearRegistration, DeskPage, Status
      <4> QED
        BY <4>1, <4>2
    <3>2. OneChain'
      BY <1>0, <2>1, <3>1 DEF OneChain
    <3> QED
      BY <1>a, <2>1, <2>2, <3>1, <3>2
  <2>4. CASE c.heard /\ c.at = "registered"
    <3>1. /\ desk' \in DeskPage /\ desk'.registered = c.applicant /\ desk'.vetted = desk.vetted
          /\ desk'.agePending = desk.agePending
      BY <1>0, <1>6, <1>c, <2>4 DEF HearRegistration, DeskPage, Status
    <3>2. desk.registered = Nobody /\ \A d \in chains' : ~d.heard
      BY <1>0, <2>1, <2>4 DEF OneChain
    <3>3. WalkInTypeOK'
      BY <1>0, <2>1, <2>2, <3>1 DEF WalkInTypeOK
    <3>4. OneChain' /\ VettedBacked'
      BY <1>0, <2>1, <3>2 DEF OneChain, VettedBacked
    <3>5. OfTheCandidate'
      BY <1>0, <1>v, <2>1, <3>2 DEF OfTheCandidate
    <3>6. BannerIsThisCandidates'
      BY <1>0, <2>1, <2>4, <3>1, <3>2 DEF BannerIsThisCandidates, Registered
    <3> QED
      BY <2>2, <3>3, <3>4, <3>5, <3>6 DEF WInv
  <2> QED
    BY <2>3, <2>4
<1>7. CASE PressVet
  <2> DEFINE c == [id |-> vettings + 1, applicant |-> desk.registered, answer |-> "none", heard |-> TRUE]
  <2>1. vettings' \in 1..MaxVettings /\ vettings' = vettings + 1
    BY <1>0, <1>7, WalkInBound DEF PressVet
  <2>2. desk.registered \in Applicant
    BY <1>0, <1>7 DEF PressVet, DeskPage
  <2>3. c \in Vetting /\ c.answer = "none" /\ c.applicant = desk.registered
    BY <2>1, <2>2 DEF Vetting
  <2>4. vetCalls' = vetCalls \cup {c} /\ UNCHANGED <<chains, application, deskHurried>>
    BY <1>7 DEF PressVet
  <2>5. /\ desk' \in DeskPage /\ desk'.registered = desk.registered /\ desk'.vetted = desk.vetted
        /\ desk'.agePending = FALSE
    <3>1. desk' = [desk EXCEPT !.agePending = FALSE, !.vet = "pending", !.latest = vettings']
      BY <1>7, <2>1 DEF PressVet
    <3>2. vettings' \in 0..MaxVettings /\ "pending" \in Status
      BY <2>1, WalkInBound DEF Status
    <3> QED
      BY <1>0, <3>1, <3>2 DEF DeskPage
  <2> HIDE DEF c
  <2>6. WalkInTypeOK'
    BY <1>0, <2>1, <2>3, <2>4, <2>5 DEF WalkInTypeOK
  <2>7. Registered' /\ OneChain'
    BY <1>0, <2>4, <2>5 DEF Registered, OneChain
  <2>8. VettedBacked' /\ OfTheCandidate'
    BY <1>0, <2>3, <2>4, <2>5 DEF VettedBacked, OfTheCandidate
  <2>9. BannerIsThisCandidates'
    BY <1>0, <2>4, <2>5 DEF BannerIsThisCandidates
  <2> QED
    BY <2>6, <2>7, <2>8, <2>9 DEF WInv
<1>8. ASSUME NEW c \in vetCalls, HearVetting(c) PROVE WInv'
  <2>1. c.heard /\ c.answer # "none" /\ vetCalls' = vetCalls \ {c} /\ UNCHANGED <<chains, vettings, application, deskHurried>>
    BY <1>8 DEF HearVetting
  <2>2. (desk.vetted \/ c.answer = "VETTED") \in BOOLEAN /\ (desk.agePending \/ c.answer = "AGE_PENDING") \in BOOLEAN
    BY Zenon
  <2>3. /\ desk' \in DeskPage /\ desk'.registered = desk.registered
        /\ desk'.vetted = (desk.vetted \/ c.answer = "VETTED")
        /\ desk'.agePending = (desk.agePending \/ c.answer = "AGE_PENDING")
    BY <1>0, <1>8, <2>2 DEF HearVetting, AfterVetting, DeskPage, Status
  <2>4. /\ desk'.vetted => desk.vetted \/ c.answer = "VETTED"
        /\ desk'.agePending => desk.agePending \/ c.answer = "AGE_PENDING"
    BY <2>3, Zenon
  <2>5. WalkInTypeOK'
    BY <1>0, <2>1, <2>3 DEF WalkInTypeOK
  <2>6. Registered' /\ OneChain' /\ VettedBacked' /\ OfTheCandidate'
    BY <1>0, <2>1, <2>3 DEF Registered, OneChain, VettedBacked, OfTheCandidate
  <2>7. ~deskHurried => c.applicant = desk.registered /\ desk.registered # Nobody
    BY <1>0, <1>v, <2>1 DEF OfTheCandidate
  <2>8. BannerIsThisCandidates'
    BY <1>0, <2>1, <2>3, <2>4, <2>7 DEF BannerIsThisCandidates, VettedBacked
  <2> QED
    BY <2>5, <2>6, <2>8 DEF WInv
<1>9. CASE PressNextCandidate
  <2>1. desk' = OpenDesk /\ UNCHANGED <<chains, vetCalls, vettings, application>>
    BY <1>9 DEF PressNextCandidate, Reset
  <2>2. deskHurried' = (\E c \in vetCalls : c.heard)
    BY <1>9 DEF PressNextCandidate
  <2>3. deskHurried' \in BOOLEAN /\ (~deskHurried' => \A c \in vetCalls : ~c.heard)
    BY <2>2, Zenon
  <2>4. WalkInTypeOK'
    BY <1>0, <2>1, <2>3, OpenDeskIs DEF WalkInTypeOK
  <2>5. Registered' /\ OneChain' /\ VettedBacked' /\ OfTheCandidate'
    BY <1>0, <2>1, <2>3, OpenDeskIs DEF Registered, OneChain, VettedBacked, OfTheCandidate
  <2>6. BannerIsThisCandidates'
    BY <2>1, OpenDeskIs DEF BannerIsThisCandidates
  <2> QED
    BY <2>4, <2>5, <2>6 DEF WInv
<1>10. ASSUME NEW c \in vetCalls, DecideVetting(c) PROVE WInv'
  <2>1. PICK a \in {"VETTED", "AGE_PENDING", "FAULT"} :
          /\ a = "VETTED" => application[c.applicant] = "registered"
          /\ application' = IF a = "VETTED" THEN [application EXCEPT ![c.applicant] = "vetted"] ELSE application
          /\ vetCalls' = (vetCalls \ {c}) \cup IF c.heard THEN {[c EXCEPT !.answer = a]} ELSE {}
    BY <1>10 DEF DecideVetting
  <2>2. UNCHANGED <<desk, chains, vettings, deskHurried>>
    BY <1>10 DEF DecideVetting
  <2> DEFINE d == [c EXCEPT !.answer = a]
  <2>3. d \in Vetting /\ d.answer = a /\ d.applicant = c.applicant /\ d.heard = c.heard
    BY <1>v DEF Vetting
  <2>4. vetCalls' \subseteq (vetCalls \ {c}) \cup {d}
    BY <2>1
  <2> HIDE DEF d
  <2>5. /\ application' \in [Applicant -> {"none", "registered", "vetted"}]
        /\ \A b \in Applicant : (application[b] # "none" => application'[b] # "none")
                             /\ (application[b] = "vetted" => application'[b] = "vetted")
        /\ a = "VETTED" => application'[c.applicant] = "vetted"
    BY <1>0, <1>v, <2>1
  <2>6. vetCalls' \subseteq Vetting
    BY <1>0, <2>3, <2>4
  <2>7. VettedBacked'
    BY <1>0, <1>v, <2>3, <2>4, <2>5 DEF VettedBacked
  <2>8. OfTheCandidate'
    BY <1>0, <2>2, <2>3, <2>4 DEF OfTheCandidate
  <2>9. Registered' /\ OneChain'
    BY <1>0, <1>c, <2>2, <2>5 DEF Registered, OneChain
  <2> QED
    BY <1>0, <1>s, <2>2, <2>5, <2>6, <2>7, <2>8, <2>9
<1>11. ASSUME NEW c \in vetCalls, VettingFails(c) PROVE WInv'
  <2> DEFINE d == [c EXCEPT !.answer = "FAULT"]
             e == [c EXCEPT !.heard = FALSE]
  <2>1. d \in Vetting /\ d.answer = "FAULT" /\ d.applicant = c.applicant /\ d.heard = c.heard
    BY <1>v DEF Vetting
  <2>2. e \in Vetting /\ e.answer = c.answer /\ e.applicant = c.applicant /\ e.heard = FALSE
    BY <1>v DEF Vetting
  <2>3. /\ vetCalls' \subseteq (vetCalls \ {c}) \cup {d, e}
        /\ UNCHANGED <<desk, chains, vettings, application, deskHurried>>
    BY <1>11 DEF VettingFails
  <2> HIDE DEF d, e
  <2>4. vetCalls' \subseteq Vetting
    BY <1>0, <2>1, <2>2, <2>3
  <2>5. VettedBacked'
    BY <1>0, <2>1, <2>2, <2>3 DEF VettedBacked
  <2>6. OfTheCandidate'
    BY <1>0, <2>1, <2>2, <2>3 DEF OfTheCandidate
  <2>7. Registered' /\ OneChain'
    BY <1>0, <2>3 DEF Registered, OneChain
  <2> QED
    BY <1>0, <1>s, <2>3, <2>4, <2>5, <2>6, <2>7
<1>12. CASE LeaveDesk
  <2>1. /\ desk' = OpenDesk /\ deskHurried' = FALSE /\ UNCHANGED <<vettings, application>>
        /\ chains' = {[c EXCEPT !.heard = FALSE] : c \in {d \in chains : d.at \in {"verify", "register"}}}
        /\ vetCalls' = {[c EXCEPT !.heard = FALSE] : c \in {d \in vetCalls : d.answer = "none"}}
    BY <1>12 DEF LeaveDesk
  <2>2. \A c \in chains' : c \in Chain /\ c.heard = FALSE /\ c.at # "registered"
    <3>1. \A d \in chains : [d EXCEPT !.heard = FALSE] \in Chain /\ [d EXCEPT !.heard = FALSE].heard = FALSE
                            /\ [d EXCEPT !.heard = FALSE].at = d.at
      BY <1>c DEF Chain
    <3> QED
      BY <2>1, <3>1
  <2>3. \A c \in vetCalls' : c \in Vetting /\ c.heard = FALSE /\ c.answer = "none"
    <3>1. \A d \in vetCalls : [d EXCEPT !.heard = FALSE] \in Vetting /\ [d EXCEPT !.heard = FALSE].heard = FALSE
                            /\ [d EXCEPT !.heard = FALSE].answer = d.answer
      BY <1>v DEF Vetting
    <3> QED
      BY <2>1, <3>1
  <2>4. deskHurried' \in BOOLEAN
    BY <2>1, Zenon
  <2>5. WalkInTypeOK'
    BY <1>0, <2>1, <2>2, <2>3, <2>4, OpenDeskIs DEF WalkInTypeOK
  <2>6. Registered' /\ OneChain' /\ VettedBacked' /\ OfTheCandidate'
    BY <2>2, <2>3 DEF Registered, OneChain, VettedBacked, OfTheCandidate
  <2>7. BannerIsThisCandidates'
    BY <2>1, OpenDeskIs DEF BannerIsThisCandidates
  <2> QED
    BY <2>5, <2>6, <2>7 DEF WInv
<1>13. CASE UNCHANGED walkInVars
  <2>1. desk' = desk /\ UNCHANGED <<chains, vetCalls, vettings, application, deskHurried>>
    BY <1>13 DEF walkInVars
  <2>2. Registered' /\ OneChain'
    BY <1>0, <2>1 DEF Registered, OneChain
  <2> QED
    BY <1>0, <1>a, <2>1, <2>2
<1> QED
  BY <1>1, <1>2, <1>3, <1>4, <1>5, <1>6, <1>7, <1>8, <1>9, <1>10, <1>11, <1>12, <1>13
     DEF WalkInNext, DeskOfficer, DeskService

(* The code, "vetted" and "age pending" under a candidate are about that   *)
(* candidate (walk-in.tsx, handleSubmit and handleVet), if the next one is *)
(* not called while a vetting is due.                                      *)
THEOREM BannersAreTheirs == WalkInSpec => []BannerIsThisCandidates
<1>1. WInv => BannerIsThisCandidates
  BY DEF WInv
<1> QED
  BY <1>1, WInvInit, WalkInStep, PTL DEF WalkInSpec, WalkInNext

-----------------------------------------------------------------------------
(* Setting up: what a tab holds, and what an enrolment due was asked for.  *)

Identity == [key : 0..MaxIdentities, agency : Agency \cup {NoAgency}]
Runtime == [status : {"closed", "making", "ready"}, identity : Identity]
Setup == [open : BOOLEAN, busy : {"none", "venue", "enrol"}, readiness : {"unknown", "ready", "blocked"}]
Ask == [ask : 1..MaxAsks, tab : Tab, key : 0..MaxIdentities, heard : BOOLEAN,
        answer : Agency \cup {"none", "refused"}]

TabletTyped ==
  /\ kept \in Identity /\ made \in 0..MaxIdentities /\ runtime \in [Tab -> Runtime] /\ setup \in [Tab -> Setup]
  /\ rosters \subseteq Tab /\ asked \in 0..MaxAsks /\ enrolments \subseteq Ask
  /\ vouched \subseteq Identity /\ revoked \subseteq 0..MaxIdentities

(* No identity is marked as enrolled that the service did not enrol.       *)
Vouched ==
  /\ kept.agency # NoAgency => kept \in vouched
  /\ \A t \in Tab : Mine(t).agency # NoAgency => Mine(t) \in vouched
  /\ \A e \in enrolments : e.answer \in Agency => [key |-> e.key, agency |-> e.answer] \in vouched

(* A page is open, and an answer awaited, in a tab that holds the key      *)
(* which was sent; and "ready" is of what that tab holds.                  *)
Held ==
  /\ \A t \in Tab : OnPage(t) => Ready(t)
  /\ \A e \in enrolments : e.answer \in Agency => e.answer = officer
  /\ \A e \in enrolments : e.heard => Ready(e.tab) /\ Mine(e.tab).key = e.key
  /\ \A t \in Tab : setup[t].readiness = "ready" => OnPage(t) /\ Mine(t).agency = officer /\ day

(* A tab makes a key only while there is none, unless two did at once.     *)
OneKey ==
  /\ kept.key = 0 => kept = NoIdentity
  /\ \A t \in Tab : Ready(t) => Mine(t).key # 0 /\ kept.key # 0
  /\ ~raced => \A t, u \in Tab : runtime[t].status = "making" =>
                 kept = NoIdentity /\ (runtime[u].status = "making" => t = u)

NInv == TabletTyped /\ Vouched /\ Held /\ OneKey /\ IdentityIsShared

LEMMA TabletIs ==
  /\ NoIdentity \in Identity /\ NoIdentity.key = 0 /\ NoIdentity.agency = NoAgency
  /\ Closed \in Runtime /\ Closed.status = "closed" /\ Closed.identity = NoIdentity
  /\ NoSetup \in Setup /\ ~NoSetup.open /\ NoSetup.readiness = "unknown"
  /\ officer \in Agency /\ NoAgency \notin Agency /\ {"none", "refused", "lost"} \cap Agency = {}
<1>1. NoIdentity \in Identity /\ NoIdentity.key = 0 /\ NoIdentity.agency = NoAgency
  BY TabletBounds DEF NoIdentity, Identity
<1>2. Closed \in Runtime /\ Closed.status = "closed" /\ Closed.identity = NoIdentity
  BY <1>1 DEF Closed, Runtime
<1>3. NoSetup \in Setup /\ ~NoSetup.open /\ NoSetup.readiness = "unknown"
  BY DEF NoSetup, Setup
<1> QED
  BY <1>1, <1>2, <1>3, TabletNames

LEMMA NInvInit == EnrolmentInit => NInv
<1> SUFFICES ASSUME EnrolmentInit PROVE NInv
  OBVIOUS
<1>1. PICK a \in Agency \cup {NoAgency} :
        \/ kept = NoIdentity /\ a = NoAgency
        \/ kept = [key |-> 1, agency |-> a]
  BY DEF EnrolmentInit
<1>2. kept \in Identity /\ (kept.key = 0 => kept = NoIdentity)
  BY <1>1, TabletIs, TabletBounds DEF Identity
<1>3. TabletTyped
  <2>1. runtime \in [Tab -> Runtime] /\ setup \in [Tab -> Setup]
    BY TabletIs DEF EnrolmentInit
  <2>2. made \in 0..MaxIdentities /\ vouched \subseteq Identity
    BY <1>2 DEF EnrolmentInit, Identity
  <2> QED
    BY <1>2, <2>1, <2>2, TabletBounds DEF EnrolmentInit, TabletTyped
<1>4. \A t \in Tab : runtime[t] = Closed /\ setup[t] = NoSetup
  BY DEF EnrolmentInit
<1>5. Vouched /\ Held
  BY <1>4, TabletIs DEF EnrolmentInit, Vouched, Held, Mine, OnPage
<1>6. OneKey /\ IdentityIsShared
  BY <1>2, <1>4, TabletIs DEF OneKey, IdentityIsShared, Ready, Mine
<1> QED
  BY <1>3, <1>5, <1>6 DEF NInv

(* The page changes, and nothing that a tab holds.                         *)
LEMMA PageStep ==
  ASSUME NInv, setup' \in [Tab -> Setup], rosters' \subseteq Tab, day' \in {day, TRUE},
         UNCHANGED <<kept, runtime, made, enrolments, asked, vouched, revoked, raced>>,
         \A t \in Tab : /\ setup'[t].open => Ready(t)
                        /\ setup'[t].readiness = "ready" => setup'[t].open /\ Mine(t).agency = officer /\ day'
  PROVE  NInv'
<1>1. TabletTyped' /\ Vouched' /\ OneKey' /\ IdentityIsShared'
  BY DEF NInv, TabletTyped, Vouched, OneKey, IdentityIsShared, Ready, Mine
<1>2. Held'
  BY DEF NInv, Held, OnPage, Ready, Mine
<1> QED
  BY <1>1, <1>2 DEF NInv

(* A tab without an identity gets one, gives up, or begins to make one.    *)
LEMMA TabStep ==
  ASSUME NInv, NEW t \in Tab, ~Ready(t), NEW r \in Runtime, runtime' = [runtime EXCEPT ![t] = r],
         r.identity.agency # NoAgency => r.identity \in vouched,
         kept' \in Identity, kept'.agency # NoAgency => kept' \in vouched, made' \in 0..MaxIdentities,
         UNCHANGED <<setup, rosters, enrolments, asked, vouched, revoked, day>>
  PROVE  TabletTyped' /\ Vouched' /\ Held'
<1>1. /\ runtime \in [Tab -> Runtime] /\ runtime'[t] = r
      /\ \A u \in Tab : u # t => runtime'[u] = runtime[u]
  BY DEF NInv, TabletTyped
<1>2. TabletTyped'
  BY <1>1 DEF NInv, TabletTyped
<1>3. Vouched'
  <2>1. ASSUME NEW u \in Tab, Mine(u)'.agency # NoAgency PROVE Mine(u)' \in vouched
    BY <1>1, <2>1 DEF NInv, Vouched, Mine
  <2> QED
    BY <2>1 DEF NInv, Vouched
<1>4. Held'
  <2>1. ~OnPage(t) /\ setup[t].readiness # "ready" /\ \A e \in enrolments : e.heard => e.tab # t
    BY DEF NInv, Held
  <2>2. \A e \in enrolments : e.tab \in Tab
    BY DEF NInv, TabletTyped, Ask
  <2> QED
    BY <1>1, <2>1, <2>2 DEF NInv, Held, OnPage, Ready, Mine
<1> QED
  BY <1>2, <1>3, <1>4

LEMMA OpenRuntimeStep == ASSUME NInv, NEW t \in Tab, OpenRuntime(t) PROVE NInv'
<1>1. PICK r : r = IF kept # NoIdentity THEN [status |-> "ready", identity |-> kept]
                   ELSE [status |-> "making", identity |-> NoIdentity]
  OBVIOUS
<1>2. /\ runtime \in [Tab -> Runtime] /\ kept \in Identity /\ made \in 0..MaxIdentities
      /\ kept.agency # NoAgency => kept \in vouched
  BY DEF NInv, TabletTyped, Vouched
<1>3. /\ r \in Runtime /\ r.identity \in {kept, NoIdentity}
      /\ r.status = IF kept # NoIdentity THEN "ready" ELSE "making"
      /\ kept # NoIdentity => r.identity = kept
  BY <1>1, <1>2, TabletIs DEF Runtime
<1>4. runtime' = [runtime EXCEPT ![t] = r] /\ ~Ready(t)
  BY <1>1 DEF OpenRuntime, Ready
<1>5. TabletTyped' /\ Vouched' /\ Held'
  BY <1>2, <1>3, <1>4, TabletIs, TabStep DEF OpenRuntime, officeVars
<1>6. /\ runtime'[t] = r /\ \A u \in Tab : u # t => runtime'[u] = runtime[u]
      /\ kept' = kept /\ (~raced' => ~raced /\ (kept = NoIdentity => \A u \in Tab : runtime[u].status # "making"))
  BY <1>2, <1>4 DEF OpenRuntime
<1>7. OneKey'
  <2>1. ASSUME NEW u \in Tab, Ready(u)' PROVE Mine(u)'.key # 0 /\ kept'.key # 0
    BY <1>3, <1>6, <2>1 DEF NInv, OneKey, Ready, Mine
  <2>2. ASSUME ~raced', NEW u \in Tab, NEW v \in Tab, runtime'[u].status = "making"
        PROVE  kept' = NoIdentity /\ (runtime'[v].status = "making" => u = v)
    BY <1>3, <1>6, <2>2 DEF NInv, OneKey
  <2> QED
    BY <1>6, <2>1, <2>2 DEF NInv, OneKey
<1>8. IdentityIsShared'
  BY <1>3, <1>6 DEF NInv, IdentityIsShared, Ready, Mine
<1> QED
  BY <1>5, <1>7, <1>8 DEF NInv

LEMMA StoreIdentityStep == ASSUME NInv, NEW t \in Tab, StoreIdentity(t) PROVE NInv'
<1>1. PICK k : k = [key |-> made + 1, agency |-> NoAgency]
  OBVIOUS
<1>2. PICK r : r = [status |-> "ready", identity |-> k]
  OBVIOUS
<1>3. runtime \in [Tab -> Runtime] /\ made \in 0..MaxIdentities /\ made < MaxIdentities
  BY DEF NInv, TabletTyped, StoreIdentity
<1>4. k \in Identity /\ k.agency = NoAgency /\ k.key # 0 /\ made + 1 \in 0..MaxIdentities
  BY <1>1, <1>3, TabletBounds DEF Identity
<1>5. r \in Runtime /\ r.identity = k /\ r.status = "ready"
  BY <1>2, <1>4 DEF Runtime
<1>6. kept' = k /\ made' = made + 1 /\ runtime' = [runtime EXCEPT ![t] = r]
  BY <1>1, <1>2 DEF StoreIdentity
<1>7. TabletTyped' /\ Vouched' /\ Held'
  BY <1>4, <1>5, <1>6, TabStep DEF StoreIdentity, Ready, officeVars
<1>8. /\ runtime'[t] = r /\ \A u \in Tab : u # t => runtime'[u] = runtime[u]
      /\ raced' = raced /\ runtime[t].status = "making"
  BY <1>3, <1>6 DEF StoreIdentity
<1>9. ASSUME ~raced, NEW u \in Tab, u # t PROVE ~Ready(u) /\ runtime[u].status # "making"
  BY <1>8, <1>9, TabletIs DEF NInv, OneKey
<1>10. OneKey'
  <2>1. ASSUME NEW u \in Tab, Ready(u)' PROVE Mine(u)'.key # 0 /\ kept'.key # 0
    BY <1>4, <1>5, <1>6, <1>8, <2>1 DEF NInv, OneKey, Ready, Mine
  <2>2. ASSUME ~raced', NEW u \in Tab PROVE runtime'[u].status # "making"
    BY <1>5, <1>8, <1>9, <2>2
  <2> QED
    BY <1>4, <1>6, <2>1, <2>2 DEF OneKey
<1>11. IdentityIsShared'
  BY <1>5, <1>6, <1>8, <1>9 DEF IdentityIsShared, Ready, Mine
<1> QED
  BY <1>7, <1>10, <1>11 DEF NInv

LEMMA FailToOpenStep == ASSUME NInv, NEW t \in Tab, FailToOpen(t) PROVE NInv'
<1>1. PICK r : r = Closed
  OBVIOUS
<1>2. /\ r \in Runtime /\ r.identity.agency = NoAgency /\ r.status = "closed"
      /\ runtime' = [runtime EXCEPT ![t] = r] /\ runtime \in [Tab -> Runtime]
      /\ kept \in Identity /\ made \in 0..MaxIdentities /\ (kept.agency # NoAgency => kept \in vouched)
  BY <1>1, TabletIs DEF FailToOpen, NInv, TabletTyped, Vouched
<1>3. TabletTyped' /\ Vouched' /\ Held'
  BY <1>2, TabStep DEF FailToOpen, Ready, officeVars
<1>4. runtime'[t] = r /\ \A u \in Tab : u # t => runtime'[u] = runtime[u]
  BY <1>2
<1>5. OneKey' /\ IdentityIsShared'
  BY <1>2, <1>4 DEF FailToOpen, NInv, OneKey, IdentityIsShared, Ready, Mine
<1> QED
  BY <1>3, <1>5 DEF NInv

LEMMA CloseTabStep == ASSUME NInv, NEW t \in Tab, CloseTab(t) PROVE NInv'
<1>1. PICK r : r = Closed
  OBVIOUS
<1>2. PICK n : n = NoSetup
  OBVIOUS
<1>3. /\ r \in Runtime /\ r.identity = NoIdentity /\ r.status = "closed" /\ n \in Setup /\ ~n.open /\ n.readiness = "unknown"
      /\ runtime' = [runtime EXCEPT ![t] = r] /\ setup' = [setup EXCEPT ![t] = n]
      /\ runtime \in [Tab -> Runtime] /\ setup \in [Tab -> Setup] /\ enrolments \subseteq Ask
  BY <1>1, <1>2, TabletIs DEF CloseTab, NInv, TabletTyped
<1>4. /\ runtime'[t] = r /\ \A u \in Tab : u # t => runtime'[u] = runtime[u]
      /\ setup'[t] = n /\ \A u \in Tab : u # t => setup'[u] = setup[u]
  BY <1>3
<1>5. \A e \in enrolments' : /\ e \in Ask /\ (e.heard => e.tab # t /\ e \in enrolments)
                             /\ \E d \in enrolments : d.key = e.key /\ d.answer = e.answer
  <2>1. ASSUME NEW d \in enrolments, d.tab = t
        PROVE  /\ [d EXCEPT !.heard = FALSE] \in Ask /\ ~[d EXCEPT !.heard = FALSE].heard
               /\ [d EXCEPT !.heard = FALSE].key = d.key /\ [d EXCEPT !.heard = FALSE].answer = d.answer
    BY <1>3, <2>1 DEF Ask
  <2>2. enrolments' = {IF e.tab = t THEN [e EXCEPT !.heard = FALSE] ELSE e : e \in enrolments}
    BY DEF CloseTab
  <2> QED
    BY <1>3, <2>1, <2>2
<1>6. UNCHANGED <<kept, day, made, asked, vouched, revoked, raced>> /\ rosters' \subseteq rosters
  BY DEF CloseTab, officeVars
<1>7. TabletTyped'
  BY <1>3, <1>5, <1>6 DEF NInv, TabletTyped
<1>8. Vouched'
  BY <1>3, <1>4, <1>5, <1>6, TabletIs DEF NInv, Vouched, Mine
<1>9. Held'
  <2>1. \A e \in enrolments' : e.answer \in Agency => e.answer = officer
    BY <1>5 DEF NInv, Held
  <2>2. \A e \in enrolments' : e.heard => Ready(e.tab)' /\ Mine(e.tab)'.key = e.key
    BY <1>3, <1>4, <1>5 DEF NInv, Held, Ready, Mine, Ask
  <2> QED
    BY <1>3, <1>4, <1>6, <2>1, <2>2 DEF NInv, Held, OnPage, Ready, Mine
<1>10. OneKey' /\ IdentityIsShared'
  BY <1>3, <1>4, <1>6 DEF NInv, OneKey, IdentityIsShared, Ready, Mine
<1> QED
  BY <1>7, <1>8, <1>9, <1>10 DEF NInv

LEMMA SetupStep ==
  ASSUME NInv, NEW t \in Tab,
         OpenSetup(t) \/ LeaveSetup(t) \/ Refresh(t) \/ ConfirmVenueDay(t) \/ HearRoster(t)
  PROVE  NInv'
<1>1. /\ setup \in [Tab -> Setup] /\ rosters \subseteq Tab
      /\ \A u \in Tab : /\ setup[u].open => Ready(u)
                        /\ setup[u].readiness = "ready" => setup[u].open /\ Mine(u).agency = officer /\ day
  BY DEF NInv, TabletTyped, Held, OnPage
<1>2. PICK n \in Setup : n = NoSetup
  BY TabletIs
<1>3. ASSUME NEW s \in Setup, setup' = [setup EXCEPT ![t] = s], s.open => Ready(t),
             s.readiness = "ready" => s.open /\ Mine(t).agency = officer /\ day', day' \in {day, TRUE}
      PROVE  /\ setup' \in [Tab -> Setup]
             /\ \A u \in Tab : /\ setup'[u].open => Ready(u)
                               /\ setup'[u].readiness = "ready" => setup'[u].open /\ Mine(u).agency = officer /\ day'
  <2>1. setup' \in [Tab -> Setup] /\ setup'[t] = s /\ \A u \in Tab : u # t => setup'[u] = setup[u]
    BY <1>1, <1>3
  <2>2. \A u \in Tab : setup'[u].open => Ready(u)
    BY <1>1, <1>3, <2>1
  <2>3. day => day'
    BY <1>3
  <2>4. ASSUME NEW u \in Tab, setup'[u].readiness = "ready"
        PROVE  setup'[u].open /\ Mine(u).agency = officer /\ day'
    BY <1>1, <1>3, <2>1, <2>3, <2>4
  <2> QED
    BY <2>1, <2>2, <2>4
<1>4. CASE OpenSetup(t)
  <2>1. PICK s : s = [n EXCEPT !.open = TRUE]
    OBVIOUS
  <2>2. s \in Setup /\ s.readiness # "ready" /\ setup' = [setup EXCEPT ![t] = s] /\ Ready(t)
    BY <1>2, <1>4, <2>1, TabletIs DEF OpenSetup, Setup
  <2> QED
    BY <1>1, <1>3, <1>4, <2>2, PageStep DEF OpenSetup, officeVars
<1>5. CASE LeaveSetup(t)
  <2>1. ~n.open /\ n.readiness # "ready" /\ setup' = [setup EXCEPT ![t] = n]
    BY <1>2, <1>5, TabletIs DEF LeaveSetup
  <2> QED
    BY <1>1, <1>3, <1>5, <2>1, PageStep DEF LeaveSetup, officeVars
<1>6. CASE Refresh(t)
  <2>1. PICK ready \in {FALSE, Enrolled(Mine(t)) /\ day} :
          setup' = [setup EXCEPT ![t].readiness = IF ready THEN "ready" ELSE "blocked"]
    BY <1>6 DEF Refresh
  <2>2. PICK s : s = [setup[t] EXCEPT !.readiness = IF ready THEN "ready" ELSE "blocked"]
    OBVIOUS
  <2>3. s \in Setup /\ s.open = setup[t].open /\ (s.readiness = "ready" => ready)
    BY <1>1, <2>2 DEF Setup
  <2>4. setup' = [setup EXCEPT ![t] = s] /\ setup[t].open
    BY <1>1, <1>6, <2>1, <2>2 DEF Refresh, OnPage
  <2>5. ready => Mine(t).agency = officer /\ day
    BY <2>1 DEF Enrolled
  <2> QED
    BY <1>1, <1>3, <1>6, <2>3, <2>4, <2>5, PageStep DEF Refresh, officeVars
<1>7. CASE ConfirmVenueDay(t)
  <2>1. PICK s : s = [setup[t] EXCEPT !.busy = "venue"]
    OBVIOUS
  <2>2. s \in Setup /\ s.open = setup[t].open /\ s.readiness = setup[t].readiness /\ setup' = [setup EXCEPT ![t] = s]
    BY <1>1, <1>7, <2>1 DEF ConfirmVenueDay, Setup
  <2>3. rosters' \subseteq Tab
    BY <1>1, <1>7 DEF ConfirmVenueDay
  <2> QED
    BY <1>1, <1>3, <1>7, <2>2, <2>3, PageStep DEF ConfirmVenueDay, officeVars
<1>8. CASE HearRoster(t)
  <2>1. PICK s : s = [setup[t] EXCEPT !.busy = "none"]
    OBVIOUS
  <2>2. s \in Setup /\ s.open = setup[t].open /\ s.readiness = setup[t].readiness
    BY <1>1, <2>1 DEF Setup
  <2>3. day' \in {day, TRUE} /\ rosters' \subseteq Tab
    BY <1>1, <1>8 DEF HearRoster
  <2>4. PICK z \in Setup : z = IF OnPage(t) THEN s ELSE setup[t]
    BY <1>1, <2>2
  <2>5. setup' = [setup EXCEPT ![t] = z] /\ z.open = setup[t].open /\ z.readiness = setup[t].readiness
    BY <1>1, <1>8, <2>1, <2>2, <2>4 DEF HearRoster
  <2>6. z.open => Ready(t)
    BY <1>1, <2>5
  <2>7. z.readiness = "ready" => z.open /\ Mine(t).agency = officer /\ day'
    <3>1. day => day'
      BY <2>3, Zenon
    <3> QED
      BY <1>1, <2>5, <3>1
  <2>8. /\ setup' \in [Tab -> Setup]
        /\ \A u \in Tab : /\ setup'[u].open => Ready(u)
                          /\ setup'[u].readiness = "ready" => setup'[u].open /\ Mine(u).agency = officer /\ day'
    BY <1>3, <2>3, <2>5, <2>6, <2>7
  <2>9. UNCHANGED <<kept, runtime, made, enrolments, asked, vouched, revoked, raced>>
    BY <1>8 DEF HearRoster, officeVars
  <2> QED
    BY <2>3, <2>8, <2>9, PageStep
<1> QED
  BY <1>4, <1>5, <1>6, <1>7, <1>8

LEMMA PressEnrolStep == ASSUME NInv, NEW t \in Tab, PressEnrol(t) PROVE NInv'
<1>1. /\ setup \in [Tab -> Setup] /\ runtime \in [Tab -> Runtime] /\ asked + 1 \in 1..MaxAsks
      /\ enrolments \subseteq Ask /\ OnPage(t) /\ Ready(t)
  BY TabletBounds DEF NInv, TabletTyped, Held, PressEnrol
<1>2. PICK e : e = [ask |-> asked + 1, tab |-> t, key |-> Mine(t).key, heard |-> TRUE, answer |-> "none"]
  OBVIOUS
<1>3. /\ e \in Ask /\ e.tab = t /\ e.key = Mine(t).key /\ e.answer = "none"
      /\ enrolments' = enrolments \cup {e}
  <2>1. Mine(t).key \in 0..MaxIdentities
    BY <1>1 DEF Mine, Runtime, Identity
  <2> QED
    BY <1>1, <1>2, <2>1 DEF PressEnrol, Ask
<1>4. PICK s : s = [setup[t] EXCEPT !.busy = "enrol"]
  OBVIOUS
<1>5. /\ s \in Setup /\ s.open = setup[t].open /\ s.readiness = setup[t].readiness
      /\ setup' = [setup EXCEPT ![t] = s]
  BY <1>1, <1>4 DEF PressEnrol, Setup
<1>6. UNCHANGED <<kept, day, runtime, made, rosters, vouched, revoked, raced>> /\ asked' = asked + 1
  BY DEF PressEnrol, officeVars
<1>7. TabletTyped'
  <2>1. asked' \in 0..MaxAsks
    BY <1>1, <1>6, TabletBounds
  <2> QED
    BY <1>1, <1>3, <1>5, <1>6, <2>1 DEF NInv, TabletTyped
<1>8. Vouched'
  BY <1>3, <1>6, TabletIs DEF NInv, Vouched, Mine
<1>9. Held'
  <2>1. \A u \in Tab : setup'[u].open = setup[u].open /\ setup'[u].readiness = setup[u].readiness
    BY <1>1, <1>5
  <2> QED
    BY <1>1, <1>3, <1>6, <2>1, TabletIs DEF NInv, Held, OnPage, Ready, Mine
<1>10. OneKey' /\ IdentityIsShared'
  BY <1>6 DEF NInv, OneKey, IdentityIsShared, Ready, Mine
<1> QED
  BY <1>7, <1>8, <1>9, <1>10 DEF NInv

(* What comes after an enrolment, in the tab that waits for it.            *)
LEMMA AfterEnrolmentStep ==
  ASSUME NInv, NEW e \in enrolments, NEW answer, e.heard, AfterEnrolment(e, answer),
         answer \in Agency => answer = e.answer,
         \A d \in enrolments' : d \in Ask /\ (d.answer \in Agency => d \in enrolments) /\ (d.heard => d \in enrolments),
         UNCHANGED <<day, made, rosters, asked, vouched, revoked, raced>>
  PROVE  NInv'
<1>1. /\ setup \in [Tab -> Setup] /\ runtime \in [Tab -> Runtime] /\ kept \in Identity
      /\ e \in Ask /\ e.tab \in Tab /\ Ready(e.tab) /\ Mine(e.tab).key = e.key
  BY DEF NInv, TabletTyped, Held, Ask
<1>2. PICK t \in Tab : t = e.tab
  BY <1>1
<1>3. /\ setup' \in [Tab -> Setup]
      /\ \A u \in Tab : setup'[u].open = setup[u].open /\ setup'[u].readiness = setup[u].readiness
  <2>1. PICK s : s = [setup[t] EXCEPT !.busy = "none"]
    OBVIOUS
  <2>2. s \in Setup /\ s.open = setup[t].open /\ s.readiness = setup[t].readiness
    BY <1>1, <2>1 DEF Setup
  <2>3. setup' = setup \/ setup' = [setup EXCEPT ![t] = s]
    BY <1>1, <1>2, <2>1 DEF AfterEnrolment
  <2> QED
    BY <1>1, <2>2, <2>3
<1>4. /\ \A d \in enrolments' : d.answer \in Agency => d.answer = officer /\ [key |-> d.key, agency |-> d.answer] \in vouched
      /\ enrolments' \subseteq Ask
  BY DEF NInv, Held, Vouched
<1>5. CASE answer \notin Agency
  <2>1. UNCHANGED <<runtime, kept>>
    BY <1>5 DEF AfterEnrolment
  <2>2. TabletTyped'
    BY <1>1, <1>3, <1>4, <2>1 DEF NInv, TabletTyped
  <2>3. Vouched' /\ OneKey' /\ IdentityIsShared'
    BY <1>4, <2>1 DEF NInv, Vouched, OneKey, IdentityIsShared, Ready, Mine
  <2>4. Held'
    BY <1>3, <1>4, <2>1 DEF NInv, Held, OnPage, Ready, Mine
  <2> QED
    BY <2>2, <2>3, <2>4 DEF NInv
<1>6. CASE answer \in Agency
  <2>1. answer = officer /\ [key |-> e.key, agency |-> officer] \in vouched
    BY <1>6 DEF NInv, Held, Vouched
  <2>2. PICK i : i = [key |-> e.key, agency |-> officer]
    OBVIOUS
  <2>3. i \in Identity /\ i \in vouched /\ i.key = e.key /\ i.agency = officer /\ i.key = Mine(t).key
    BY <1>1, <1>2, <2>1, <2>2, TabletIs DEF Identity, Ask
  <2>4. Mine(t) \in Identity /\ [Mine(t) EXCEPT !.agency = officer] = i
    BY <1>1, <2>2, <2>3 DEF Mine, Runtime, Identity
  <2>5. PICK r : r = [runtime[t] EXCEPT !.identity = i]
    OBVIOUS
  <2>6. r \in Runtime /\ r.identity = i /\ r.status = runtime[t].status
    BY <1>1, <2>3, <2>5 DEF Runtime
  <2>7. kept' = i /\ runtime' = [runtime EXCEPT ![t] = r]
    <3>1. kept' = [Mine(t) EXCEPT !.agency = officer] /\ runtime' = [runtime EXCEPT ![t].identity.agency = officer]
      BY <1>2, <1>6, <2>1 DEF AfterEnrolment, Acknowledge
    <3>2. [runtime EXCEPT ![t].identity.agency = officer] = [runtime EXCEPT ![t] = r]
      BY <1>1, <2>4, <2>5 DEF Mine, Runtime
    <3> QED
      BY <2>4, <3>1, <3>2
  <2>8. runtime'[t] = r /\ \A u \in Tab : u # t => runtime'[u] = runtime[u]
    BY <1>1, <2>7
  <2>9. TabletTyped'
    BY <1>1, <1>3, <1>4, <2>3, <2>6, <2>7 DEF NInv, TabletTyped
  <2>10. Vouched'
    BY <1>4, <2>3, <2>6, <2>7, <2>8 DEF NInv, Vouched, Mine
  <2>11. \A u \in Tab : Ready(u)' = Ready(u) /\ Mine(u)'.key = Mine(u).key /\ (Mine(u)'.agency # Mine(u).agency => Mine(u)'.agency = officer)
    BY <2>3, <2>6, <2>8 DEF Ready, Mine
  <2>12. Held'
    <3>1. \A d \in enrolments' : d.heard => d.tab \in Tab /\ Ready(d.tab)' /\ Mine(d.tab)'.key = d.key
      BY <2>11 DEF NInv, Held, Ask
    <3>2. \A u \in Tab : setup'[u].readiness = "ready" => setup'[u].open /\ Mine(u)'.agency = officer /\ day'
      BY <1>3, <2>11 DEF NInv, Held, OnPage
    <3>3. \A u \in Tab : OnPage(u)' => Ready(u)'
      BY <1>3, <2>11 DEF NInv, Held, OnPage
    <3> QED
      BY <1>4, <3>1, <3>2, <3>3 DEF Held, OnPage, Ready, Mine
  <2>13. kept.key # 0 /\ i.key # 0
    BY <1>1, <1>2, <2>3 DEF NInv, OneKey
  <2>14. ~raced => \A u \in Tab : runtime[u].status # "making"
    BY <2>13, TabletIs DEF NInv, OneKey
  <2>15. OneKey'
    <3>1. \A u \in Tab : runtime'[u].status = runtime[u].status
      BY <2>6, <2>8
    <3>2. \A u \in Tab : Ready(u)' => Mine(u)'.key # 0
      BY <2>11 DEF NInv, OneKey
    <3> QED
      BY <2>7, <2>13, <2>14, <3>1, <3>2 DEF OneKey, Ready, Mine
  <2>16. IdentityIsShared'
    <3>1. ~raced => kept.key = i.key
      BY <1>1, <1>2, <2>3 DEF NInv, IdentityIsShared
    <3> QED
      BY <2>7, <2>11, <3>1 DEF NInv, IdentityIsShared, Ready, Mine
  <2> QED
    BY <2>9, <2>10, <2>12, <2>15, <2>16 DEF NInv
<1> QED
  BY <1>5, <1>6

LEMMA HearEnrolmentStep == ASSUME NInv, NEW e \in enrolments, HearEnrolment(e) \/ LoseEnrolment(e) PROVE NInv'
<1>1. enrolments \subseteq Ask /\ e.heard
  BY DEF NInv, TabletTyped, HearEnrolment, LoseEnrolment
<1>2. CASE HearEnrolment(e)
  <2>1. \A d \in enrolments' : d \in Ask /\ d \in enrolments
    BY <1>1, <1>2 DEF HearEnrolment
  <2> QED
    BY <1>1, <1>2, <2>1, AfterEnrolmentStep DEF HearEnrolment, officeVars
<1>3. CASE LoseEnrolment(e)
  <2>1. PICK l : l = [e EXCEPT !.heard = FALSE]
    OBVIOUS
  <2>2. l \in Ask /\ ~l.heard /\ l.answer = e.answer
    BY <1>1, <2>1 DEF Ask
  <2>3. enrolments' \subseteq enrolments \cup {l} /\ (e.answer # "none" => enrolments' \subseteq enrolments)
    BY <1>3, <2>1 DEF LoseEnrolment
  <2>4. \A d \in enrolments' : d \in Ask /\ (d.answer \in Agency => d \in enrolments) /\ (d.heard => d \in enrolments)
    BY <1>1, <2>2, <2>3, TabletIs
  <2>5. AfterEnrolment(e, "lost") /\ "lost" \notin Agency
    BY <1>3, TabletIs DEF LoseEnrolment
  <2>6. UNCHANGED <<day, made, rosters, asked, vouched, revoked, raced>>
    BY <1>3 DEF LoseEnrolment, officeVars
  <2> QED
    BY <1>1, <2>4, <2>5, <2>6, AfterEnrolmentStep
<1> QED
  BY <1>2, <1>3

(* The office only adds to what it enrolled.                               *)
LEMMA OfficeStep ==
  ASSUME NInv, UNCHANGED <<tabletVars, rosters, asked, raced>>,
         vouched \subseteq vouched', vouched' \subseteq Identity, revoked' \subseteq 0..MaxIdentities,
         \A d \in enrolments' :
           /\ d \in Ask
           /\ d.heard => \E e \in enrolments : e.heard /\ e.tab = d.tab /\ e.key = d.key
           /\ d.answer \in Agency => d.answer = officer /\ [key |-> d.key, agency |-> d.answer] \in vouched'
  PROVE  NInv'
<1>1. UNCHANGED <<kept, day, runtime, setup, made>>
  BY DEF tabletVars
<1>2. TabletTyped' /\ Vouched'
  BY <1>1 DEF NInv, TabletTyped, Vouched, Mine
<1>3. Held'
  <2>1. ASSUME NEW d \in enrolments', d.heard
        PROVE  runtime[d.tab].status = "ready" /\ runtime[d.tab].identity.key = d.key
    <3>1. PICK e \in enrolments : e.heard /\ e.tab = d.tab /\ e.key = d.key
      BY <2>1
    <3>2. Ready(e.tab) /\ Mine(e.tab).key = e.key
      BY <3>1 DEF NInv, Held
    <3> QED
      BY <3>1, <3>2 DEF Ready, Mine
  <2>2. \A d \in enrolments' : d.answer \in Agency => d.answer = officer
    OBVIOUS
  <2>3. /\ \A t \in Tab : OnPage(t)' => Ready(t)'
        /\ \A t \in Tab : setup'[t].readiness = "ready" => OnPage(t)' /\ Mine(t)'.agency = officer /\ day'
    BY <1>1 DEF NInv, Held, OnPage, Ready, Mine
  <2>4. \A d \in enrolments' : d.heard => Ready(d.tab)' /\ Mine(d.tab)'.key = d.key
    BY <1>1, <2>1 DEF Ready, Mine
  <2> QED
    BY <2>2, <2>3, <2>4 DEF Held
<1>4. OneKey' /\ IdentityIsShared'
  BY <1>1 DEF NInv, OneKey, IdentityIsShared, Ready, Mine
<1> QED
  BY <1>2, <1>3, <1>4 DEF NInv

LEMMA EnrolDeviceStep == ASSUME NInv, NEW e \in enrolments, EnrolDevice(e) PROVE NInv'
<1>1. enrolments \subseteq Ask /\ e \in Ask /\ vouched \subseteq Identity /\ revoked \subseteq 0..MaxIdentities
  BY DEF NInv, TabletTyped
<1>2. \A d \in enrolments : d.answer \in Agency => d.answer = officer /\ [key |-> d.key, agency |-> d.answer] \in vouched
  BY DEF NInv, Held, Vouched
<1>3. UNCHANGED <<tabletVars, rosters, asked, revoked, raced>>
  BY DEF EnrolDevice
<1>4. ASSUME NEW answer \in {officer, "refused"}, enrolments' = Answered(e, answer), vouched \subseteq vouched',
             vouched' \subseteq Identity, answer = officer => [key |-> e.key, agency |-> officer] \in vouched'
      PROVE  NInv'
  <2>1. PICK d : d = [e EXCEPT !.answer = answer]
    OBVIOUS
  <2>2. d \in Ask /\ d.heard = e.heard /\ d.tab = e.tab /\ d.key = e.key /\ d.answer = answer
    BY <1>1, <2>1, TabletIs DEF Ask
  <2>3. enrolments' \subseteq enrolments \cup {d} /\ (d \in enrolments' => d.heard \/ d \in enrolments)
    BY <1>4, <2>1, <2>2 DEF Answered
  <2>4. ASSUME NEW f \in enrolments'
        PROVE  /\ f \in Ask
               /\ f.heard => \E g \in enrolments : g.heard /\ g.tab = f.tab /\ g.key = f.key
               /\ f.answer \in Agency => f.answer = officer /\ [key |-> f.key, agency |-> f.answer] \in vouched'
    <3>1. CASE f \in enrolments
      BY <1>1, <1>2, <1>4, <3>1
    <3>2. CASE f = d
      BY <1>4, <2>2, <3>2, TabletIs
    <3> QED
      BY <2>3, <3>1, <3>2
  <2> QED
    BY <1>1, <1>3, <1>4, <2>4, OfficeStep
<1>5. CASE vouched' = vouched \cup {[key |-> e.key, agency |-> officer]} /\ enrolments' = Answered(e, officer)
  <2>1. [key |-> e.key, agency |-> officer] \in Identity
    BY <1>1, TabletIs DEF Ask, Identity
  <2> QED
    BY <1>1, <1>4, <1>5, <2>1
<1>6. CASE enrolments' = Answered(e, "refused") /\ UNCHANGED vouched
  BY <1>1, <1>4, <1>6, TabletIs
<1> QED
  BY <1>5, <1>6 DEF EnrolDevice

LEMMA RevokeStep == ASSUME NInv, NEW d \in vouched, RevokeDevice(d) PROVE NInv'
<1>1. /\ enrolments \subseteq Ask /\ vouched \subseteq Identity /\ revoked \subseteq 0..MaxIdentities
      /\ \A e \in enrolments : e.answer \in Agency => e.answer = officer /\ [key |-> e.key, agency |-> e.answer] \in vouched
  BY DEF NInv, TabletTyped, Held, Vouched
<1>2. revoked' \subseteq 0..MaxIdentities /\ UNCHANGED <<tabletVars, rosters, asked, raced, vouched, enrolments>>
  BY <1>1 DEF RevokeDevice, Identity
<1> QED
  BY <1>1, <1>2, OfficeStep

LEMMA EnrolmentStep == NInv /\ [EnrolmentNext]_enrolmentVars => NInv'
<1> SUFFICES ASSUME NInv, [EnrolmentNext]_enrolmentVars PROVE NInv'
  OBVIOUS
<1>1. CASE UNCHANGED enrolmentVars
  BY <1>1 DEF enrolmentVars, tabletVars, officeVars, NInv, TabletTyped, Vouched, Held, OneKey, IdentityIsShared, Ready, Mine, OnPage
<1>2. CASE EnrolmentNext
  BY <1>2, OpenRuntimeStep, StoreIdentityStep, FailToOpenStep, CloseTabStep, SetupStep, PressEnrolStep,
     HearEnrolmentStep, EnrolDeviceStep, RevokeStep DEF EnrolmentNext
<1> QED
  BY <1>1, <1>2

(* A tablet that says it is ready holds a key that the service enrolled    *)
(* for its officer's agency, and so does the store (device.ts,             *)
(* acknowledgeEnrolment).                                                  *)
THEOREM ReadyIsTrue == EnrolmentSpec => []ReadyIsBacked
<1>1. NInv => ReadyIsBacked
  BY TabletIs DEF NInv, Vouched, Held, ReadyIsBacked
<1> QED
  BY <1>1, NInvInit, EnrolmentStep, PTL DEF EnrolmentSpec

(* Unless two tabs made a key at once, every tab signs with the stored one *)
(* (device-identity.ts, loadOrCreateIdentity).                             *)
THEOREM TabsShareTheKey == EnrolmentSpec => []IdentityIsShared
<1>1. NInv => IdentityIsShared
  BY DEF NInv
<1> QED
  BY <1>1, NInvInit, EnrolmentStep, PTL DEF EnrolmentSpec

HistoryTyped == day \in BOOLEAN /\ raced \in BOOLEAN

LEMMA HistoryStays == EnrolmentSpec => []HistoryTyped
<1>1. EnrolmentInit => HistoryTyped
  BY DEF EnrolmentInit, HistoryTyped
<1>2. HistoryTyped /\ [EnrolmentNext]_enrolmentVars => HistoryTyped'
  <2> SUFFICES ASSUME HistoryTyped, [EnrolmentNext]_enrolmentVars
               PROVE  day' \in BOOLEAN /\ raced' \in BOOLEAN
    BY Zenon DEF HistoryTyped
  <2>0. day \in BOOLEAN /\ raced \in BOOLEAN
    BY DEF HistoryTyped
  <2>1. UNCHANGED enrolmentVars => day' = day /\ raced' = raced
    BY DEF enrolmentVars, tabletVars
  <2>2. ASSUME NEW t \in Tab, OpenRuntime(t) PROVE day' = day /\ raced' \in BOOLEAN
    <3>1. raced' = (raced \/ (kept = NoIdentity /\ \E u \in Tab : runtime[u].status = "making"))
      BY <2>2 DEF OpenRuntime
    <3>2. raced' \in BOOLEAN
      BY <3>1, Zenon
    <3> QED
      BY <2>2, <3>2 DEF OpenRuntime
  <2>3. ASSUME NEW t \in Tab, HearRoster(t) PROVE day' \in {day, TRUE} /\ raced' = raced
    BY <2>3 DEF HearRoster
  <2>4. ASSUME NEW t \in Tab,
               StoreIdentity(t) \/ FailToOpen(t) \/ CloseTab(t) \/ OpenSetup(t) \/ Refresh(t)
                 \/ LeaveSetup(t) \/ ConfirmVenueDay(t) \/ PressEnrol(t)
        PROVE  day' = day /\ raced' = raced
    BY <2>4 DEF StoreIdentity, FailToOpen, CloseTab, OpenSetup, Refresh, LeaveSetup, ConfirmVenueDay, PressEnrol
  <2>5. ASSUME NEW e \in enrolments, HearEnrolment(e) \/ LoseEnrolment(e) \/ EnrolDevice(e)
        PROVE  day' = day /\ raced' = raced
    BY <2>5 DEF HearEnrolment, LoseEnrolment, EnrolDevice, tabletVars
  <2>6. ASSUME NEW d \in vouched, RevokeDevice(d) PROVE day' = day /\ raced' = raced
    BY <2>6 DEF RevokeDevice, tabletVars
  <2> QED
    BY <2>0, <2>1, <2>2, <2>3, <2>4, <2>5, <2>6, Zenon DEF EnrolmentNext
<1> QED
  BY <1>1, <1>2, PTL DEF EnrolmentSpec

(* The store, the tabs, the setup page and the service keep their types    *)
(* (setup.tsx, device-identity.ts).                                        *)
THEOREM EnrolmentTypeCorrect == EnrolmentSpec => []EnrolmentTypeOK
<1>1. NInv /\ HistoryTyped => EnrolmentTypeOK
  BY DEF HistoryTyped, NInv, TabletTyped, EnrolmentTypeOK, Identity, Runtime, Setup, Ask
<1> QED
  BY <1>1, NInvInit, EnrolmentStep, HistoryStays, PTL DEF EnrolmentSpec

-----------------------------------------------------------------------------
(* The scanner.                                                            *)

ScannerTyped ==
  /\ scanner \in Component /\ starts \subseteq Press
  /\ started \in Start /\ streams \subseteq Start

(* An officer who waits has one start under way at most, of the component  *)
(* that is shown, and no stream on while none was granted since.           *)
Alone == ~rushed =>
  /\ streams \subseteq {scanner.stream} \ {0}
  /\ scanner.view = "none" => streams = {}
  /\ \A s, u \in starts : s = u
  /\ \A s \in starts : s.live /\ s.id # 0 /\ scanner.view = "idle"
  /\ scanner.view = "idle" /\ (\A s \in starts : s.at = "asked") => streams = {}

ScannerInv == ScannerTyped /\ Alone

LEMMA ScannerInitInv == ScannerInit => ScannerInv /\ rushed \in BOOLEAN
<1> SUFFICES ASSUME ScannerInit PROVE ScannerInv /\ rushed \in BOOLEAN
  OBVIOUS
<1>1. ScannerTyped
  BY ScannerBound DEF ScannerInit, ScannerTyped, NotShown, Component, Start
<1>2. Alone
  BY DEF ScannerInit, Alone, NotShown
<1>3. rushed \in BOOLEAN
  BY Zenon DEF ScannerInit
<1> QED
  BY <1>1, <1>2, <1>3 DEF ScannerInv

LEMMA StoppedTyped ==
  ASSUME NEW p \in Component, NEW k \in Nat
  PROVE  Stopped(p, k) \in Component
<1>1. p.loops \in Nat
  BY DEF Component
<1>2. 0 \in Start /\ Minus(p.loops, k) \in Nat
  BY <1>1, ScannerBound DEF Start, Minus
<1> QED
  BY <1>2 DEF Component, Stopped

LEMMA BegunTyped ==
  ASSUME NEW p \in Component
  PROVE  Begun(p) \in Component
<1>1. p.view \in {"none", "idle", "scanning", "error"} /\ p.source \in Start /\ p.stream \in Start /\ p.loops \in Nat
  BY DEF Component
<1>2. Previews(p) => Begun(p) = [view |-> "scanning", source |-> p.source,
                                  stream |-> p.stream, loops |-> p.loops + 1]
  BY DEF Begun, Component
<1>3. p.loops + 1 \in Nat
  BY <1>1
<1>4. ~Previews(p) => Begun(p) = p
  BY DEF Begun
<1> QED
  BY <1>1, <1>2, <1>3, <1>4 DEF Component

LEMMA ShowScannerKeeps == ScannerInv /\ ShowScanner => ScannerInv'
<1> SUFFICES ASSUME ScannerInv, ShowScanner PROVE ScannerTyped' /\ Alone'
  BY DEF ScannerInv
<1>1. ScannerTyped'
  BY ScannerBound DEF ScannerInv, ScannerTyped, ShowScanner, NotShown, Component, Start
<1>2. Alone'
  BY DEF ScannerInv, Alone, ShowScanner, NotShown
<1> QED
  BY <1>1, <1>2

LEMMA HideScannerKeeps == ScannerInv /\ HideScanner => ScannerInv'
<1> SUFFICES ASSUME ScannerInv, HideScanner PROVE ScannerTyped' /\ Alone'
  BY DEF ScannerInv
<1>1. ScannerTyped'
  <2>1. scanner' \in Component
    BY ScannerBound DEF HideScanner, NotShown, Component, Start
  <2>2. \A s \in starts : [s EXCEPT !.live = FALSE] \in Press
    BY DEF ScannerInv, ScannerTyped, Press
  <2>3. starts' \subseteq Press
    BY <2>2 DEF HideScanner
  <2> QED
    BY <2>1, <2>3 DEF ScannerInv, ScannerTyped, HideScanner, CleanUp
<1>2. ASSUME ~rushed' PROVE ~rushed /\ starts = {}
  <2>1. rushed' = (rushed \/ starts # {})
    BY DEF HideScanner
  <2> QED
    BY <1>2, <2>1, Zenon
<1>3. ASSUME ~rushed' PROVE streams' = {} /\ starts' = {}
  BY <1>2, <1>3 DEF ScannerInv, Alone, HideScanner, CleanUp
<1>4. Alone'
  BY <1>3 DEF Alone
<1> QED
  BY <1>1, <1>4

LEMMA PressStartKeeps == ScannerInv /\ PressStart => ScannerInv'
<1> SUFFICES ASSUME ScannerInv, PressStart PROVE ScannerTyped' /\ Alone'
  BY DEF ScannerInv
<1>1. started + 1 \in Start /\ started + 1 # 0
  BY ScannerBound DEF ScannerInv, ScannerTyped, PressStart, Start
<1>2. ScannerTyped'
  <2>1. starts' \subseteq starts \cup {[id |-> started + 1, at |-> "asked", live |-> TRUE]}
    BY DEF PressStart
  <2>2. [id |-> started + 1, at |-> "asked", live |-> TRUE] \in Press
    BY <1>1 DEF Press
  <2> QED
    BY <1>1, <2>1, <2>2 DEF ScannerInv, ScannerTyped, PressStart
<1>3. ASSUME ~rushed' PROVE ~rushed /\ starts = {}
  <2>1. rushed' = (rushed \/ starts # {})
    BY DEF PressStart
  <2> QED
    BY <1>3, <2>1, Zenon
<1>4. ASSUME ~rushed' PROVE streams = {}
  BY <1>3, <1>4 DEF ScannerInv, Alone, PressStart
<1>5. Alone'
  <2> DEFINE n == [id |-> started + 1, at |-> "asked", live |-> TRUE]
  <2>1. n.live /\ n.id # 0
    BY <1>1
  <2>2. started' = started + 1 /\ starts' = starts \cup {[id |-> started', at |-> "asked", live |-> TRUE]}
    BY DEF PressStart
  <2>3. starts' = starts \cup {n}
    BY <2>2, Zenon
  <2>4. scanner.view = "idle" /\ UNCHANGED <<scanner, streams>>
    BY DEF PressStart
  <2> HIDE DEF n
  <2> QED
    BY <1>3, <1>4, <2>1, <2>3, <2>4 DEF Alone
<1> QED
  BY <1>2, <1>5

LEMMA StopKeeps == ScannerInv /\ (PressStop \/ ReadCode) => ScannerInv'
<1> SUFFICES ASSUME ScannerInv, PressStop \/ ReadCode PROVE ScannerTyped' /\ Alone'
  BY DEF ScannerInv
<1>1. PICK k \in {1, 2} : scanner' = Stopped(scanner, k)
  <2>1. CASE PressStop
    BY <2>1 DEF PressStop
  <2>2. CASE ReadCode
    BY <2>2 DEF ReadCode
  <2> QED
    BY <2>1, <2>2
<1>2. streams' = streams \ {scanner.stream} /\ UNCHANGED <<starts, started, rushed>> /\ Previews(scanner)
  BY DEF PressStop, ReadCode, Previews
<1>3. ScannerTyped'
  BY <1>1, <1>2, StoppedTyped DEF ScannerInv, ScannerTyped
<1>4. ASSUME ~rushed PROVE streams' = {}
  BY <1>2, <1>4 DEF ScannerInv, Alone
<1>5. scanner'.view = "idle"
  BY <1>1 DEF Stopped
<1>6. Alone'
  BY <1>2, <1>4, <1>5 DEF ScannerInv, Alone, Previews
<1> QED
  BY <1>3, <1>6

LEMMA GrantCameraKeeps ==
  ASSUME ScannerInv, NEW s \in starts, GrantCamera(s)
  PROVE  ScannerInv'
<1>0. s \in Press /\ s.id \in Start
  BY DEF ScannerInv, ScannerTyped, Press
<1>1. ScannerTyped'
  <2>1. CASE s.live /\ Previews(scanner)
    <3>1. [scanner EXCEPT !.stream = s.id, !.source = s.id] \in Component
      BY <1>0 DEF ScannerInv, ScannerTyped, Component
    <3>2. [s EXCEPT !.at = "playing"] \in Press
      BY <1>0 DEF Press
    <3> QED
      BY <1>0, <2>1, <3>1, <3>2 DEF ScannerInv, ScannerTyped, GrantCamera
  <2>2. CASE ~(s.live /\ Previews(scanner))
    <3>1. [scanner EXCEPT !.stream = s.id] \in Component
      BY <1>0 DEF ScannerInv, ScannerTyped, Component
    <3> QED
      BY <1>0, <2>2, <3>1, BegunTyped DEF ScannerInv, ScannerTyped, GrantCamera
  <2> QED
    BY <2>1, <2>2
<1>2. rushed' = rushed
  BY DEF GrantCamera
<1>3. ASSUME ~rushed PROVE s.live /\ s.id # 0 /\ scanner.view = "idle" /\ starts = {s} /\ streams = {}
  BY <1>3 DEF ScannerInv, Alone, GrantCamera
<1>4. ASSUME ~rushed
      PROVE  /\ scanner' = [scanner EXCEPT !.stream = s.id, !.source = s.id]
             /\ starts' = {[s EXCEPT !.at = "playing"]} /\ streams' = {s.id}
  <2>1. /\ scanner' = [scanner EXCEPT !.stream = s.id, !.source = s.id]
        /\ starts' = (starts \ {s}) \cup {[s EXCEPT !.at = "playing"]}
    BY <1>3, <1>4, Zenon DEF GrantCamera, Previews
  <2>2. streams' = streams \cup {s.id}
    BY DEF GrantCamera
  <2> QED
    BY <1>3, <1>4, <2>1, <2>2
<1>5. ASSUME ~rushed
      PROVE  /\ scanner'.stream = s.id /\ scanner'.view = scanner.view
  BY <1>4, <1>5 DEF ScannerInv, ScannerTyped, Component
<1>6. ASSUME ~rushed, NEW u \in starts' PROVE u.live = s.live /\ u.id = s.id /\ u.at = "playing"
  BY <1>0, <1>4, <1>6 DEF Press
<1>7. Alone'
  BY <1>2, <1>3, <1>4, <1>5, <1>6 DEF Alone, Previews
<1> QED
  BY <1>1, <1>7 DEF ScannerInv

LEMMA PlaysKeeps ==
  ASSUME ScannerInv, NEW s \in starts, Plays(s)
  PROVE  ScannerInv'
<1>1. ScannerTyped'
  BY BegunTyped DEF ScannerInv, ScannerTyped, Plays
<1>2. rushed' = rushed /\ streams' = streams
  BY DEF Plays
<1>3. ASSUME ~rushed PROVE starts' = {} /\ scanner' = Begun(scanner)
  BY <1>3 DEF ScannerInv, Alone, Plays
<1>4. ASSUME ~rushed
      PROVE  scanner'.stream = scanner.stream /\ scanner'.view = "scanning"
  <2>1. Previews(scanner)
    BY <1>4 DEF ScannerInv, Alone, Previews
  <2>2. scanner' = [scanner EXCEPT !.view = "scanning", !.loops = scanner.loops + 1]
    BY <1>3, <1>4, <2>1 DEF Begun
  <2> QED
    BY <2>2 DEF ScannerInv, ScannerTyped, Component
<1>5. Alone'
  BY <1>2, <1>3, <1>4 DEF ScannerInv, Alone
<1> QED
  BY <1>1, <1>5 DEF ScannerInv

LEMMA FailStartKeeps ==
  ASSUME ScannerInv, NEW s \in starts, FailStart(s)
  PROVE  ScannerInv'
<1>1. ScannerTyped'
  <2>1. [scanner EXCEPT !.view = "error", !.source = 0] \in Component
    <3>1. 0 \in Start /\ "error" \in {"none", "idle", "scanning", "error"}
      BY ScannerBound DEF Start
    <3> QED
      BY <3>1 DEF ScannerInv, ScannerTyped, Component
  <2> QED
    BY <2>1 DEF ScannerInv, ScannerTyped, FailStart
<1>2. rushed' = rushed /\ streams' = streams
  BY DEF FailStart
<1>3. ASSUME ~rushed PROVE starts' = {} /\ scanner' = [scanner EXCEPT !.view = "error", !.source = 0]
  BY <1>3 DEF ScannerInv, Alone, FailStart
<1>4. ASSUME ~rushed
      PROVE  scanner'.stream = scanner.stream /\ scanner.view # "none" /\ scanner'.view = "error"
  <2>1. scanner.view = "idle"
    BY <1>4 DEF ScannerInv, Alone
  <2> QED
    BY <1>3, <1>4, <2>1 DEF ScannerInv, ScannerTyped, Component
<1>5. Alone'
  BY <1>2, <1>3, <1>4 DEF ScannerInv, Alone, Previews
<1> QED
  BY <1>1, <1>5 DEF ScannerInv

LEMMA ScannerStep == ScannerInv /\ [ScannerNext]_scannerVars => ScannerInv'
<1> SUFFICES ASSUME ScannerInv, [ScannerNext]_scannerVars PROVE ScannerInv'
  OBVIOUS
<1>1. CASE UNCHANGED scannerVars
  BY <1>1 DEF scannerVars, ScannerInv, ScannerTyped, Alone
<1>2. CASE ScannerNext
  BY <1>2, ShowScannerKeeps, HideScannerKeeps, PressStartKeeps, StopKeeps, GrantCameraKeeps,
     PlaysKeeps, FailStartKeeps, Zenon DEF ScannerNext
<1> QED
  BY <1>1, <1>2

(* For an officer who lets the camera start, no stream is on but the one   *)
(* the component can stop, and none where it is gone, for any number of    *)
(* presses, denials, reads and pages left (QrScanner, stopCamera).         *)
THEOREM TheCameraIsReleased == ScannerSpec => []CameraIsReleased
<1>1. ScannerInv => CameraIsReleased
  BY DEF ScannerInv, Alone, CameraIsReleased
<1> QED
  BY <1>1, ScannerInitInv, ScannerStep, PTL DEF ScannerSpec

RushedTyped == rushed \in BOOLEAN

(* The component, its presses and the camera keep their types (QrScanner). *)
THEOREM ScannerTypeCorrect == ScannerSpec => []ScannerTypeOK
<1>1. ScannerInit => RushedTyped
  BY ScannerInitInv DEF RushedTyped
<1>2. ASSUME RushedTyped, [ScannerNext]_scannerVars PROVE RushedTyped'
  <2>1. \/ rushed' = rushed
        \/ rushed' = (rushed \/ starts # {})
    <3>1. ASSUME UNCHANGED scannerVars PROVE rushed' = rushed
      BY <3>1 DEF scannerVars
    <3>2. ASSUME ShowScanner \/ PressStop \/ ReadCode PROVE rushed' = rushed
      BY <3>2 DEF ShowScanner, PressStop, ReadCode
    <3>3. ASSUME NEW s \in starts, GrantCamera(s) \/ Plays(s) \/ FailStart(s) PROVE rushed' = rushed
      BY <3>3 DEF GrantCamera, Plays, FailStart
    <3>4. ASSUME HideScanner \/ PressStart PROVE rushed' = (rushed \/ starts # {})
      BY <3>4, Zenon DEF HideScanner, PressStart
    <3> QED
      BY <1>2, <3>1, <3>2, <3>3, <3>4, Zenon DEF ScannerNext
  <2> QED
    BY <1>2, <2>1, Zenon DEF RushedTyped
<1>3. ScannerInv /\ RushedTyped => ScannerTypeOK
  BY DEF ScannerInv, ScannerTyped, RushedTyped, ScannerTypeOK
<1> QED
  BY <1>1, <1>2, <1>3, ScannerInitInv, ScannerStep, PTL DEF ScannerSpec
=============================================================================
