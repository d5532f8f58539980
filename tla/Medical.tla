------------------------------ MODULE Medical -------------------------------
(***************************************************************************)
(* The medical station (field-ops routes/medical.tsx and model/medical.ts, *)
(* ADR-013): a pass is read, a verdict chosen that the agency's mode has,  *)
(* and recordMedicalReview sent, one at a time. The result names the       *)
(* verdict and not the candidate.                                          *)
(***************************************************************************)
EXTENDS Naturals

CONSTANTS
  Ticket,
  NoTicket,
  Matching,   \* SUBSET Ticket: passes of this venue day and agency
  Mode        \* medicalModeFor the session's agency

ASSUME MedicalNames == NoTicket \notin Ticket /\ Matching \subseteq Ticket
ASSUME MedicalMode == Mode \in {"BOARD", "CERTIFICATE"}

VARIABLES
  board,         \* the page: the ticket, the choice, the physician, busy, the outcome
  review,        \* the request whose answer is due
  unheard,       \* requests of a page that was left
  reviews,       \* the service: the verdict recorded of each application
  boardHurried   \* history: the form was touched while the answer was due

medicalVars == <<board, review, unheard, reviews, boardHurried>>

Choices == {"FIT", "UNFIT", "CERT_VERIFIED", "CERT_REJECTED"}
ChoicesFor(mode) == IF mode = "BOARD" THEN {"FIT", "UNFIT"} ELSE {"CERT_VERIFIED", "CERT_REJECTED"}
Why == {"none", "not_applicable", "other_definite", "other"}
Shown == {"none", "recorded", "offline", "refused"}
BoardPage == [ticket : Ticket \cup {NoTicket}, choice : Choices \cup {"none"}, physician : BOOLEAN,
              busy : BOOLEAN, outcome : Shown, why : Why, verdict : Choices \cup {"none"}]
Request == [ticket : Ticket, choice : Choices]
Review == [at : {"none", "sent", "recorded", "refused", "lost"}, ticket : Ticket \cup {NoTicket},
           choice : Choices \cup {"none"}, why : Why]

OpenBoard == [ticket |-> NoTicket, choice |-> "none", physician |-> FALSE, busy |-> FALSE,
              outcome |-> "none", why |-> "none", verdict |-> "none"]
NoReview == [at |-> "none", ticket |-> NoTicket, choice |-> "none", why |-> "none"]

MedicalInit ==
  /\ board = OpenBoard /\ review = NoReview /\ unheard = {}
  /\ reviews = [t \in Ticket |-> "none"] /\ boardHurried = FALSE

ChooserShows == board.outcome = "none"
TouchBoard == boardHurried' = (boardHurried \/ board.busy)

ReadTicket(t) ==
  /\ ChooserShows /\ board.ticket = NoTicket
  /\ board' = [board EXCEPT !.ticket = t]
  /\ TouchBoard
  /\ UNCHANGED <<review, unheard, reviews>>

(* Another scan: the ticket goes, the choice and the name stay.            *)
ClearTicket ==
  /\ ChooserShows /\ board.ticket # NoTicket
  /\ board' = [board EXCEPT !.ticket = NoTicket]
  /\ TouchBoard
  /\ UNCHANGED <<review, unheard, reviews>>

Choose(v) ==
  /\ ChooserShows /\ board.ticket # NoTicket /\ v \in ChoicesFor(Mode)
  /\ board' = [board EXCEPT !.choice = v]
  /\ UNCHANGED <<review, unheard, reviews, boardHurried>>

(* A name of one to PHYSICIAN_NAME_MAX letters, or not.                    *)
NamePhysician(good) ==
  /\ ChooserShows /\ board.ticket # NoTicket /\ board.choice = "CERT_VERIFIED"
  /\ board' = [board EXCEPT !.physician = good]
  /\ UNCHANGED <<review, unheard, reviews, boardHurried>>

(* medicalInputFor has an input, not a problem.                            *)
HasInput ==
  /\ board.choice \in ChoicesFor(Mode)
  /\ board.choice = "CERT_VERIFIED" => board.physician

Record ==
  /\ ChooserShows /\ ~board.busy /\ board.ticket \in Matching /\ HasInput
  /\ review' = [at |-> "sent", ticket |-> board.ticket, choice |-> board.choice, why |-> "none"]
  /\ board' = [board EXCEPT !.busy = TRUE]
  /\ UNCHANGED <<unheard, reviews, boardHurried>>

(* The service records one review of an application.                       *)
DecideReview ==
  /\ review.at = "sent"
  /\ \/ /\ reviews[review.ticket] = "none"
        /\ reviews' = [reviews EXCEPT ![review.ticket] = review.choice]
        /\ review' = [review EXCEPT !.at = "recorded"]
     \/ /\ \E w \in (IF reviews[review.ticket] = "none" THEN Why \ {"none"} ELSE {"not_applicable"}) :
             review' = [review EXCEPT !.at = "refused", !.why = w]
        /\ UNCHANGED reviews
  /\ UNCHANGED <<board, unheard, boardHurried>>

(* The answer is lost, before the service has decided or after; a server   *)
(* error too may hide a review that was committed.                         *)
ReviewFails ==
  /\ review.at \in {"sent", "recorded"}
  /\ \E how \in {"lost", "refused"} :
       review' = [review EXCEPT !.at = how, !.why = IF how = "lost" THEN "none" ELSE "other"]
  /\ unheard' = unheard \cup
       IF review.at = "sent" THEN {[ticket |-> review.ticket, choice |-> review.choice]} ELSE {}
  /\ UNCHANGED <<board, reviews, boardHurried>>

DecideUnheard(r) ==
  /\ reviews' = IF reviews[r.ticket] = "none" THEN [reviews EXCEPT ![r.ticket] = r.choice] ELSE reviews
  /\ unheard' = unheard \ {r}
  /\ UNCHANGED <<board, review, boardHurried>>

(* record, after its await.                                                *)
OutcomeOf(r) == CASE r.at = "recorded" -> "recorded" [] r.at = "lost" -> "offline" [] OTHER -> "refused"
HearReview ==
  /\ review.at \in {"recorded", "refused", "lost"}
  /\ board' = [board EXCEPT !.busy = FALSE, !.outcome = OutcomeOf(review), !.why = review.why,
                            !.verdict = review.choice]
  /\ review' = NoReview
  /\ UNCHANGED <<unheard, reviews, boardHurried>>

NextKeepsTheOutcome == [OpenBoard EXCEPT !.outcome = board.outcome]       \* mutant
NextBoard == OpenBoard
PressNextTicket ==
  /\ ~ChooserShows
  /\ board' = NextBoard
  /\ boardHurried' = FALSE
  /\ UNCHANGED <<review, unheard, reviews>>

LeaveBoard ==
  /\ board' = OpenBoard /\ review' = NoReview /\ boardHurried' = FALSE
  /\ unheard' = unheard \cup
       IF review.at = "sent" THEN {[ticket |-> review.ticket, choice |-> review.choice]} ELSE {}
  /\ UNCHANGED reviews

MedicalOfficer ==
  \/ \E t \in Ticket : ReadTicket(t)
  \/ \E v \in Choices : Choose(v)
  \/ \E good \in BOOLEAN : NamePhysician(good)
  \/ ClearTicket \/ Record \/ HearReview \/ PressNextTicket
MedicalService == DecideReview \/ ReviewFails \/ \E r \in unheard : DecideUnheard(r)

MedicalSpec == MedicalInit /\ [][MedicalOfficer \/ MedicalService \/ LeaveBoard]_medicalVars

-----------------------------------------------------------------------------
(* Properties                                                              *)

MedicalTypeOK ==
  /\ board \in BoardPage /\ review \in Review /\ unheard \subseteq Request
  /\ reviews \in [Ticket -> Choices \cup {"none"}] /\ boardHurried \in BOOLEAN

(* The panel names no candidate: the verdict it calls recorded is recorded *)
(* of the one whose pass was read, in the agency's own mode, unless the    *)
(* pass was changed while the answer was due.                              *)
VerdictIsThisCandidates ==
  ~boardHurried /\ board.outcome = "recorded" =>
    /\ board.ticket \in Matching /\ board.verdict \in ChoicesFor(Mode)
    /\ reviews[board.ticket] = board.verdict
=============================================================================
