------------------------------ MODULE ExamPass ------------------------------
(***************************************************************************)
(* The citizen's exam pass (apps/applicant-portal/src/routes/exam-qr.tsx   *)
(* and useMyExamInvitation): a single-use QR on a page that is left open   *)
(* on a phone, while the gate admits its holder or an officer holds him.   *)
(*                                                                         *)
(* Time passes by whole poll periods, 15 s or 60 s as the state shown has  *)
(* it, none of them while a read is under way; a read is up to three       *)
(* requests. A period counts only if the phone was online and the page in  *)
(* front: otherwise reads are paused, or nobody is shown anything.         *)
(***************************************************************************)
EXTENDS Naturals

VARIABLES
  pass,      \* the state of the invitation at the service
  ticket,    \* the page and its query: data, whether the last read failed, the read under way
  overdue    \* history: periods a pass has been shown that is no longer good, since the last read

examPassVars == <<pass, ticket, overdue>>

PassState == {"PENDING", "READY", "ADMITTED", "ON_HOLD", "CLOSED"}   \* CLOSED: every other
Reading == {"none", "asked"} \cup PassState      \* and what the service has answered

ExamPassInit ==
  /\ pass \in {"PENDING", "READY"} /\ overdue = 0
  /\ ticket = [at |-> "away", data |-> "none", fresh |-> FALSE, failed |-> FALSE, read |-> "none"]

(* refetchInterval, over the data the query keeps even when a read fails.  *)
PolledWhilePending == {"PENDING"}     \* mutant
Polled == {"PENDING", "READY"}

ShowsPass == ticket.at = "page" /\ ticket.data = "READY" /\ ~ticket.failed

-----------------------------------------------------------------------------
(* The gate, the officers and the clock of the campaign                    *)

Becomes == [s \in PassState |->
  CASE s = "PENDING" -> {"READY", "ON_HOLD", "CLOSED"}
    [] s = "READY" -> {"PENDING", "ADMITTED", "ON_HOLD", "CLOSED"}
    [] s = "ON_HOLD" -> {"PENDING", "CLOSED"}
    [] s = "ADMITTED" -> {"ON_HOLD", "CLOSED"}
    [] OTHER -> {}]

PassChanges ==
  /\ pass' \in Becomes[pass]
  /\ UNCHANGED <<ticket, overdue>>

-----------------------------------------------------------------------------
(* The page                                                                *)

(* Mounted: the cache is read again unless it was answered just before.    *)
OpenPass ==
  /\ ticket.at = "away"
  /\ ticket' = [ticket EXCEPT !.at = "page",
       !.read = IF @ = "none" /\ (ticket.data = "none" \/ ~ticket.fresh) THEN "asked" ELSE @]
  /\ UNCHANGED <<pass, overdue>>

LeavePass ==
  /\ ticket.at = "page"
  /\ ticket' = [ticket EXCEPT !.at = "away"]
  /\ UNCHANGED <<pass, overdue>>

(* Ten seconds, or the cache's five minutes with nobody on the page.       *)
GrowsStale ==
  /\ \/ ticket.fresh /\ ticket' = [ticket EXCEPT !.fresh = FALSE]
     \/ /\ ticket.at = "away" /\ ticket.read = "none" /\ ticket.data # "none"
        /\ ticket' = [ticket EXCEPT !.data = "none", !.fresh = FALSE, !.failed = FALSE]
  /\ UNCHANGED <<pass, overdue>>

(* A period passes with the page in front of its holder, and the query is  *)
(* read again if it is one that polls.                                     *)
PeriodPasses ==
  /\ ticket.at = "page" /\ ticket.read = "none" /\ overdue < 2
  /\ overdue' = overdue + (IF ShowsPass /\ pass # "READY" THEN 1 ELSE 0)
  /\ ticket' = [ticket EXCEPT !.fresh = FALSE, !.read = IF ticket.data \in Polled THEN "asked" ELSE @]
  /\ UNCHANGED pass

(* The phone is online again.                                              *)
Reconnects ==
  /\ ticket.at = "page" /\ ticket.read = "none" /\ ~ticket.fresh
  /\ ticket' = [ticket EXCEPT !.read = "asked"]
  /\ UNCHANGED <<pass, overdue>>

AnswerInvitation ==
  /\ ticket.read = "asked"
  /\ ticket' = [ticket EXCEPT !.read = pass]
  /\ UNCHANGED <<pass, overdue>>

HearInvitation ==
  /\ ticket.read \in PassState
  /\ ticket' = [ticket EXCEPT !.data = ticket.read, !.fresh = TRUE, !.failed = FALSE, !.read = "none"]
  /\ overdue' = 0
  /\ UNCHANGED pass

(* The page says so and shows no pass, whatever data it has kept.          *)
InvitationFails ==
  /\ ticket.read # "none"
  /\ ticket' = [ticket EXCEPT !.failed = TRUE, !.read = "none"]
  /\ overdue' = 0
  /\ UNCHANGED pass

ExamPassNext ==
  \/ PassChanges \/ OpenPass \/ LeavePass \/ GrowsStale \/ PeriodPasses
  \/ Reconnects \/ AnswerInvitation \/ HearInvitation \/ InvitationFails

ExamPassSpec == ExamPassInit /\ [][ExamPassNext]_examPassVars

-----------------------------------------------------------------------------
(* Properties                                                              *)

ExamPassTypeOK ==
  /\ pass \in PassState /\ overdue \in 0..2
  /\ ticket \in [at : {"away", "page"}, data : PassState \cup {"none"}, fresh : BOOLEAN,
                 failed : BOOLEAN, read : Reading]

(* "Once the gate admits the citizen the page must stop showing it": a QR  *)
(* that is spent or held is on the screen for no second poll period, left  *)
(* open, come back to, or read in vain.                                    *)
SpentPassIsTakenDown == overdue <= 1
=============================================================================
