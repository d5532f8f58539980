----------------------------- MODULE Decisions ------------------------------
(***************************************************************************)
(* The officer queues (packages/features/adjudication): the holds and the  *)
(* final tab, their rows as last read, the dialog that decides one row and *)
(* the run that decides every row in medical review, over applications     *)
(* that other officers, verdicts and citizens move meanwhile.              *)
(*                                                                         *)
(* A row is its place in the list. The officer holds every permission; the *)
(* medical tab decides nothing and a row's "open" leads away.              *)
(***************************************************************************)
EXTENDS Naturals, FiniteSets

CONSTANTS
  Rows,          \* applications listed
  Starting,      \* a set of [1..Rows -> Status]: how they begin
  MaxDecisions,  \* bound: requests of this officer
  MaxMoves       \* bound: moves of everyone else

Row == 1..Rows
Status == {"DOCUMENT_REVIEW_AMBER", "ADJUDICATION_REVIEW", "MEDICAL_REVIEW", "FINAL_SHORTLIST",
           "CLEARED", "REJECTED", "ACCEPTED", "WITHDRAWN"}   \* CLEARED: whatever follows a hold

ASSUME DecisionRows == Rows \in Nat \ {0} /\ Starting \subseteq [Row -> Status] /\ MaxDecisions \in Nat
ASSUME DecisionMoves == MaxMoves \in Nat

VARIABLES
  status,       \* the server's applications
  desk,         \* the page: rows as read, dialog, mutations, bulk run and its report
  runs,         \* the async functions under way: a row's, a bulk's, a request left behind
  decisions,    \* requests made so far
  moves,        \* moves of everyone else so far
  taken,        \* history: decisions the server has recorded on a row
  ours          \* history: rows the last bulk run has itself decided

decisionVars == <<status, desk, runs, decisions, moves, taken, ours>>

Hold == {"DOCUMENT_REVIEW_AMBER", "ADJUDICATION_REVIEW"}     \* ADJUDICABLE_STATUSES
Decision == {"CLEAR", "REJECT_HOLD", "SHORTLIST", "REJECT", "ACCEPT"}
Mutation == {"adjudicate", "finalDecision", "accept"}
MutationOf(d) == CASE d \in {"CLEAR", "REJECT_HOLD"} -> "adjudicate"
                   [] d = "ACCEPT" -> "accept"
                   [] OTHER -> "finalDecision"

(* rowTransitions, and the server's own rule, which it transcribes.        *)
RowTransitions(s) == CASE s \in Hold -> {"CLEAR", "REJECT_HOLD"}
                       [] s = "MEDICAL_REVIEW" -> {"SHORTLIST", "REJECT"}
                       [] s = "FINAL_SHORTLIST" -> {"ACCEPT"}
                       [] OTHER -> {}
Target(d) == CASE d = "CLEAR" -> "CLEARED" [] d = "SHORTLIST" -> "FINAL_SHORTLIST"
               [] d = "ACCEPT" -> "ACCEPTED" [] OTHER -> "REJECTED"

NoRow == [row |-> 0, decision |-> "none"]
NoReport == [r \in Row |-> "none"]
Shut == [at |-> "away", list |-> status, pending |-> NoRow,
         failed |-> [m \in Mutation |-> 0], waiting |-> FALSE,
         bulk |-> "none", running |-> FALSE, chosen |-> "none", targets |-> {}, report |-> NoReport,
         faults |-> {}, bulked |-> FALSE]

DecisionsInit ==
  /\ status \in Starting /\ desk = Shut
  /\ runs = {} /\ decisions = 0 /\ moves = 0
  /\ taken = [r \in Row |-> {}] /\ ours = {}

-----------------------------------------------------------------------------
(* The applications, and everyone else                                     *)

Recorded(r, d) ==
  /\ status' = [status EXCEPT ![r] = Target(d)]
  /\ taken' = [taken EXCEPT ![r] = @ \cup {d}]

SomeoneDecides(r, d) ==
  /\ moves < MaxMoves /\ moves' = moves + 1
  /\ d \in RowTransitions(status[r])
  /\ Recorded(r, d)
  /\ UNCHANGED <<desk, runs, decisions, ours>>

(* A late verdict holds a row again, or its citizen withdraws.             *)
MovesAway(r) ==
  /\ moves < MaxMoves /\ moves' = moves + 1
  /\ \/ status[r] \in {"DOCUMENT_REVIEW_AMBER", "CLEARED"} /\ status' = [status EXCEPT ![r] = "ADJUDICATION_REVIEW"]
     \/ status[r] \in {"MEDICAL_REVIEW", "FINAL_SHORTLIST"} /\ status' = [status EXCEPT ![r] = "WITHDRAWN"]
  /\ UNCHANGED <<desk, runs, decisions, taken, ours>>

-----------------------------------------------------------------------------
(* The officer                                                             *)

OpenQueues ==
  /\ desk.at = "away"
  /\ desk' = [Shut EXCEPT !.at = "queues"]
  /\ UNCHANGED <<status, runs, decisions, moves, taken, ours>>

(* The read again: stale, on focus, or after a decision.                   *)
Refetch ==
  /\ desk.at = "queues" /\ desk.list # status
  /\ desk' = [desk EXCEPT !.list = status]
  /\ UNCHANGED <<status, runs, decisions, moves, taken, ours>>

(* The page is left, by the browser's own buttons if a dialog is open: the *)
(* functions under way go on without it.                                   *)
LeaveQueues ==
  /\ desk.at = "queues"
  /\ desk' = Shut
  /\ runs' = {[u EXCEPT !.heard = FALSE] : u \in {v \in runs : v.todo # {} \/ v.answer = "none"}}
  /\ ours' = {}
  /\ UNCHANGED <<status, decisions, moves, taken>>

NoDialog == desk.pending.row = 0 /\ desk.bulk = "none"

OnTransition(r, d) ==
  /\ desk.at = "queues" /\ NoDialog /\ d \in RowTransitions(desk.list[r])
  /\ desk' = [desk EXCEPT !.pending = [row |-> r, decision |-> d]]
  /\ UNCHANGED <<status, runs, decisions, moves, taken, ours>>

(* onCancel: the queue's own mutations are reset.                          *)
Forgotten(m) == IF m = "adjudicate" THEN {"adjudicate"} ELSE {"finalDecision", "accept"}
CancelKeepsTheRefusal(d) == [desk EXCEPT !.pending = NoRow]   \* mutant
Cancelled(d) == [desk EXCEPT !.pending = NoRow,
  !.failed = [m \in Mutation |-> IF m \in Forgotten(MutationOf(d)) THEN 0 ELSE @[m]]]
CancelDecision ==
  /\ desk.pending.row # 0 /\ ~desk.waiting
  /\ desk' = Cancelled(desk.pending.decision)
  /\ UNCHANGED <<status, runs, decisions, moves, taken, ours>>

Request(kind, d, r, todo) ==
  [id |-> decisions + 1, kind |-> kind, decision |-> d, row |-> r, todo |-> todo,
   answer |-> "none", heard |-> TRUE]

(* run: the decision of the dialog, on its row.                            *)
RunDecision ==
  LET d == desk.pending.decision IN
  /\ desk.pending.row # 0 /\ ~desk.waiting /\ decisions < MaxDecisions
  /\ decisions' = decisions + 1
  /\ runs' = runs \cup {Request("row", d, desk.pending.row, {})}
  /\ desk' = [desk EXCEPT !.waiting = TRUE, !.failed[MutationOf(d)] = 0]
  /\ UNCHANGED <<status, moves, taken, ours>>

InReview == {r \in Row : desk.list[r] = "MEDICAL_REVIEW"}

AskForAll(d) ==
  /\ desk.at = "queues" /\ NoDialog /\ InReview # {}
  /\ desk' = [desk EXCEPT !.bulk = d]
  /\ UNCHANGED <<status, runs, decisions, moves, taken, ours>>

CancelAll ==
  /\ desk.bulk # "none" /\ ~desk.running
  /\ desk' = [desk EXCEPT !.bulk = "none"]
  /\ UNCHANGED <<status, runs, decisions, moves, taken, ours>>

(* runAll: the rows in review as the dialog last listed them.              *)
RunAll ==
  /\ desk.bulk # "none" /\ ~desk.running
  /\ decisions + Cardinality(InReview) <= MaxDecisions
  /\ decisions' = decisions + Cardinality(InReview)
  /\ desk' = [desk EXCEPT !.running = TRUE, !.chosen = desk.bulk, !.targets = InReview,
                          !.report = NoReport, !.faults = {}, !.bulked = TRUE]
  /\ runs' = runs \cup {Request("bulk", desk.bulk, 0, InReview)}
  /\ ours' = {}
  /\ UNCHANGED <<status, moves, taken>>

-----------------------------------------------------------------------------
(* runBulk: strictly in order, one at a time, whatever the answers, and    *)
(* whether or not the page is still there.                                 *)

NextRow(u) ==
  /\ u.kind = "bulk" /\ u.row = 0
  /\ \E r \in u.todo :
       /\ \A q \in u.todo : r <= q
       /\ runs' = (runs \ {u}) \cup {[u EXCEPT !.row = r, !.todo = @ \ {r}]}
  /\ desk' = IF u.heard THEN [desk EXCEPT !.failed["finalDecision"] = 0] ELSE desk
  /\ UNCHANGED <<status, decisions, moves, taken, ours>>

StopsAtARefusal(u) == IF u.answer = "done" THEN u.todo ELSE {}     \* mutant
Remaining(u) == u.todo

EndOfRun(u) ==
  /\ u.kind = "bulk" /\ u.row = 0 /\ u.todo = {}
  /\ runs' = runs \ {u}
  /\ desk' = IF u.heard THEN [desk EXCEPT !.running = FALSE, !.bulk = "none"] ELSE desk
  /\ UNCHANGED <<status, decisions, moves, taken, ours>>

(* The server: APPLIED and NO_CHANGE are both answered with a success.     *)
DecideApplication(u) ==
  LET s == status[u.row]
      applies == u.decision \in RowTransitions(s)
      answers == IF applies THEN {"done"} \cup IF u.decision = "ACCEPT" THEN {"refused"} ELSE {}
                 ELSE IF s = Target(u.decision) THEN {"done"} ELSE {"refused"}
  IN /\ u.row # 0 /\ u.answer = "none"
     /\ \E a \in answers :
          /\ runs' = (runs \ {u}) \cup IF u.kind # "ghost" THEN {[u EXCEPT !.answer = a]} ELSE {}
          /\ IF applies /\ a = "done"
             THEN /\ Recorded(u.row, u.decision)
                  /\ ours' = IF u.kind = "bulk" /\ u.heard THEN ours \cup {u.row} ELSE ours
             ELSE UNCHANGED <<status, taken, ours>>
     /\ UNCHANGED <<desk, decisions, moves>>

LoseDecision(u) ==
  /\ u.row # 0 /\ u.kind # "ghost" /\ u.answer # "fault"
  /\ runs' = (runs \ {u}) \cup {[u EXCEPT !.answer = "fault"]}
             \cup IF u.answer = "none" THEN {[u EXCEPT !.kind = "ghost", !.todo = {}, !.heard = FALSE]} ELSE {}
  /\ UNCHANGED <<status, desk, decisions, moves, taken, ours>>

(* After the await, in run and in the apply of runAll: what failed is      *)
(* reported as refused, with the code of the refusal or else of the fault. *)
HearDecision(u) ==
  LET failed == [desk.failed EXCEPT ![MutationOf(u.decision)] = IF u.answer = "done" THEN 0 ELSE u.row] IN
  /\ u.row # 0 /\ u.kind # "ghost" /\ u.answer # "none"
  /\ runs' = (runs \ {u}) \cup
       IF u.kind = "bulk" THEN {[u EXCEPT !.row = 0, !.answer = "none", !.todo = Remaining(u)]} ELSE {}
  /\ desk' =
       IF ~u.heard THEN desk
       ELSE IF u.kind = "bulk"
         THEN [desk EXCEPT !.report[u.row] = IF u.answer = "done" THEN "done" ELSE "refused",
                           !.faults = IF u.answer = "fault" THEN @ \cup {u.row} ELSE @,
                           !.failed = failed]
       ELSE [desk EXCEPT !.failed = failed, !.waiting = FALSE,
                         !.pending = IF u.answer = "done" THEN NoRow ELSE @]
  /\ UNCHANGED <<status, decisions, moves, taken, ours>>

QueueOfficer ==
  \/ OpenQueues \/ Refetch \/ LeaveQueues \/ CancelDecision \/ RunDecision \/ CancelAll \/ RunAll
  \/ \E r \in Row, d \in Decision : OnTransition(r, d)
  \/ \E d \in {"SHORTLIST", "REJECT"} : AskForAll(d)
QueueService ==
  \/ \E u \in runs : NextRow(u) \/ EndOfRun(u) \/ DecideApplication(u) \/ LoseDecision(u) \/ HearDecision(u)
  \/ \E r \in Row : MovesAway(r) \/ \E d \in Decision : SomeoneDecides(r, d)

DecisionsSpec == DecisionsInit /\ [][QueueOfficer \/ QueueService]_decisionVars

-----------------------------------------------------------------------------
(* Properties                                                              *)

DecisionsTypeOK ==
  /\ status \in [Row -> Status] /\ decisions \in 0..MaxDecisions /\ moves \in 0..MaxMoves /\ ours \subseteq Row
  /\ desk \in [at : {"away", "queues"}, list : [Row -> Status],
               pending : [row : 0..Rows, decision : Decision \cup {"none"}],
               failed : [Mutation -> 0..Rows], waiting : BOOLEAN,
               bulk : Decision \cup {"none"}, running : BOOLEAN, chosen : Decision \cup {"none"},
               targets : SUBSET Row, report : [Row -> {"none", "done", "refused"}],
               faults : SUBSET Row, bulked : BOOLEAN]
  /\ runs \subseteq [id : 1..MaxDecisions + 1, kind : {"row", "bulk", "ghost"}, decision : Decision,
                     row : 0..Rows, todo : SUBSET Row,
                     answer : {"none", "done", "refused", "fault"}, heard : BOOLEAN]
  /\ taken \in [Row -> SUBSET Decision]

(* "Report every row's own result": a row reported applied bears the       *)
(* decision, one reported refused with a code of the service was not       *)
(* decided by this run, and when the run is over no row it was asked to    *)
(* decide is without a result. Of a row reported refused with the code of  *)
(* a fault ("Refused (NETWORK)") nothing is said: the run may have decided *)
(* it, and the answer been lost.                                           *)
BulkReportIsTrue ==
  /\ \A r \in Row : /\ desk.report[r] = "done" => desk.chosen \in taken[r]
                    /\ desk.report[r] = "refused" /\ r \notin desk.faults => r \notin ours
  /\ ~desk.running => \A r \in desk.targets : desk.report[r] # "none"

(* A refusal that the dialog of a decision shows is of the row it decides, *)
(* unless it is the last one of a bulk: that stays with the mutation that  *)
(* shortlists and rejects (QueuesPage.tsx:190, 215-230), and is shown in   *)
(* the next dialog of either kind (274), whatever its row.                 *)
RefusalIsOfThisRow ==
  desk.pending.row # 0 =>
    LET m == MutationOf(desk.pending.decision) IN
    \/ desk.failed[m] \in {0, desk.pending.row}
    \/ desk.bulked /\ m = "finalDecision"

(* What an officer would take the dialog to say, and what is not so after  *)
(* a bulk (MCConsoleBulk.cfg): the refusal shown is always of this row.    *)
ShownRefusalIsOfThisRow ==
  desk.pending.row # 0 =>
    desk.failed[MutationOf(desk.pending.decision)] \in {0, desk.pending.row}
=============================================================================
