------------------------------ MODULE Clearance ------------------------------
(***************************************************************************)
(* The criminal-record certificate number (apps/applicant-portal/src/      *)
(* routes/documents/ClearanceBlock.tsx and the page's poll in index.tsx):  *)
(* a number is accepted before it is recorded and recorded before the      *)
(* registry has answered, so the block says "sent", reads the checklist    *)
(* again at every tick, and gives up after SentWait of them.               *)
(***************************************************************************)
EXTENDS Integers

CONSTANTS
  SentWait,     \* SENT_WAIT_MS in polls of POLL_MS
  MaxNumbers    \* bound: numbers sent

ASSUME ClearanceBounds == SentWait \in Nat \ {0} /\ MaxNumbers \in Nat

VARIABLES
  shown,        \* clearance.state in the checklist the page has
  reading,      \* the checklist read under way: no, asked, or its answer
  attach,       \* useAttachMyClearanceCertificate, as this mount observes it
  numbers,      \* numbers sent so far
  asks,         \* requests under way, named by their number
  giveUp,       \* polls left until the timer fires
  clearance,    \* the service: the state of the certificate
  accepted,     \* numbers the edge accepted that no consumer has recorded
  sentFor       \* history: polls since "sent" stands over a wanted number

clearanceVars == <<shown, reading, attach, numbers, asks, giveUp, clearance, accepted, sentFor>>

States == {"NUMBER_REQUIRED", "VERIFYING", "CORRECTION_NEEDED", "UNDER_OFFICER_REVIEW", "VERIFIED"}
WantsNumber(state) == state \in {"NUMBER_REQUIRED", "CORRECTION_NEEDED"}
NoAttempt == [status |-> "idle", number |-> 0]

(* "Sent" over a field that is still wanted: the record is awaited.        *)
AwaitingRecord == attach.status = "sent" /\ WantsNumber(shown)
InFlight == shown = "VERIFYING"

ClearanceInit ==
  /\ shown = "NUMBER_REQUIRED" /\ reading = "no" /\ attach = NoAttempt
  /\ numbers = 0 /\ asks = {} /\ giveUp = 0
  /\ clearance = "NUMBER_REQUIRED" /\ accepted = 0 /\ sentFor = 0

(* The effect on awaitingRecord: it arms the timer when the wait begins    *)
(* and clears it when the wait ends, and no render between restarts it.    *)
EveryRenderRearms ==   \* mutant
  /\ giveUp' = IF AwaitingRecord' THEN SentWait ELSE 0
  /\ sentFor' = IF AwaitingRecord' THEN sentFor ELSE 0
Rearm ==
  /\ giveUp' = IF ~AwaitingRecord' THEN 0 ELSE IF AwaitingRecord THEN giveUp ELSE SentWait
  /\ sentFor' = IF AwaitingRecord' THEN sentFor ELSE 0

(* The citizen types a number of the right shape and sends it.             *)
SendNumber ==
  /\ WantsNumber(shown) /\ attach.status \notin {"sent", "pending"}
  /\ numbers < MaxNumbers
  /\ numbers' = numbers + 1
  /\ attach' = [status |-> "pending", number |-> numbers']
  /\ asks' = asks \cup {[number |-> numbers', answer |-> "none"]}
  /\ UNCHANGED <<shown, reading, clearance, accepted>>
  /\ Rearm

(* Its answer, if the attempt has not been put away meanwhile; a success   *)
(* invalidates the checklist.                                              *)
HearAttach(a) ==
  /\ a.answer # "none" /\ asks' = asks \ {a}
  /\ IF attach = [status |-> "pending", number |-> a.number]
     THEN /\ attach' = [attach EXCEPT !.status = a.answer]
          /\ reading' = IF a.answer = "sent" THEN "asked" ELSE reading
     ELSE UNCHANGED <<attach, reading>>
  /\ UNCHANGED <<shown, numbers, clearance, accepted>>
  /\ Rearm

LoseAttach(a) ==
  /\ attach = [status |-> "pending", number |-> a.number]
  /\ attach' = [attach EXCEPT !.status = "failed"]
  /\ asks' = IF a.answer = "none" THEN asks ELSE asks \ {a}
  /\ UNCHANGED <<shown, reading, numbers, clearance, accepted>>
  /\ Rearm

(* A poll interval passes: the block's poll or the page's reads again, in  *)
(* place of a read that has not answered.                                  *)
Poll ==
  /\ AwaitingRecord => giveUp > 0
  /\ reading' = IF AwaitingRecord \/ InFlight THEN "asked" ELSE reading
  /\ giveUp' = IF AwaitingRecord THEN giveUp - 1 ELSE giveUp
  /\ sentFor' = IF AwaitingRecord THEN sentFor + 1 ELSE sentFor
  /\ UNCHANGED <<shown, attach, numbers, asks, clearance, accepted>>

GiveUp ==
  /\ AwaitingRecord /\ giveUp = 0
  /\ attach' = NoAttempt
  /\ UNCHANGED <<shown, reading, numbers, asks, clearance, accepted>>
  /\ Rearm

(* The read answers. A state that wants a number puts the attempt away     *)
(* when it is another than the one shown.                                  *)
HearChecklist ==
  /\ reading \in States /\ reading' = "no" /\ shown' = reading
  /\ attach' = IF reading # shown /\ WantsNumber(reading) THEN NoAttempt ELSE attach
  /\ UNCHANGED <<numbers, asks, clearance, accepted>>
  /\ Rearm

LoseChecklist ==
  /\ reading # "no" /\ reading' = "no"
  /\ UNCHANGED <<shown, attach, numbers, asks, giveUp, clearance, accepted, sentFor>>

LeaveClearance ==
  /\ shown' = clearance /\ reading' = "no" /\ attach' = NoAttempt
  /\ UNCHANGED <<numbers, asks, clearance, accepted>>
  /\ Rearm

-----------------------------------------------------------------------------
(* The edge, the consumer behind it and the registry                       *)

AnswerChecklist ==
  /\ reading = "asked" /\ reading' = clearance
  /\ UNCHANGED <<shown, attach, numbers, asks, giveUp, clearance, accepted, sentFor>>

Attach(a) ==
  /\ a.answer = "none"
  /\ \E answer \in {"failed", IF WantsNumber(clearance) THEN "sent" ELSE "closed"} :
       /\ asks' = (asks \ {a}) \cup {[a EXCEPT !.answer = answer]}
       /\ accepted' \in IF answer = "closed" THEN {accepted}
                        ELSE IF answer = "sent" THEN {accepted + 1}
                        ELSE IF WantsNumber(clearance) THEN {accepted, accepted + 1} ELSE {accepted}
  /\ UNCHANGED <<shown, reading, attach, numbers, giveUp, clearance, sentFor>>

RecordNumber ==
  /\ accepted > 0 /\ accepted' = accepted - 1
  /\ clearance' = IF WantsNumber(clearance) THEN "VERIFYING" ELSE clearance
  /\ UNCHANGED <<shown, reading, attach, numbers, asks, giveUp, sentFor>>

AnswerRegistry ==
  /\ \/ clearance = "VERIFYING" /\ clearance' \in {"CORRECTION_NEEDED", "UNDER_OFFICER_REVIEW", "VERIFIED"}
     \/ clearance = "UNDER_OFFICER_REVIEW" /\ clearance' \in {"CORRECTION_NEEDED", "VERIFIED"}
  /\ UNCHANGED <<shown, reading, attach, numbers, asks, giveUp, accepted, sentFor>>

ClearanceNext ==
  \/ SendNumber \/ Poll \/ GiveUp \/ HearChecklist \/ LoseChecklist \/ LeaveClearance
  \/ \E a \in asks : HearAttach(a) \/ LoseAttach(a) \/ Attach(a)
  \/ AnswerChecklist \/ RecordNumber \/ AnswerRegistry

-----------------------------------------------------------------------------
(* Properties                                                              *)

ClearanceTypeOK ==
  /\ shown \in States /\ reading \in States \cup {"no", "asked"} /\ clearance \in States
  /\ numbers \in 0..MaxNumbers /\ accepted \in Nat /\ giveUp \in 0..SentWait /\ sentFor \in Nat
  /\ attach \in [status : {"idle", "pending", "sent", "failed", "closed"}, number : 0..MaxNumbers]
  /\ asks \subseteq [number : 1..MaxNumbers, answer : {"none", "sent", "failed", "closed"}]

(* "How long the block waits for an accepted number to show up in the      *)
(* checklist before offering the field again": whatever is read, recorded  *)
(* or answered meanwhile, "sent" never hides a wanted field for longer.    *)
FieldComesBack == sentFor <= SentWait
=============================================================================
