---------------------------- MODULE SyncMachine ----------------------------
(***************************************************************************)
(* The client sync state machine of the field ledger                       *)
(* (packages/field-ledger/src/sync-machine.ts) and the mapping of the      *)
(* server's per-record statuses onto its ACK outcomes (sync-mapping.ts).   *)
(* Both are pure: every other module applies them, none has a variable     *)
(* here.                                                                   *)
(***************************************************************************)
CONSTANT OfflineQueue   \* SyncPolicy.offlineQueue: FALSE in the pilot build

ASSUME OfflineQueueAssumption == OfflineQueue \in BOOLEAN

SyncState == {"LOCAL_ONLY", "QUEUED", "SENDING", "ACCEPTED",
              "DUPLICATE_REPLAY", "REJECTED_VALIDATION", "STALE_CONFLICT",
              "NEEDS_SUPERVISOR", "RESOLVED"}

TerminalStates == {"ACCEPTED", "DUPLICATE_REPLAY", "REJECTED_VALIDATION",
                   "RESOLVED"}

\* What an ACK may carry, and the events that carry nothing.
AckOutcome == {"ACCEPTED", "DUPLICATE_REPLAY", "REJECTED_VALIDATION",
               "STALE_CONFLICT"}

PlainEvent == {"ENQUEUE", "SEND", "SEND_UNCERTAIN", "ESCALATE", "RESOLVED"}

\* An ACK is named by its outcome with the prefix dropped: the event
\* [type |-> "ACK", outcome |-> o] of the source.
SyncEvent == [type : PlainEvent] \cup [type : {"ACK"}, outcome : AckOutcome]

Plain(name) == [type |-> name]
Ack(o) == [type |-> "ACK", outcome |-> o]

\* Mutant: an uncertain send stays where it is.
WaitingStateStuck == "SENDING"

\* A send whose answer never arrived returns to the state it may be sent from.
WaitingState == IF OfflineQueue THEN "QUEUED" ELSE "LOCAL_ONLY"

\* The states an event is accepted from; in every other one it is refused.
AcceptedFrom(e) ==
  CASE e.type = "ENQUEUE"        -> IF OfflineQueue THEN {"LOCAL_ONLY"} ELSE {}
    [] e.type = "SEND"           -> {"LOCAL_ONLY", "QUEUED"}
    [] e.type = "ACK"            -> {"SENDING"}
    [] e.type = "SEND_UNCERTAIN" -> {"SENDING"}
    [] e.type = "ESCALATE"       -> {"STALE_CONFLICT"}
    [] e.type = "RESOLVED"       -> {"NEEDS_SUPERVISOR"}

Target(e) ==
  CASE e.type = "ENQUEUE"        -> "QUEUED"
    [] e.type = "SEND"           -> "SENDING"
    [] e.type = "ACK"            -> e.outcome
    [] e.type = "SEND_UNCERTAIN" -> WaitingState
    [] e.type = "ESCALATE"       -> "NEEDS_SUPERVISOR"
    [] e.type = "RESOLVED"       -> "RESOLVED"

----------------------------------------------------------------------------
\* What a screen may call saved, what a send picks up, what a supervisor holds.
ServerAcknowledged == {"ACCEPTED", "DUPLICATE_REPLAY", "RESOLVED"}
Sendable == {"LOCAL_ONLY", "QUEUED"}
Waiting == Sendable \cup {"SENDING"}
Held == {"STALE_CONFLICT", "NEEDS_SUPERVISOR"}

\* The per-record statuses of a sync answer, and the ACK each one becomes.
RecordStatus == {"ACCEPTED", "SUPERSEDED", "DUPLICATE", "CONFLICT", "STALE",
                 "NOT_FOUND", "REJECTED"}

OutcomeOf(status) ==
  CASE status \in {"ACCEPTED", "SUPERSEDED"}  -> "ACCEPTED"
    [] status = "DUPLICATE"                   -> "DUPLICATE_REPLAY"
    [] status \in {"CONFLICT", "STALE"}       -> "STALE_CONFLICT"
    [] status \in {"NOT_FOUND", "REJECTED"}   -> "REJECTED_VALIDATION"

=============================================================================
