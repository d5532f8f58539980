------------------------------- MODULE Ledger -------------------------------
(***************************************************************************)
(* The field ledger between its awaits (packages/field-ledger/src/ledger.ts*)
(* over storage.ts): each tab chains its appends and applies on one tail,  *)
(* every tab writes the same IndexedDB store.                              *)
(***************************************************************************)
EXTENDS Naturals, FiniteSets, Sequences, SyncMachine

CONSTANTS
  Tab,          \* tabs open on the device
  MaxRecords,   \* bound: appends requested
  MaxApplies,   \* bound: applies requested
  MaxFaults     \* bound: signer, storage and tab failures

ASSUME LedgerBounds == MaxRecords \in Nat /\ MaxApplies \in Nat /\ MaxFaults \in Nat

\* A recordId is a UUIDv7: fresh for every append. 0 is the id of no record.
Id == 1..MaxRecords

Event == [type : {"SEND", "SEND_UNCERTAIN"}] \cup [type : {"ACK"}, outcome : {"ACCEPTED"}]
Job == [kind : {"append"}, id : Id] \cup [kind : {"apply"}, id : Id, event : Event]

VARIABLES
  rows,      \* [Id -> [seq, state]]: the object store; survives a crash
  tail,      \* [Tab -> Seq(Job)]: work chained on the tab's tail promise
  phase,     \* [Tab -> where the job at the head is, between awaits]
  read,      \* [Tab -> what the job at the head read from the store]
  asked,     \* appends requested so far: ids are handed out in this order
  applied,   \* applies requested so far
  faults     \* faults left to happen

ledgerVars == <<rows, tail, phase, read, asked, applied, faults>>

Nothing == [seq |-> 0, state |-> "LOCAL_ONLY"]
Stored == {i \in Id : rows[i].seq > 0}
Phase == {"idle", "sequenced", "signed", "got"}

LedgerTypeOK ==
  /\ rows \in [Id -> [seq : 0..MaxRecords, state : SyncState]]
  /\ tail \in [Tab -> Seq(Job)]
  /\ phase \in [Tab -> Phase]
  /\ read \in [Tab -> [seq : 0..MaxRecords, state : SyncState]]
  /\ asked \in 0..MaxRecords
  /\ applied \in 0..MaxApplies
  /\ faults \in 0..MaxFaults

LedgerInit ==
  /\ rows = [i \in Id |-> Nothing]
  /\ tail = [t \in Tab |-> <<>>]
  /\ phase = [t \in Tab |-> "idle"]
  /\ read = [t \in Tab |-> Nothing]
  /\ asked = 0 /\ applied = 0
  /\ faults = MaxFaults

----------------------------------------------------------------------------
\* append(): chained behind whatever the tab is doing.
RequestAppend(t) ==
  /\ asked < MaxRecords
  /\ asked' = asked + 1
  /\ tail' = [tail EXCEPT ![t] = Append(@, [kind |-> "append", id |-> asked + 1])]
  /\ UNCHANGED <<rows, phase, read, applied, faults>>

\* apply(): on any record some append was requested for.
RequestApply(t, e) ==
  /\ applied < MaxApplies
  /\ applied' = applied + 1
  /\ \E i \in 1..asked :
       tail' = [tail EXCEPT ![t] = Append(@, [kind |-> "apply", id |-> i, event |-> e])]
  /\ UNCHANGED <<rows, phase, read, asked, faults>>

\* The job the tab is running, and its end: the next one may start.
Running(t, kind) == tail[t] # <<>> /\ Head(tail[t]).kind = kind

Settle(t) ==
  /\ tail' = [tail EXCEPT ![t] = Tail(@)]
  /\ phase' = [phase EXCEPT ![t] = "idle"]
  /\ read' = [read EXCEPT ![t] = Nothing]

\* The highest sequence stored for the device, 0 when there is none.
LastSequence == CHOOSE n \in 0..MaxRecords :
                  /\ \A i \in Id : rows[i].seq <= n
                  /\ n = 0 \/ \E i \in Id : rows[i].seq = n

\* appendOne: the sequence is read ...
ReadSequence(t) ==
  /\ Running(t, "append") /\ phase[t] = "idle"
  /\ read' = [read EXCEPT ![t].seq = LastSequence]
  /\ phase' = [phase EXCEPT ![t] = "sequenced"]
  /\ UNCHANGED <<rows, tail, asked, applied, faults>>

\* ... the payload digested and the envelope signed ...
Sign(t) ==
  /\ phase[t] = "sequenced"
  /\ phase' = [phase EXCEPT ![t] = "signed"]
  /\ UNCHANGED <<rows, tail, read, asked, applied, faults>>

\* Mutant: appends are numbered as they are requested, not as they are stored.
PutMutant(t) ==
  /\ phase[t] = "signed"
  /\ rows' = [rows EXCEPT ![Head(tail[t]).id] =
                [seq |-> Head(tail[t]).id, state |-> "LOCAL_ONLY"]]
  /\ Settle(t)
  /\ UNCHANGED <<asked, applied, faults>>

\* ... and the record added to the store.
Put(t) ==
  /\ phase[t] = "signed"
  /\ rows' = [rows EXCEPT ![Head(tail[t]).id] =
                [seq |-> read[t].seq + 1, state |-> "LOCAL_ONLY"]]
  /\ Settle(t)
  /\ UNCHANGED <<asked, applied, faults>>

\* apply: the record is read; without one there is nothing to do ...
Get(t) ==
  /\ Running(t, "apply") /\ phase[t] = "idle"
  /\ IF Head(tail[t]).id \in Stored
       THEN /\ read' = [read EXCEPT ![t] = rows[Head(tail[t]).id]]
            /\ phase' = [phase EXCEPT ![t] = "got"]
            /\ UNCHANGED tail
       ELSE Settle(t)
  /\ UNCHANGED <<rows, asked, applied, faults>>

\* Mutant: the event is written whatever the machine says.
SetMutant(t) ==
  /\ phase[t] = "got"
  /\ rows' = [rows EXCEPT ![Head(tail[t]).id].state = Target(Head(tail[t]).event)]
  /\ Settle(t)
  /\ UNCHANGED <<asked, applied, faults>>

\* ... the machine is asked about the state READ, and what it says is written.
Set(t) ==
  /\ phase[t] = "got"
  /\ LET job == Head(tail[t]) IN
     rows' = IF read[t].state \in AcceptedFrom(job.event)
               THEN [rows EXCEPT ![job.id].state = Target(job.event)] ELSE rows
  /\ Settle(t)
  /\ UNCHANGED <<asked, applied, faults>>

\* Mutant: a rejected job is not caught, and nothing behind it starts.
FailMutant(t) ==
  /\ tail[t] # <<>>
  /\ faults > 0 /\ faults' = faults - 1
  /\ phase' = [phase EXCEPT ![t] = "rejected"]
  /\ UNCHANGED <<rows, tail, read, asked, applied>>

\* The signer or the storage throws: the job is rejected, the tail goes on.
Fail(t) ==
  /\ tail[t] # <<>>
  /\ faults > 0 /\ faults' = faults - 1
  /\ Settle(t)
  /\ UNCHANGED <<rows, asked, applied>>

\* The tab crashes or closes: its tail is gone, the store is not.
Crash(t) ==
  /\ faults > 0 /\ faults' = faults - 1
  /\ tail' = [tail EXCEPT ![t] = <<>>]
  /\ phase' = [phase EXCEPT ![t] = "idle"]
  /\ read' = [read EXCEPT ![t] = Nothing]
  /\ UNCHANGED <<rows, asked, applied>>

Work(t) == ReadSequence(t) \/ Sign(t) \/ Put(t) \/ Get(t) \/ Set(t)

LedgerNext ==
  \E t \in Tab :
    \/ RequestAppend(t)
    \/ \E e \in Event : RequestApply(t, e)
    \/ Work(t)
    \/ Fail(t)
    \/ Crash(t)

LedgerSpec == LedgerInit /\ [][LedgerNext]_ledgerVars
FairLedgerSpec == LedgerSpec /\ \A t \in Tab : WF_ledgerVars(Work(t))

----------------------------------------------------------------------------
(* Properties *)

\* Stored sequences are distinct, gap-free, and in the order the captures were
\* asked for, whatever failed in between. (The comment on createLedger: "two
\* concurrent appends must not read the same lastSequence".)
InCaptureOrder ==
  /\ {rows[i].seq : i \in Stored} = 1..Cardinality(Stored)
  /\ \A i, j \in Stored : i < j => rows[i].seq < rows[j].seq

Atomic == INSTANCE AtomicLedger

\* With its awaits in between, a tab's ledger acts as if each append and each
\* apply were one step: what FieldSync takes it for.
ActsAtomically == Atomic!AtomicSpec

\* A job that fails does not hold up the ones chained behind it: the tail of a
\* tab always runs empty again (serialised(), ledger.ts).
TailRunsEmpty == \A t \in Tab : tail[t] # <<>> ~> tail[t] = <<>>

=============================================================================
