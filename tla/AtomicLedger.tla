---------------------------- MODULE AtomicLedger ----------------------------
(***************************************************************************)
(* What a station may rely on from the ledger: an append stores the next   *)
(* record in sequence, an apply asks the state machine and writes what it  *)
(* says, and each is one step. FieldSync relies on it; Ledger implements   *)
(* it with awaits in between.                                              *)
(***************************************************************************)
EXTENDS Naturals, FiniteSets, SyncMachine

CONSTANT Id

VARIABLE rows   \* [Id -> [seq, state]]: seq 0 where nothing is stored

Nothing == [seq |-> 0, state |-> "LOCAL_ONLY"]
Stored == {i \in Id : rows[i].seq > 0}

AtomicInit == rows = [i \in Id |-> Nothing]

Append(i) ==
  /\ i \notin Stored
  /\ rows' = [rows EXCEPT ![i] = [seq |-> Cardinality(Stored) + 1, state |-> "LOCAL_ONLY"]]

Write(i, e) ==
  /\ i \in Stored
  /\ rows[i].state \in AcceptedFrom(e)
  /\ rows' = [rows EXCEPT ![i].state = Target(e)]

AtomicNext == \E i \in Id : Append(i) \/ \E e \in SyncEvent : Write(i, e)

AtomicSpec == AtomicInit /\ [][AtomicNext]_rows

=============================================================================
