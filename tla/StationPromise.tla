-------------------------- MODULE StationPromise --------------------------
(***************************************************************************)
(* What a station promises about a captured record, without saying how: a  *)
(* claim it shows is backed by what the server has decided, and a claim    *)
(* once made is never taken back. FieldSync implements it.                 *)
(***************************************************************************)
EXTENDS Naturals

CONSTANT Rec

VARIABLES
  fate,     \* [Rec -> what the station says of the record]
  truth,    \* [Rec -> what the server holds of it]
  refused   \* the records the server or the device has refused

promiseVars == <<fate, truth, refused>>

Fate == {"absent", "waiting", "saved", "refused", "held", "resolved"}
Truth == {"unknown", "stored", "held", "settled"}

PromiseTypeOK ==
  /\ fate \in [Rec -> Fate]
  /\ truth \in [Rec -> Truth]
  /\ refused \subseteq Rec

PromiseInit ==
  /\ fate = [r \in Rec |-> "absent"]
  /\ truth = [r \in Rec |-> "unknown"]
  /\ refused = {}

Becomes(r, from, to) ==
  /\ fate[r] = from
  /\ fate' = [fate EXCEPT ![r] = to]

\* Local first: a record exists before anything is said about it. The signer
\* may fail on it at once.
Record(r) == /\ Becomes(r, "absent", "waiting")
             /\ refused \subseteq refused' /\ UNCHANGED truth

Save(r) == /\ Becomes(r, "waiting", "saved")
           /\ truth[r] # "unknown"
           /\ UNCHANGED <<truth, refused>>

Refuse(r) == /\ Becomes(r, "waiting", "refused")
             /\ r \in refused
             /\ UNCHANGED <<truth, refused>>

Hold(r) == /\ Becomes(r, "waiting", "held")
           /\ truth[r] \in {"held", "settled"}
           /\ UNCHANGED <<truth, refused>>

Settle(r) == /\ Becomes(r, "held", "resolved")
             /\ truth[r] = "settled"
             /\ UNCHANGED <<truth, refused>>

\* The server decides on its own time, and decides a record once.
Moves == {<<"unknown", "stored">>, <<"unknown", "held">>, <<"held", "settled">>}

Decide ==
  /\ \A r \in Rec : truth'[r] = truth[r] \/ <<truth[r], truth'[r]>> \in Moves
  /\ truth' \in [Rec -> Truth]
  /\ refused \subseteq refused'
  /\ refused' \subseteq Rec
  /\ UNCHANGED fate

PromiseNext ==
  \/ \E r \in Rec : Record(r) \/ Save(r) \/ Refuse(r) \/ Hold(r) \/ Settle(r)
  \/ Decide

PromiseSpec == PromiseInit /\ [][PromiseNext]_promiseVars

=============================================================================
