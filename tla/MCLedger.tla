------------------------------ MODULE MCLedger ------------------------------
(* Ledger on small instances: one tab, and two tabs over one store.        *)
EXTENDS Ledger
=============================================================================
