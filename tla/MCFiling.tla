------------------------------ MODULE MCFiling ------------------------------
(* The citizen's pages on small instances: two campaigns, of which one     *)
(* offers both categories, and a category of either path; two document     *)
(* types and two files.                                                    *)
EXTENDS Portal, TLC
CONSTANTS c1, c2, alevel, university, identity, diploma
MCOffered == (c1 :> {alevel, university}) @@ (c2 :> {university})
MCPathOf == (alevel :> "NESA") @@ (university :> "HEC")
MCCatalogue == <<identity, diploma>>
=============================================================================
