----------------------------- MODULE MCStations -----------------------------
(* Stations on small instances: two candidates with passes of their own.   *)
EXTENDS Stations, TLC
CONSTANTS alice, bob, passA, passB, north
MCHolderOf == (passA :> alice) @@ (passB :> bob)
MCVenueOf == (passA :> north) @@ (passB :> north)
=============================================================================
