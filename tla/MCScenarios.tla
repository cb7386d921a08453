----------------------------- MODULE MCScenarios -----------------------------
(* Values of Scenarios' constants for TLC. *)
EXTENDS Scenarios

CONSTANTS login, search

MCListing == <<login, search>>

MCFiles == <<login>>
===============================================================================
