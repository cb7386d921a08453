----------------------------- MODULE MCRunServer -----------------------------
(* Values of RunServer's constants for TLC. *)
EXTENDS RunServer

CONSTANTS single, batch

MCSize == [q \in Requests |-> IF q = batch THEN 2 ELSE 1]

LongBatch == [q \in Requests |-> IF q = batch THEN 3 ELSE 1]
===============================================================================
