------------------------------ MODULE RunHistory ------------------------------
(***************************************************************************)
(* What the run history promises to whoever reads it, with the server that *)
(* keeps it left out: a run is absent, queued, running or settled; one run *)
(* at a time holds the device; only the holder moves from queued through   *)
(* running to a verdict; whatever nobody holds any more may be closed out  *)
(* to "error", all of it at once; and a settled run never changes again.   *)
(*                                                                         *)
(* RunServer implements this specification (see History there).            *)
(***************************************************************************)

CONSTANTS Runs,     \* the runs that may ever be asked for
          NoRun     \* not a run: nobody holds the device

VARIABLES doc,      \* doc[r]: the status the history shows for r
          holder    \* the run that holds the device

vars == <<doc, holder>>

Unsettled == {"queued", "running"}
Settled == {"passed", "failed", "error"}

Init == /\ doc = [r \in Runs |-> "absent"]
        /\ holder = NoRun

Record(r) == /\ doc[r] = "absent"
             /\ doc' = [doc EXCEPT ![r] = "queued"]
             /\ UNCHANGED holder

Take(r) == /\ holder = NoRun
           /\ doc[r] = "queued"
           /\ holder' = r
           /\ UNCHANGED doc

Begin == /\ holder # NoRun
         /\ doc[holder] = "queued"
         /\ doc' = [doc EXCEPT ![holder] = "running"]
         /\ UNCHANGED holder

(* A run that never got going can only end in "error".                     *)
Settle(v) == /\ holder # NoRun
             /\ doc[holder] \in Unsettled
             /\ doc[holder] = "queued" => v = "error"
             /\ doc' = [doc EXCEPT ![holder] = v]
             /\ UNCHANGED holder

Release == /\ holder' = NoRun
           /\ UNCHANGED doc

(* The holder may hand the device straight to the next run.                *)
HandOver(r) == /\ holder # NoRun
               /\ r # holder
               /\ doc[r] = "queued"
               /\ holder' = r
               /\ UNCHANGED doc

Abandon == /\ holder = NoRun
           /\ doc' = [r \in Runs |-> IF doc[r] \in Unsettled THEN "error" ELSE doc[r]]
           /\ UNCHANGED holder

Next == \/ \E r \in Runs : Record(r) \/ Take(r) \/ HandOver(r)
        \/ \E v \in Settled : Settle(v)
        \/ Begin \/ Release \/ Abandon

Spec == Init /\ [][Next]_vars
===============================================================================
