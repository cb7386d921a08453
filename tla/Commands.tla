------------------------------- MODULE Commands --------------------------------
(***************************************************************************)
(* What a connection promises its callers, with ids, timers and the wire   *)
(* left out: a command that was asked is answered once; when the           *)
(* connection dies everybody who waits is refused at that moment, and      *)
(* whoever asks later is refused at once.                                  *)
(*                                                                         *)
(* CdpConnection implements this specification (see Promise there).        *)
(***************************************************************************)
CONSTANT Callers

VARIABLES call,     \* call[c]: how the latest command of c stands
          dead      \* the connection is gone

vars == <<call, dead>>

Init == /\ call = [c \in Callers |-> "idle"]
        /\ dead = FALSE

Refuse(c) == /\ call[c] # "waiting"
             /\ call' = [call EXCEPT ![c] = "rejected"]
             /\ UNCHANGED dead

Ask(c) == /\ ~dead
          /\ call[c] # "waiting"
          /\ call' = [call EXCEPT ![c] = "waiting"]
          /\ UNCHANGED dead

Answer(c) == /\ call[c] = "waiting"
             /\ \E outcome \in {"resolved", "rejected"} : call' = [call EXCEPT ![c] = outcome]
             /\ UNCHANGED dead

Die == /\ ~dead
       /\ dead' = TRUE
       /\ call' = [c \in Callers |-> IF call[c] = "waiting" THEN "rejected" ELSE call[c]]

Next == \/ \E c \in Callers : Refuse(c) \/ Ask(c) \/ Answer(c)
        \/ Die

Spec == Init /\ [][Next]_vars
===============================================================================
