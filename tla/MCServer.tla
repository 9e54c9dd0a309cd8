------------------------------ MODULE MCServer ------------------------------
(* Two requests at a time; an agent may be given the other's place. *)
EXTENDS Server

CONSTANTS r1, r2

MCRequests == {r1, r2}
MCCalls == MCRequests \cup {Boot}
MCColumns == [b \in Tables |-> IF b = "agents" THEN <<"identity", "retired_at", "required">>
                               ELSE <<"task_id", "marked_at">>]
=============================================================================
