------------------------------- MODULE MCMarks -------------------------------
(* One message between two agents; the addressed agent may have two sessions. *)
EXTENDS Marks

CONSTANTS alice, bob, alice1, alice2, bob1, ghost

MCPrincipals == {alice, bob}
MCCallers == {alice1, alice2, bob1}
MCAgentOf == [c \in MCCallers |-> IF c = bob1 THEN bob ELSE alice]
MCMisaddressed == {ghost}
=============================================================================
