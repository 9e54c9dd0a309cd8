----------------------------- MODULE MCDelivery -----------------------------
(* Two agents, one with two sessions, and an address that is no mailbox. *)
EXTENDS Delivery

CONSTANTS alice, bob, alice1, alice2, bob1, ghost

MCPrincipals == {alice, bob}
MCCallers == {alice1, alice2, bob1}
MCAgentOf == [c \in MCCallers |-> IF c = bob1 THEN bob ELSE alice]
MCMisaddressed == {ghost}
=============================================================================
