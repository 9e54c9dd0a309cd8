------------------------------- MODULE MCInbox -------------------------------
(* Two sessions of one agent, and a message of the cutoff's second or a later one. *)
EXTENDS Inbox

CONSTANTS alice, alice1, alice2

MCPrincipals == {alice}
MCCallers == {alice1, alice2}
MCAgentOf == [c \in MCCallers |-> alice]
MCStamps == {[second |-> 1, fraction |-> TRUE], [second |-> 2, fraction |-> FALSE]}
=============================================================================
