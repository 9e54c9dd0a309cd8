------------------------------ MODULE Identity ------------------------------
(***************************************************************************)
(* Who may call the hub and which mailboxes exist.                         *)
(*                                                                         *)
(* An identity is "principal/session": the principal is the agent a bearer *)
(* token belongs to, the session is declared by the client.  Both the bare *)
(* principal (the agent-wide mailbox) and principal/session (one process)  *)
(* can be addressed.  The text of an identity is abstracted to a value;    *)
(* what the code reads from it, the part before "/", is agentOf.           *)
(***************************************************************************)
CONSTANTS
  Principals, \* agents that hold (or held) a bearer token
  Callers,    \* authenticated identities, "principal/session"
  agentOf,    \* the part of an identity before the first "/"
  Known,      \* principals the executor accepts as recipients
  Misaddressed \* every other recipient: none given, no such agent, bad session

ASSUME IdentityAssumption ==
  /\ agentOf \in [Callers -> Principals]
  /\ Known \subseteq Principals
  /\ Callers \cap Principals = {}
  /\ Misaddressed \cap (Callers \cup Principals) = {}

Mailboxes == Callers \cup Principals
Addresses == Mailboxes \cup Misaddressed

principal_of(m) == IF m \in Callers THEN agentOf[m] ELSE m

\* A recipient is accepted when it has the shape of a mailbox and its principal
\* is known; a session that never called is addressable.
is_valid_identity(a) == a \in Mailboxes /\ principal_of(a) \in Known

\* The owners whose tasks a caller reads: its own mailbox and its agent's.
ReadOwners(c) == {c, principal_of(c)}
=============================================================================
