------------------------------ MODULE MCLobby ------------------------------
(* Lobby on small instances: which accounts the clients come with. *)
EXTENDS Lobby

OtherAccounts == [c \in Client |-> 100 + c]
SameAccounts == [c \in Client |-> c]

(* Two clients who come with each other's ids: see the README. *)
SwappedAccounts == [c \in Client |-> CASE c = 1 -> 2 [] c = 2 -> 1 [] OTHER -> 100 + c]
=============================================================================
