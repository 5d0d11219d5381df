--------------------------- MODULE ReadyBarrier ---------------------------
(***************************************************************************)
(* What a server of tables promises those who sit at them: a table opens   *)
(* its barrier only when everybody who is still there has answered since   *)
(* the barrier was armed, nobody comes in behind it, and nothing is played *)
(* before.  Several tables may take a step at once.  Module Lobby          *)
(* implements it.                                                          *)
(***************************************************************************)
CONSTANTS
  Table,     \* the tables there may be
  Client     \* those who may sit down

VARIABLES
  stage,     \* of each table: "Open", "Gathering" or "Playing"
  members,   \* who belongs to it
  heard      \* who has answered since the gathering began

Init ==
  /\ stage = [t \in Table |-> "Open"]
  /\ members = [t \in Table |-> {}]
  /\ heard = [t \in Table |-> {}]

Enter(t) ==
  /\ stage[t] = "Open" /\ stage'[t] = "Open"
  /\ \E c \in Client : members'[t] = members[t] \cup {c}
  /\ heard'[t] = heard[t]

Gather(t) ==
  /\ stage[t] = "Open" /\ stage'[t] = "Gathering"
  /\ members'[t] = members[t]
  /\ heard'[t] = {}

Hear(t) ==
  /\ stage[t] = "Gathering" /\ stage'[t] = "Gathering"
  /\ members'[t] = members[t]
  /\ \E c \in members[t] : heard'[t] = heard[t] \cup {c}

(* The last answer opens the barrier; a table that is too small to play on *)
(* is open again at once.                                                  *)
Begin(t) ==
  /\ stage[t] = "Gathering" /\ stage'[t] \in {"Playing", "Open"}
  /\ \E c \in members[t] : members[t] \subseteq heard[t] \cup {c}
  /\ members'[t] = members[t]
  /\ heard'[t] = {}

Finish(t) ==
  /\ stage[t] = "Playing" /\ stage'[t] = "Open"
  /\ UNCHANGED <<members[t], heard[t]>>

Leave(t) ==
  /\ UNCHANGED <<stage[t], heard[t]>>
  /\ \E c \in members[t] : members'[t] = members[t] \ {c}

Rest(t) == UNCHANGED <<stage[t], members[t], heard[t]>>

Next ==
  \A t \in Table :
    Enter(t) \/ Gather(t) \/ Hear(t) \/ Begin(t) \/ Finish(t) \/ Leave(t) \/ Rest(t)

Spec == Init /\ [][Next]_<<stage, members, heard>>
=============================================================================
