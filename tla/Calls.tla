------------------------------- MODULE Calls -------------------------------
(***************************************************************************)
(* What the request layer promises its callers: a call that has been made  *)
(* is settled once, with data or with an error, and always is.             *)
(***************************************************************************)
CONSTANT Call

VARIABLE outcome

CallsInit == outcome = [c \in Call |-> "none"]

Open(c) == outcome[c] = "none" /\ outcome' = [outcome EXCEPT ![c] = "open"]

Settle(c) ==
    /\ outcome[c] = "open"
    /\ \E result \in {"data", "error"} : outcome' = [outcome EXCEPT ![c] = result]

CallsNext == \E c \in Call : Open(c) \/ Settle(c)

CallsSpec ==
    /\ CallsInit /\ [][CallsNext]_outcome
    /\ \A c \in Call : WF_outcome(Settle(c))
=============================================================================
