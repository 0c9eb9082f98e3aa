----------------------------- MODULE Membership -----------------------------
(***************************************************************************)
(* What services/auth/contract.go promises of an account, whatever the      *)
(* statements it is made of: an address is unknown, pending or active, it   *)
(* is activated by a mail sent to it or because an identity provider        *)
(* vouched for it, and only the owner of an active account gets in.         *)
(***************************************************************************)
CONSTANT Emails

VARIABLES
    state,    \* of each address
    invited,  \* addresses an activation mail was sent to
    inside    \* addresses of those who are signed in

vars == <<state, invited, inside>>

Init ==
    /\ state = [e \in Emails |-> "unknown"]
    /\ invited = {}
    /\ inside = {}

Register(e) ==
    /\ state[e] = "unknown"
    /\ state' = [state EXCEPT ![e] = "pending"]
    /\ UNCHANGED <<invited, inside>>

Invite(e) ==
    /\ state[e] # "unknown"
    /\ invited' = invited \cup {e}
    /\ UNCHANGED <<state, inside>>

Activate(e) ==
    /\ state[e] = "pending" /\ e \in invited
    /\ state' = [state EXCEPT ![e] = "active"]
    /\ UNCHANGED <<invited, inside>>

RegisterOAuth(e) ==
    /\ state[e] = "unknown"
    /\ state' = [state EXCEPT ![e] = "active"]
    /\ UNCHANGED <<invited, inside>>

Login(e) ==
    /\ state[e] = "active"
    /\ inside' = inside \cup {e}
    /\ UNCHANGED <<state, invited>>

\* A session ends.
Leave(e) ==
    /\ inside' = inside \ {e}
    /\ UNCHANGED <<state, invited>>

Next ==
    \E e \in Emails :
        \/ Register(e) \/ Invite(e) \/ Activate(e) \/ RegisterOAuth(e)
        \/ Login(e) \/ Leave(e)

Spec == Init /\ [][Next]_vars

=============================================================================
