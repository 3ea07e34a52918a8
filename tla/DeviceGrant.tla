---------------------------- MODULE DeviceGrant ----------------------------
(***************************************************************************)
(* What the device flow promises, with no requests, no clock and no        *)
(* database: a device authorization is opened, approved by one user or     *)
(* lapses, and is redeemed at most once, in one step, for one token that   *)
(* belongs to the user who approved it.                                    *)
(***************************************************************************)
CONSTANTS Devices, Users, Tokens, NoUser

VARIABLES
    grant,   \* Devices -> [state, user]
    handed   \* the tokens handed out: [dev, user, token]

grantVars == <<grant, handed>>

GrantInit ==
    /\ grant = [d \in Devices |-> [state |-> "none", user |-> NoUser]]
    /\ handed = {}

Open(d) ==
    /\ grant[d].state = "none"
    /\ grant' = [grant EXCEPT ![d].state = "pending"]
    /\ UNCHANGED handed

Approve(d, u) ==
    /\ grant[d].state = "pending"
    /\ grant' = [grant EXCEPT ![d] = [state |-> "approved", user |-> u]]
    /\ UNCHANGED handed

Lapse(d) ==
    /\ grant[d].state = "pending"
    /\ grant' = [grant EXCEPT ![d].state = "expired"]
    /\ UNCHANGED handed

\* The token has not been handed out before.
Redeem(d, t) ==
    /\ grant[d].state = "approved"
    /\ \A h \in handed : h.token # t
    /\ grant' = [grant EXCEPT ![d].state = "consumed"]
    /\ handed' = handed \cup {[dev |-> d, user |-> grant[d].user, token |-> t]}

GrantNext ==
    \E d \in Devices :
        \/ Open(d)
        \/ Lapse(d)
        \/ \E u \in Users : Approve(d, u)
        \/ \E t \in Tokens : Redeem(d, t)

GrantSpec == GrantInit /\ [][GrantNext]_grantVars

=============================================================================
