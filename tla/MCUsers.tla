------------------------------- MODULE MCUsers -------------------------------
(***************************************************************************)
(* The users table for TLC: behaviours in which the profile of one user is *)
(* updated, and behaviours in which accounts come and go.  The two share   *)
(* no step, so each behaviour takes the steps of one of them.              *)
(***************************************************************************)
EXTENDS Profile, Accounts, TLC

VARIABLE part   \* which of the two this behaviour is about

ASSUME AccountConstants == AccountsAssumption

UsersInit ==
    /\ part \in {"profile", "accounts"}
    /\ Init
    /\ AccountsInit

UsersNext ==
    \/ part = "profile" /\ Next /\ UNCHANGED <<part, accountVars>>
    \/ part = "accounts" /\ AccountsNext /\ UNCHANGED <<part, vars>>

UsersSpec ==
    /\ UsersInit
    /\ [][UsersNext]_<<part, vars, accountVars>>
    /\ \A r \in Requests : WF_vars(part = "profile" /\ Step(r) /\ UNCHANGED <<part, accountVars>>)

=============================================================================
