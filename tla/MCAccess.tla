------------------------------ MODULE MCAccess ------------------------------
(***************************************************************************)
(* Accounts and sessions, and the application form: two parts without      *)
(* liveness that share no state, checked together.  A behaviour moves the  *)
(* one `focus` names; the other rests in its initial state.                *)
(***************************************************************************)
EXTENDS Focus, Sessions, ApplyClient, TLC

CONSTANTS ada, max, admin, debtor, administer

\* One administrator; one user the identity provider alone knows at first.
Roles == (ada :> admin) @@ (max :> debtor)
SeededGrants == (admin :> {administer}) @@ (debtor :> {})

Symmetry == Permutations(Token) \cup Permutations(App) \cup Permutations(Slot)

AccessInit ==
    /\ focus \in {"sessions", "form"}
    /\ SessionInit /\ ApplyInit

AccessNext ==
    /\ \/ focus = "sessions" /\ SessionNext /\ UNCHANGED applyVars
       \/ focus = "form" /\ ApplyNext /\ UNCHANGED sessionVars
    /\ UNCHANGED focus

AccessSpec == AccessInit /\ [][AccessNext]_<<focus, sessionVars, applyVars>>

\* Every state of both modules has its type.
AccessTypeOK == SessionTypeOK /\ ApplyTypeOK
=============================================================================
