------------------------------ MODULE TokenLife ------------------------------
(***************************************************************************)
(* What the rest of the system relies on about access tokens: a token is   *)
(* issued to one user, accepted for a while, and never accepted again once *)
(* it has been refused.  Sessions implements this; BrowserSession, the web *)
(* application's side, is built on it.                                     *)
(***************************************************************************)
EXTENDS SqlNull

CONSTANTS User, Token

VARIABLES
    holder,         \* whom each token was issued to, Null before it is
    standing        \* how authenticate receives it

tokenVars == <<holder, standing>>

Standing == {"unissued", "live", "dead"}

TokenInit ==
    /\ holder = [t \in Token |-> Null]
    /\ standing = [t \in Token |-> "unissued"]

Issue(t, u) ==
    /\ standing[t] = "unissued"
    /\ holder' = [holder EXCEPT ![t] = u]
    /\ standing' = [standing EXCEPT ![t] = "live"]

Die(dying) ==
    /\ \A t \in dying : standing[t] = "live"
    /\ standing' = [t \in Token |-> IF t \in dying THEN "dead" ELSE standing[t]]
    /\ UNCHANGED holder

TokenNext ==
    \/ \E t \in Token, u \in User : Issue(t, u)
    \/ \E dying \in SUBSET Token : Die(dying)

TokenSpec == TokenInit /\ [][TokenNext]_tokenVars
=============================================================================
