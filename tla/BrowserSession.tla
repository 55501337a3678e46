--------------------------- MODULE BrowserSession ---------------------------
(***************************************************************************)
(* Who the web application takes its user to be (apps/web: apiClient.ts,   *)
(* the login and callback pages, the notification bell's polling).         *)
(*                                                                         *)
(* The token and the user it belongs to are two keys of localStorage,      *)
(* which every tab of the browser shares; each tab also keeps the token in *)
(* memory until its page is loaded again, and the user in its own          *)
(* sessionStorage.  What the server does with tokens is TokenLife, which   *)
(* the gateway's Sessions implements.  The poll of the bell, which every   *)
(* page carries, stands for all requests with a token; it is answered when *)
(* its answer is handled: a token refused at the server stays so, and one  *)
(* that dies on the way of its answer might as well have died after it.    *)
(***************************************************************************)
EXTENDS TokenLife

CONSTANT Tab

ASSUME BrowserAssumption == Null \notin User \cup Token

VARIABLES
    stored,         \* localStorage: iaas-auth-token
    storedUser,     \* localStorage: iaas-current-user
    memory,         \* authToken of each tab
    shown,          \* sessionStorage of each tab: iaas-current-user
    request,        \* the poll of each tab on its way: its token
    toast           \* tabs that show "Session expired"

browserVars ==
    <<holder, standing, stored, storedUser, memory, shown, request, toast>>

BrowserTypeOK ==
    /\ holder \in [Token -> User \cup {Null}]
    /\ standing \in [Token -> Standing]
    /\ stored \in Token \cup {Null}
    /\ storedUser \in User \cup {Null}
    /\ memory \in [Tab -> Token \cup {Null}]
    /\ shown \in [Tab -> User \cup {Null}]
    /\ request \in [Tab -> Token \cup {Null}]
    /\ toast \subseteq Tab

BrowserInit ==
    /\ TokenInit
    /\ stored = Null
    /\ storedUser = Null
    /\ memory = [w \in Tab |-> Null]
    /\ shown = [w \in Tab |-> Null]
    /\ request = [w \in Tab |-> Null]
    /\ toast = {}

-----------------------------------------------------------------------------
\* A mutant: the previous session is not cleared first.
CompleteSignInOver(w, t, u, named) ==
    /\ Issue(t, u)
    /\ stored' = t
    /\ storedUser' = IF named THEN u ELSE storedUser
    /\ memory' = [memory EXCEPT ![w] = t]
    /\ shown' = [shown EXCEPT ![w] = IF named THEN u ELSE @]
    /\ UNCHANGED <<request, toast>>

(***************************************************************************)
(* A sign-in ends: completeSignIn, or the callback page, whose user        *)
(* payload may be missing or malformed.  The session before is cleared.    *)
(***************************************************************************)
CompleteSignIn(w, t, u, named) ==
    /\ Issue(t, u)
    /\ stored' = t
    /\ storedUser' = IF named THEN u ELSE Null
    /\ memory' = [memory EXCEPT ![w] = t]
    /\ shown' = [shown EXCEPT ![w] = IF named THEN u ELSE Null]
    /\ UNCHANGED <<request, toast>>

\* A page is loaded: what was in memory is gone, a request on its way aborted.
PageLoad(w) ==
    /\ memory' = [memory EXCEPT ![w] = Null]
    /\ request' = [request EXCEPT ![w] = Null]
    /\ toast' = toast \ {w}

Navigate(w) ==
    /\ PageLoad(w)
    /\ UNCHANGED <<holder, standing, stored, storedUser, shown>>

\* getAuthToken: the token in memory, else the one stored.
AuthToken(w) == IF memory[w] # Null THEN memory[w] ELSE stored

\* refresh: without a token nothing is asked.
Poll(w) ==
    /\ request[w] = Null
    /\ AuthToken(w) # Null
    /\ memory' = [memory EXCEPT ![w] = AuthToken(w)]
    /\ request' = [request EXCEPT ![w] = AuthToken(w)]
    /\ UNCHANGED <<holder, standing, stored, storedUser, shown, toast>>

\* clearClientSession
ClearClientSession(w) ==
    /\ stored' = Null
    /\ storedUser' = Null
    /\ memory' = [memory EXCEPT ![w] = Null]
    /\ shown' = [shown EXCEPT ![w] = Null]

\* handleResponse
Accepted(w) ==
    /\ request[w] # Null /\ standing[request[w]] = "live"
    /\ request' = [request EXCEPT ![w] = Null]
    /\ UNCHANGED <<holder, standing, stored, storedUser, memory, shown, toast>>

\* A mutant: a refusal clears what this tab holds, not what is stored.
RefusedKeepStored(w) ==
    /\ request[w] # Null /\ standing[request[w]] # "live"
    /\ memory' = [memory EXCEPT ![w] = Null]
    /\ shown' = [shown EXCEPT ![w] = Null]
    /\ request' = [request EXCEPT ![w] = Null]
    /\ toast' = toast \cup {w}
    /\ UNCHANGED <<holder, standing, stored, storedUser>>

\* handleResponse of a 401: whichever token was refused, the session is cleared.
Refused(w) ==
    /\ request[w] # Null /\ standing[request[w]] # "live"
    /\ ClearClientSession(w)
    /\ request' = [request EXCEPT ![w] = Null]
    /\ toast' = toast \cup {w}
    /\ UNCHANGED <<holder, standing>>

\* "Log In" on the toast: logout().
LogOut(w) ==
    /\ w \in toast
    /\ stored' = Null
    /\ storedUser' = Null
    /\ shown' = [shown EXCEPT ![w] = Null]
    /\ PageLoad(w)
    /\ UNCHANGED <<holder, standing>>

\* "Dismiss" on the toast.
Dismiss(w) ==
    /\ w \in toast
    /\ toast' = toast \ {w}
    /\ UNCHANGED <<holder, standing, stored, storedUser, memory, shown, request>>

\* "Sign out" on the account page, which its tab's identity alone brings up.
SignOut(w) ==
    /\ shown[w] # Null
    /\ shown' = [shown EXCEPT ![w] = Null]
    /\ PageLoad(w)
    /\ UNCHANGED <<holder, standing, stored, storedUser>>

\* A token expires or is revoked.
TokenDies(t) ==
    /\ Die({t})
    /\ UNCHANGED <<stored, storedUser, memory, shown, request, toast>>

Polling(w) == Poll(w) \/ Accepted(w) \/ Refused(w)

BrowserNext ==
    \/ \E w \in Tab :
            \/ Polling(w) \/ Navigate(w) \/ LogOut(w) \/ Dismiss(w) \/ SignOut(w)
            \/ \E t \in Token, u \in User, named \in BOOLEAN :
                    CompleteSignIn(w, t, u, named)
    \/ \E t \in Token : TokenDies(t)

BrowserSpec == BrowserInit /\ [][BrowserNext]_browserVars

(***************************************************************************)
(* A visible tab polls every 30 seconds and as soon as it is visible       *)
(* again; a tab nobody looks at any more is not in Tab.  Loading another   *)
(* page aborts a poll, but not for ever: a page stays long enough, now and *)
(* then, for a poll to be answered.                                        *)
(***************************************************************************)
BrowserFairness ==
    \A w \in Tab :
        /\ WF_browserVars(Poll(w))
        /\ SF_browserVars(Accepted(w) \/ Refused(w))

-----------------------------------------------------------------------------
(***************************************************************************)
(* The stored user, by which the pages choose what to show, is the one the *)
(* stored token was issued to (apiClient.ts:52-54, "no stale identity      *)
(* behind when switching accounts"), however tabs sign in, load, poll and  *)
(* are refused, and whether or not a sign-in names its user.               *)
(***************************************************************************)
StoredIdentityMatches ==
    storedUser # Null => stored # Null /\ holder[stored] = storedUser

StoredIsDead == stored # Null /\ standing[stored] = "dead"

(***************************************************************************)
(* A dead token does not stay: the tabs notice in the end that what is     *)
(* stored is refused, and the pages stop showing its user as signed in.    *)
(***************************************************************************)
DeadTokenIsDropped == StoredIsDead ~> ~StoredIsDead
=============================================================================
