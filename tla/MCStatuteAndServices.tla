------------------------ MODULE MCStatuteAndServices ------------------------
(***************************************************************************)
(* The statutory rules (MCStatute) and the services (MCServices) share no  *)
(* state either, and are checked in one run.  Where the rules move, the    *)
(* services rest, and the other way about.                                 *)
(***************************************************************************)
EXTENDS MCStatute, MCServices

Init ==
    /\ focus \in StatutePart \cup ServicesPart
    /\ StatuteBegins /\ ServicesBegin

Next ==
    \/ StatuteNext /\ UNCHANGED servicesVars
    \/ ServicesNext /\ UNCHANGED statuteVars

Spec ==
    /\ Init
    /\ [][Next]_<<focus, statuteVars, servicesVars>>
    /\ ScanFairness /\ BrowserFairness /\ QueueFairness
=============================================================================
