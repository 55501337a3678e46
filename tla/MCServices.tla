----------------------------- MODULE MCServices -----------------------------
(***************************************************************************)
(* Seven parts that share no state, checked together: uploaded documents,  *)
(* payments, the cache of credit checks, the browser's session, the        *)
(* officers' queue and their search by name, and the state of the          *)
(* connection.  A behaviour moves the one `focus` names; the others rest   *)
(* in a state in which none of their fair actions is enabled.              *)
(***************************************************************************)
EXTENDS Focus, DocumentScan, Payments, CreditCheckCache, BrowserSession, StaffQueue,
        ApiStatus, NameSimilarity

\* Tiles of the search page, and records they find: each kind of edit, two in
\* one word, "Mac" for "Mc", words in another order.
Tiles ==
    {<<"m", "o", "r", "i", "s", "s", "o", "n">>,
     <<"m", "a", "c", "d", "o", "n", "l", "a", "d">>,
     <<"j", "o", "h", "n", " ", "s", "m", "i", "t", "h">>}

Records ==
    {[name |-> <<<<"r", "o", "n">>, <<"m", "o", "r", "r", "i", "s", "o", "n">>>>,
      ref |-> <<"2", "0", "1", "2">>],
     [name |-> <<<<"m", "a", "c", "m", "a">>, <<"m", "c", "m">>>>,
      ref |-> <<"1", "1", "2">>],
     [name |-> <<<<"s", "m", "y", "t", "h">>, <<"j", "h", "o", "n">>>>,
      ref |-> <<>>]}

\* No tab of the dashboard is looked at, and there is no case to show.
QueueRests ==
    /\ app = [a \in App |-> Null] /\ rec = [a \in App |-> Null] /\ today = BootDay
    /\ decisions = [a \in App |-> {}]
    /\ visible = {} /\ interval = {} /\ polls = {}
    /\ queue = [d \in Desk |-> Empty]
    /\ panel = [d \in Desk |-> Null] /\ press = [d \in Desk |-> Null]
    /\ alert = [d \in Desk |-> Null]

ServicesPart ==
    {"documents", "payments", "credit", "browser", "queue", "status", "names"}

servicesVars ==
    <<scanVars, paymentVars, cacheVars, browserVars, queueVars, statusVars, query>>

ServicesBegin ==
    /\ ScanInit /\ PaymentInit /\ CacheInit /\ BrowserInit
    /\ IF focus = "queue" THEN QueueInit ELSE QueueRests
    /\ StatusInit
    /\ focus # "status" => up /\ inView
    /\ SimilarityInit

ServicesInit == focus \in ServicesPart /\ ServicesBegin

ServicesNext ==
    /\ \/ /\ focus = "documents" /\ ScanNext
          /\ UNCHANGED <<paymentVars, cacheVars, browserVars, queueVars, statusVars, query>>
       \/ /\ focus = "payments" /\ PaymentNext
          /\ UNCHANGED <<scanVars, cacheVars, browserVars, queueVars, statusVars, query>>
       \/ /\ focus = "credit" /\ CacheNext
          /\ UNCHANGED <<scanVars, paymentVars, browserVars, queueVars, statusVars, query>>
       \/ /\ focus = "browser" /\ BrowserNext
          /\ UNCHANGED <<scanVars, paymentVars, cacheVars, queueVars, statusVars, query>>
       \/ /\ focus = "queue" /\ QueueNext
          /\ UNCHANGED <<scanVars, paymentVars, cacheVars, browserVars, statusVars, query>>
       \/ /\ focus = "status" /\ StatusNext
          /\ UNCHANGED <<scanVars, paymentVars, cacheVars, browserVars, queueVars, query>>
       \/ /\ focus = "names" /\ SimilarityNext
          /\ UNCHANGED <<scanVars, paymentVars, cacheVars, browserVars, queueVars,
                         statusVars>>
    /\ UNCHANGED focus

ServicesSpec ==
    /\ ServicesInit
    /\ [][ServicesNext]_<<focus, servicesVars>>
    /\ ScanFairness /\ BrowserFairness /\ QueueFairness

\* Every state of every module has its type.
ServicesTypeOK ==
    /\ ScanTypeOK /\ PaymentTypeOK /\ CacheTypeOK
    /\ BrowserTypeOK /\ QueueTypeOK /\ StatusTypeOK /\ SimilarityTypeOK
=============================================================================
