-------------------------- MODULE CreditCheckCache --------------------------
(***************************************************************************)
(* The cache of credit checks                                              *)
(* (services/credit-check-service/src/routes/credit-check.ts and           *)
(* providers/cache.ts).  A check is answered from the cache when the cache *)
(* holds an entry of its person that has not expired; otherwise a provider *)
(* is asked, which is awaited, and its answer replaces the entry.          *)
(*                                                                         *)
(* An entry expires at an ISO string "2026-01-31T12:00:00.000Z", compared  *)
(* as text with SQLite's "2026-01-31 12:00:00": the days are compared, and *)
(* on the same day the entry is the greater, "T" being greater than " ".   *)
(* clearExpiredCache has no caller, so expired entries stay.               *)
(***************************************************************************)
EXTENDS SqlNull, Integers

CONSTANTS
    Person,         \* cache keys: national insurance number or name, birth date
    Application,
    CheckRequest,   \* checks in progress at the same time, at most
    DayHours,       \* hours in a day, the resolution of the clock
    MaxHour         \* the last hour modelled

ASSUME CacheAssumption == DayHours \in Nat \ {0} /\ MaxHour \in Nat

Hour == 0..MaxHour

\* An answer: the application it was obtained for, and when.
Answer == [application : Application, checkedAt : Hour]

Entry == [answer : Answer, expiresAt : 0..MaxHour + DayHours]

Check == [person : Person, application : Application]

Response == [to : Check, answer : Answer, at : Hour]

ASSUME CacheNullAssumption ==
    Null \notin Entry /\ Null \notin Check /\ Null \notin Response

VARIABLES
    cache,          \* credit_check_cache, Null when there is no row
    pending,        \* the checks that await a provider
    response,       \* the last response sent
    hour            \* hours since a midnight

cacheVars == <<cache, pending, response, hour>>

CacheTypeOK ==
    /\ cache \in [Person -> Entry \cup {Null}]
    /\ pending \in [CheckRequest -> Check \cup {Null}]
    /\ response \in Response \cup {Null}
    /\ hour \in Hour

CacheInit ==
    /\ cache = [p \in Person |-> Null]
    /\ pending = [r \in CheckRequest |-> Null]
    /\ response = Null
    /\ hour = 0

DayOf(h) == h \div DayHours

\* expires_at > datetime('now')
Unexpired(entry) == entry # Null /\ DayOf(entry.expiresAt) >= DayOf(hour)

Respond(check, answer) ==
    response' = [to |-> check, answer |-> answer, at |-> hour]

\* POST /run that finds its person's entry in the cache.
RunCached(check) ==
    /\ Unexpired(cache[check.person])
    /\ Respond(check, cache[check.person].answer)
    /\ UNCHANGED <<cache, pending, hour>>

\* POST /run that does not, up to the provider's answer.
RunUncached(r, check) ==
    /\ ~Unexpired(cache[check.person])
    /\ pending[r] = Null
    /\ pending' = [pending EXCEPT ![r] = check]
    /\ UNCHANGED <<cache, response, hour>>

\* A mutant: a failed check evicts the entry of its person.
ProviderFailsEvict(r) ==
    /\ pending[r] # Null
    /\ pending' = [pending EXCEPT ![r] = Null]
    /\ cache' = [cache EXCEPT ![pending[r].person] = Null]
    /\ UNCHANGED <<response, hour>>

\* The provider fails: 502, and nothing is cached.
ProviderFails(r) ==
    /\ pending[r] # Null
    /\ pending' = [pending EXCEPT ![r] = Null]
    /\ UNCHANGED <<cache, response, hour>>

\* The provider answers: cached for 24 hours from now, and sent.
ProviderAnswers(r) ==
    LET check == pending[r]
        answer == [application |-> check.application, checkedAt |-> hour]
    IN  /\ check # Null
        /\ cache' = [cache EXCEPT ![check.person] =
                        [answer |-> answer, expiresAt |-> hour + DayHours]]
        /\ pending' = [pending EXCEPT ![r] = Null]
        /\ Respond(check, answer)
        /\ UNCHANGED hour

Tick ==
    /\ hour < MaxHour
    /\ hour' = hour + 1
    /\ UNCHANGED <<cache, pending, response>>

CacheNext ==
    \/ \E check \in Check :
            RunCached(check) \/ \E r \in CheckRequest : RunUncached(r, check)
    \/ \E r \in CheckRequest : ProviderAnswers(r) \/ ProviderFails(r)
    \/ Tick

CacheSpec == CacheInit /\ [][CacheNext]_cacheVars

-----------------------------------------------------------------------------
(***************************************************************************)
(* Results are cached for 24 hours (credit-check.ts:46): no answer is      *)
(* served longer after it was obtained.  The comparison as text serves an  *)
(* entry to the end of the day it expires on, up to two days all told.     *)
(***************************************************************************)
ServedWithinADay ==
    response # Null => response.at - response.answer.checkedAt <= DayHours

(***************************************************************************)
(* The newest answer about a person is kept, and nothing older is sent:    *)
(* checks that overlap or fail bring no older answer back and lose none.   *)
(***************************************************************************)
AnswersDoNotAge ==
    [][\A p \in Person :
        cache[p] # Null =>
            /\ cache'[p] # Null
            /\ cache'[p].answer.checkedAt >= cache[p].answer.checkedAt
            /\ (response' # response /\ response'.to.person = p) =>
                    response'.answer.checkedAt >= cache[p].answer.checkedAt]_cacheVars
=============================================================================
