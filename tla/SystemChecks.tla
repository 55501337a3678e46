---------------------------- MODULE SystemChecks ----------------------------
(***************************************************************************)
(* The registers searched for an applicant, and the advice that follows    *)
(* (integration-orchestrator/src/routes/orchestrate.ts; ChecksSection and  *)
(* RecommendationSection of apps/web/src/app/apply/page.tsx; the registers *)
(* are the routes of mock-integrations).                                   *)
(*                                                                         *)
(* The registers are asked all at once by the orchestrator's check-all, or *)
(* one after the other by the form.  Either way a register answers, or it  *)
(* fails or takes more than five seconds.  Of the applicant the model      *)
(* keeps what the registers match on.                                      *)
(***************************************************************************)
EXTENDS Recommendation, FiniteSets, Sequences

CONSTANTS
    Enquired,       \* the circumstances considered, as the form knows them
    Applicants,     \* the applicants considered
    DasDebt,        \* the debts for which the DAS register has an entry
    NoAnswer

\* SYSTEMS: in the order in which the form asks them.
Registers == <<"basys", "eden", "das", "cft", "moratorium", "roi">>

Register == {Registers[i] : i \in 1..Len(Registers)}

\* "m" begins with M, "test" contains TEST, "mtest" does both.
Applicant == [niEndsA : BOOLEAN, postcodeEH : BOOLEAN,
              surname : {"smith", "m", "test", "mtest", "other"}]

ASSUME ChecksAssumption ==
    /\ Enquired \subseteq {c \in Circumstances : Assessed(c)}
    /\ Applicants \subseteq Applicant /\ DasDebt \subseteq Nat
    /\ NoAnswer \notin Advice

VARIABLES
    applicant,
    job,            \* who asks the registers: check-all, the form, or nobody yet
    results,        \* what is known of each register
    asked,          \* how many registers the form has been through
    simulated,      \* the first one failed: the form makes the rest up
    credit,         \* the credit score the form shows
    advice          \* the recommendation the form shows

checksVars ==
    <<circumstances, applicant, job, results, asked, simulated, credit, advice>>

\* The lookup of each register.
HasEntry(register, a, debt) ==
    CASE register = "basys"      -> a.niEndsA \/ a.surname = "smith"
      [] register = "eden"       -> a.surname \in {"m", "mtest"}
      [] register = "das"        -> debt \in DasDebt
      [] register = "cft"        -> TRUE
      [] register = "moratorium" -> a.postcodeEH
      [] register = "roi"        -> a.surname \in {"test", "mtest"}

Listed(register) == HasEntry(register, applicant, circumstances.debt)

\* What the form or the orchestrator may record of a register.
Result == [status : {"success", "not_found", "error", "clear"}, found : BOOLEAN]

ChecksTypeOK ==
    /\ circumstances \in Circumstances
    /\ applicant \in Applicant
    /\ job \in {"none", "all", "form", "replied", "completed", "advised"}
    /\ results \in [Register -> Result \cup {NoAnswer}]
    /\ asked \in 0..Len(Registers)
    /\ simulated \in BOOLEAN
    /\ credit \in {"none", "provider", "simulated"}
    /\ advice \in Advice \cup {NoAnswer}

NothingChecked ==
    /\ job = "none"
    /\ results = [r \in Register |-> NoAnswer]
    /\ asked = 0
    /\ simulated = FALSE
    /\ credit = "none"
    /\ advice = NoAnswer

ChecksInit ==
    /\ circumstances \in Enquired
    /\ applicant \in Applicants
    /\ NothingChecked

\* The answer of a register that is reached.
Answered(register) ==
    [status |-> IF Listed(register) THEN "success" ELSE "not_found",
     found  |-> Listed(register)]

\* A mutant: a register that cannot be reached is reported without an entry.
FailedClear(register) == [status |-> "not_found", found |-> FALSE]

\* The catch block of check-all.
Failed(register) == [status |-> "error", found |-> FALSE]

-----------------------------------------------------------------------------
\* POST /check-all: six calls at once.
CheckAll ==
    /\ job = "none"
    /\ job' = "all"
    /\ UNCHANGED <<circumstances, applicant, results, asked, simulated, credit, advice>>

\* One of the calls settles: answered, failed, or timed out.
SettleCheck(register) ==
    /\ job = "all"
    /\ results[register] = NoAnswer
    /\ \E answer \in {Answered(register), Failed(register)} :
            results' = [results EXCEPT ![register] = answer]
    /\ UNCHANGED <<circumstances, applicant, job, asked, simulated, credit, advice>>

\* Promise.allSettled: the reply waits for all of them.
Reply ==
    /\ job = "all"
    /\ \A r \in Register : results[r] # NoAnswer
    /\ job' = "replied"
    /\ UNCHANGED <<circumstances, applicant, results, asked, simulated, credit, advice>>

\* The summary of the reply.
CasesFound == Cardinality({r \in Register : results[r].found})
Errors == Cardinality({r \in Register : results[r].status = "error"})

-----------------------------------------------------------------------------
\* runChecks
RunChecks ==
    /\ job = "none"
    /\ job' = "form"
    /\ UNCHANGED <<circumstances, applicant, results, asked, simulated, credit, advice>>

Clear == [status |-> "clear", found |-> FALSE]

(***************************************************************************)
(* The form goes on to its next register.  When the first cannot be        *)
(* reached it asks no other and shows them all clear; a later one that     *)
(* cannot be reached is shown clear too.                                   *)
(***************************************************************************)
CheckNext ==
    /\ job = "form" /\ asked < Len(Registers)
    /\ asked' = asked + 1
    /\ LET register == Registers[asked + 1] IN
       \/ /\ ~simulated
          /\ results' = [results EXCEPT ![register] = Answered(register)]
          /\ UNCHANGED simulated
       \/ /\ results' = [results EXCEPT ![register] = Clear]
          /\ simulated' = (simulated \/ asked = 0)
    /\ UNCHANGED <<circumstances, applicant, job, credit, advice>>

\* The credit check, answered or made up, completes the checks.
CreditCheck ==
    /\ job = "form" /\ asked = Len(Registers)
    /\ \/ ~simulated /\ credit' = "provider"
       \/ credit' = "simulated"
    /\ job' = "completed"
    /\ UNCHANGED <<circumstances, applicant, results, asked, simulated, advice>>

\* The engine answers 400 unless the existing cases are a list.
EngineAnswer(existingCases) ==
    IF existingCases = "list" THEN Recommend(circumstances) ELSE NoAnswer

\* The form's own answer when the engine gives none.
StaticAdvice == Advise("debt_arrangement_scheme", "high", {})

\* getRecommendation: the existing cases are sent as a Boolean.
GetRecommendation ==
    /\ job = "completed"
    /\ advice' = IF EngineAnswer("flag") = NoAnswer THEN StaticAdvice
                 ELSE EngineAnswer("flag")
    /\ job' = "advised"
    /\ UNCHANGED <<circumstances, applicant, results, asked, simulated, credit>>

ChecksNext ==
    \/ CheckAll \/ (\E r \in Register : SettleCheck(r)) \/ Reply
    \/ RunChecks \/ CheckNext \/ CreditCheck \/ GetRecommendation

ChecksSpec == ChecksInit /\ [][ChecksNext]_checksVars

-----------------------------------------------------------------------------
(***************************************************************************)
(* Whichever calls fail, and in whatever order they settle, the reply of   *)
(* check-all accounts for every register: its summary adds up, and the     *)
(* entries it does not count are no more than the errors it reports        *)
(* (orchestrate.ts:32-72).                                                 *)
(***************************************************************************)
ReplyHidesNothing ==
    job = "replied" =>
        LET entries == Cardinality({r \in Register : Listed(r)}) IN
        /\ CasesFound <= entries
        /\ entries <= CasesFound + Errors
=============================================================================
