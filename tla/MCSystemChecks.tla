--------------------------- MODULE MCSystemChecks ---------------------------
(***************************************************************************)
(* Debtors and applicants for the advice and the register checks.          *)
(***************************************************************************)
EXTENDS SystemChecks, TLC

\* Amounts on and around every threshold of the rules.
SurplusAmounts == {-100, 0, 1, 50, 51, 100, 101, 105, 200, 201}

\* A debtor in the range of each of four products.
SomeEnquired ==
    {[debt |-> x[1], surplus |-> x[2], assets |-> x[3],
      activeCase |-> FALSE, hasMoratorium |-> FALSE] :
        x \in {<<4999, 200, 0>>, <<10000, 0, 0>>, <<10000, 105, 0>>, <<25001, 0, 5001>>}}

\* Applicants the registers know in different ways, from one of them to all.
SomeApplicants ==
    {[niEndsA |-> FALSE, postcodeEH |-> FALSE, surname |-> "other"],
     [niEndsA |-> FALSE, postcodeEH |-> TRUE,  surname |-> "m"],
     [niEndsA |-> TRUE,  postcodeEH |-> FALSE, surname |-> "test"],
     [niEndsA |-> TRUE,  postcodeEH |-> TRUE,  surname |-> "mtest"]}
=============================================================================
