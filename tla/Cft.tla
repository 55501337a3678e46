--------------------------------- MODULE Cft ---------------------------------
(***************************************************************************)
(* The Common Financial Tool: what a debtor can contribute each month      *)
(* (packages/statutory/src/cft.ts), from the income and expenditure stored *)
(* with an application (GET /:id/cft-assessment of the gateway).  Amounts  *)
(* are pence, as toPence rounds them.  The statement is revised one amount *)
(* at a time, and assessed again whenever the case page is loaded.         *)
(***************************************************************************)
EXTENDS Integers, FiniteSets, Functions

CONSTANTS
    Named,          \* CFT_EXPENDITURE_KEYS without `other`
    Unnamed,        \* further categories a stored statement may hold
    Other,          \* the category `other`
    Trigger,        \* the published figures, of some of the categories
    Amount,         \* the amounts considered
    ContingencyCap  \* 2000: the cap for monthly payments

Category == Named \cup {Other}

ASSUME CftAssumption ==
    /\ Other \notin Named \cup Unnamed /\ Named \cap Unnamed = {}
    /\ IsFiniteSet(Named) /\ IsFiniteSet(Unnamed)
    /\ DOMAIN Trigger \subseteq Category
    /\ \A c \in DOMAIN Trigger : Trigger[c] \in Nat
    /\ Amount \subseteq Nat /\ ContingencyCap \in Nat

VARIABLE statement

Statement == [income : Amount, spent : [Category \cup Unnamed -> Amount],
              aliment : Amount, pension : Amount]

Greater(a, b) == IF a >= b THEN a ELSE b
Lesser(a, b) == IF a <= b THEN a ELSE b

\* foldToShape: what is spent under a name the shape lacks counts as other.
Declared(s) ==
    [c \in Category |-> IF c = Other THEN SumFunctionOnSet(s.spent, {Other} \cup Unnamed)
                        ELSE s.spent[c]]

\* triggerTotal: the figure of each category, what is declared where none is published.
AllowedByTrigger(s) ==
    SumFunction([c \in Category |->
        IF c \in DOMAIN Trigger THEN Trigger[c] ELSE Declared(s)[c]])

\* triggerExcesses: the categories that need the evidence of reg.17.
Excesses(s) == {c \in DOMAIN Trigger : Declared(s)[c] > Trigger[c]}

\* A mutant: the declared total replaces the figures as soon as one is exceeded.
AllowedOnExcess(s) ==
    Greater((IF Excesses(s) # {} THEN SumFunction(Declared(s))
             ELSE AllowedByTrigger(s)) + s.aliment,
            s.pension)

\* reg.15 and s.89(3)-(4): the greater of the two totals, aliment on top, and
\* no less than the guaranteed minimum pension.
Allowed(s) ==
    Greater(Greater(SumFunction(Declared(s)), AllowedByTrigger(s)) + s.aliment,
            s.pension)

Contribution(s) == Greater(0, s.income - Allowed(s))

\* reg.16: a tenth of the contribution, rounded, up to the cap.
Contingency(s) == Lesser((Contribution(s) + 5) \div 10, ContingencyCap)

-----------------------------------------------------------------------------
CftTypeOK == statement \in Statement /\ Contingency(statement) \in Nat

CftInit == statement \in Statement

ReviseStatement ==
    \E x \in Amount :
        \/ statement' = [statement EXCEPT !.income = x]
        \/ statement' = [statement EXCEPT !.aliment = x]
        \/ statement' = [statement EXCEPT !.pension = x]
        \/ \E c \in Category \cup Unnamed :
                statement' = [statement EXCEPT !.spent[c] = x]

CftSpec == CftInit /\ [][ReviseStatement]_statement

-----------------------------------------------------------------------------
NeedsMore(s, t) ==
    /\ t.income <= s.income /\ t.aliment >= s.aliment /\ t.pension >= s.pension
    /\ \A c \in Category \cup Unnamed : t.spent[c] >= s.spent[c]

(***************************************************************************)
(* Declaring more never raises what a debtor is asked for, nor does        *)
(* earning less: the evidence duty, the floor of the pension and the       *)
(* folding of categories leave no step in between (cft.ts:144-173).        *)
(***************************************************************************)
DeclaringMoreNeverCosts ==
    [][NeedsMore(statement, statement') =>
            Contribution(statement') <= Contribution(statement)]_statement
=============================================================================
