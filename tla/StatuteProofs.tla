---------------------------- MODULE StatuteProofs ----------------------------
(***************************************************************************)
(* Theorems about the rules engine (Recommendation), for every amount of   *)
(* money and all thresholds that compare as the code's do, and about what  *)
(* surrounds it: the registers searched for an applicant (SystemChecks),   *)
(* the views of a case's clocks (WatchedCase), the contribution from       *)
(* income and expenditure (Cft), whose sums need lemmas of their own, and  *)
(* the calendar (Calendar), for any days of any years. The last theorem    *)
(* puts them side by side (MCStatute).                                     *)
(***************************************************************************)
EXTENDS MCStatute, FiniteSetTheorems, WellFoundedInduction, TLAPS

-----------------------------------------------------------------------------
(***************************************************************************)
(* The advice                                                              *)
(***************************************************************************)
\* The circumstances stay circumstances: amounts are numbers, the rest is yes or no.
CircumstancesOK == circumstances \in Circumstances

LEMMA CircumstancesAlways == AdviceSpec => []CircumstancesOK
<1>1. AdviceInit => CircumstancesOK
  BY DEF AdviceInit, CircumstancesOK
<1>2. CircumstancesOK /\ [Revise]_circumstances => CircumstancesOK'
  BY DEF Revise, Circumstances, CircumstancesOK
<1> QED BY <1>1, <1>2, PTL DEF AdviceSpec

\* Amounts are numbers.
LEMMA Amounts ==
    ASSUME NEW c \in Circumstances
    PROVE  /\ c.debt \in Nat /\ c.surplus \in Int /\ c.assets \in Nat
           /\ SequestrationMinDebt \in Nat /\ MapMaxDebt \in Nat
           /\ MapMaxAssets \in Nat /\ DefaultPeriodMonths \in Nat
           /\ SmallDebt \in Nat /\ MapSurplus \in Nat /\ DasSurplus \in Nat
           /\ GoodSurplus \in Nat /\ TrustAssets \in Nat
  BY AmountsAssumption DEF Circumstances

\* Whatever rule matches, the advice is one the engine can give.
LEMMA RecommendType ==
    ASSUME NEW c \in Circumstances
    PROVE  Recommend(c) \in Advice
<1>1. Arrangement(c) \in Advice
  BY DEF Arrangement, Advise, Advice, Advised, Confidence
<1>2. Fallback \in Advice
  BY DEF Fallback, Advise, Advice, Advised, Confidence
<1> QED BY <1>1, <1>2 DEF Recommend, Advise, Advice, Advised, Confidence

(***************************************************************************)
(* Type correctness of the circumstances and of the advice on them.        *)
(***************************************************************************)
THEOREM AdviceTypeCorrect == AdviceSpec => []AdviceTypeOK
<1>1. CircumstancesOK => AdviceTypeOK
  BY RecommendType DEF AdviceTypeOK, CircumstancesOK
<1> QED BY <1>1, CircumstancesAlways, PTL

\* In the statutory range one of the last four rules always matches.
LEMMA SomeRuleSuits ==
    ASSUME NEW c \in Circumstances, c.debt >= SmallDebt
    PROVE  SuitsArrangement(c) \/ SuitsTrustDeed(c) \/ SuitsBankruptcy(c)
<1>1. CASE c.debt > MapMaxDebt \/ c.surplus <= 0
  BY <1>1, Amounts, ThresholdsAssumption DEF SuitsBankruptcy
<1>2. CASE c.debt <= MapMaxDebt /\ c.surplus > 0 /\ DefersToTrustDeed(c)
  BY <1>2 DEF DefersToTrustDeed, SuitsTrustDeed
<1>3. CASE c.debt <= MapMaxDebt /\ c.surplus > 0 /\ ~DefersToTrustDeed(c)
  BY <1>3, Amounts DEF SuitsArrangement
<1> QED BY <1>1, <1>2, <1>3, Amounts

\* The product of the advice, by the rule that gave it.
LEMMA ProductByRule ==
    ASSUME NEW c
    PROVE  LET p == Recommend(c).product IN
            /\ p = "minimal_asset_process" => SuitsMinimalAsset(c)
            /\ p = "debt_payment_programme" => SuitsPaymentProgramme(c)
            /\ p = "debt_arrangement_scheme" => SuitsArrangement(c)
            /\ p = "protected_trust_deed" => SuitsTrustDeed(c)
            /\ p = "bankruptcy" => SuitsBankruptcy(c)
  BY DEF Recommend, Advise, Arrangement, Fallback

(***************************************************************************)
(* The rules leave no gap from SmallDebt upwards.                          *)
(***************************************************************************)
THEOREM RulesLeaveNoGap == AdviceSpec => []NoGapInStatutoryRange
<1>1. ASSUME NEW c \in Circumstances PROVE NoGap(c)
  <2> SUFFICES ASSUME Assessed(c), c.debt >= SmallDebt PROVE Recommend(c) # Fallback
    BY DEF NoGap
  <2>1. SuitsArrangement(c) \/ SuitsTrustDeed(c) \/ SuitsBankruptcy(c)
    BY SomeRuleSuits
  <2>2. Recommend(c).product # "signposting_advice"
    BY <2>1 DEF Recommend, Advise, Arrangement, Assessed
  <2> QED BY <2>2 DEF Fallback, Advise
<1>2. CircumstancesOK => NoGapInStatutoryRange
  BY <1>1 DEF NoGapInStatutoryRange, CircumstancesOK
<1> QED BY <1>2, CircumstancesAlways, PTL

(***************************************************************************)
(* The statutory amounts are respected whichever rule matches.             *)
(***************************************************************************)
THEOREM AdviceAlwaysQualifies == AdviceSpec => []AdviceQualifies
<1>1. ASSUME NEW c \in Circumstances PROVE Qualifies(c, Recommend(c).product)
  <2> DEFINE p == Recommend(c).product
  <2>1. p = "minimal_asset_process" => c.debt <= MapMaxDebt /\ c.assets < MapMaxAssets
    BY ProductByRule DEF SuitsMinimalAsset
  <2>2. p = "bankruptcy" => c.debt >= SequestrationMinDebt
    BY ProductByRule, Amounts, ThresholdsAssumption DEF SuitsBankruptcy
  <2>3. p \in {"debt_arrangement_scheme", "debt_payment_programme"} => c.surplus > 0
    BY ProductByRule DEF SuitsArrangement, SuitsPaymentProgramme, RepaidWithin
  <2>4. p = "protected_trust_deed" => c.assets > TrustAssets
    BY ProductByRule DEF SuitsTrustDeed
  <2> QED BY <2>1, <2>2, <2>3, <2>4 DEF Qualifies
<1>2. CircumstancesOK => AdviceQualifies
  BY <1>1 DEF AdviceQualifies, CircumstancesOK
<1> QED BY <1>2, CircumstancesAlways, PTL

-----------------------------------------------------------------------------
\* Once a debtor repays in full, a larger surplus keeps it so.
LEMMA RepaymentStays ==
    ASSUME NEW c \in Circumstances, NEW d \in Circumstances, MoreSurplus(c, d),
           SuitsPaymentProgramme(c)
    PROVE  SuitsPaymentProgramme(d)
<1>1. /\ d.debt = c.debt /\ c.surplus > 0 /\ d.surplus > c.surplus
      /\ c.debt <= DefaultPeriodMonths * c.surplus /\ c.debt <= SmallDebt
  BY DEF SuitsPaymentProgramme, RepaidWithin, MoreSurplus, Circumstances
<1>2. DefaultPeriodMonths * c.surplus <= DefaultPeriodMonths * d.surplus
  BY <1>1, Amounts
<1> QED
  BY <1>1, <1>2, Amounts DEF SuitsPaymentProgramme, RepaidWithin

\* The same of an arrangement.
LEMMA ArrangementStays ==
    ASSUME NEW c \in Circumstances, NEW d \in Circumstances, MoreSurplus(c, d),
           SuitsArrangement(c)
    PROVE  SuitsArrangement(d)
<1>1. d.debt = c.debt /\ d.assets = c.assets /\ d.surplus > c.surplus
  BY DEF MoreSurplus, Circumstances
<1> QED BY <1>1, Amounts DEF SuitsArrangement, DefersToTrustDeed

(***************************************************************************)
(* With a larger surplus no debtor in the statutory range is advised to    *)
(* repay less.                                                             *)
(***************************************************************************)
LEMMA RepaysByRule ==
    ASSUME NEW c \in Circumstances, Assessed(c), c.debt >= SmallDebt
    PROVE  Repays(Recommend(c).product) =
                IF SuitsPaymentProgramme(c) THEN 3
                ELSE IF SuitsMinimalAsset(c) THEN 1
                ELSE IF SuitsArrangement(c) THEN 3
                ELSE IF SuitsTrustDeed(c) THEN 2 ELSE 1
  BY SomeRuleSuits DEF Assessed, Recommend, Advise, Arrangement, Repays

LEMMA PaysMore ==
    ASSUME NEW c \in Circumstances, NEW d \in Circumstances, MoreSurplus(c, d),
           Assessed(c), c.debt >= SmallDebt
    PROVE  Repays(Recommend(c).product) <= Repays(Recommend(d).product)
<1>1. /\ d.debt = c.debt /\ d.assets = c.assets /\ d.surplus > c.surplus
      /\ Assessed(d)
  BY DEF MoreSurplus, Circumstances, Assessed
<1>2. d.debt >= SmallDebt
  BY <1>1
<1>3. CASE SuitsPaymentProgramme(c)
  BY <1>1, <1>2, <1>3, RepaymentStays, RepaysByRule
<1>4. CASE ~SuitsPaymentProgramme(c) /\ SuitsMinimalAsset(c)
  BY <1>1, <1>2, <1>4, RepaysByRule
<1>5. CASE /\ ~SuitsPaymentProgramme(c) /\ ~SuitsMinimalAsset(c)
           /\ SuitsArrangement(c)
  <2>1. ~SuitsMinimalAsset(d)
    BY <1>1, <1>5, Amounts DEF SuitsMinimalAsset
  <2> QED BY <1>1, <1>2, <1>5, <2>1, ArrangementStays, RepaysByRule
<1>6. CASE /\ ~SuitsPaymentProgramme(c) /\ ~SuitsMinimalAsset(c)
           /\ ~SuitsArrangement(c)
  <2>1. SuitsTrustDeed(c) => SuitsTrustDeed(d) /\ ~SuitsMinimalAsset(d)
    BY <1>1, Amounts, ThresholdsAssumption DEF SuitsTrustDeed, SuitsMinimalAsset
  <2> QED BY <1>1, <1>2, <1>6, <2>1, RepaysByRule
<1> QED BY <1>3, <1>4, <1>5, <1>6

\* The action property, from PaysMore.
THEOREM MoreSurplusPaysMore == AdviceSpec => SurplusPaysMore
<1>1. CircumstancesOK /\ CircumstancesOK' =>
        [MoreSurplus(circumstances, circumstances') /\ Assessed(circumstances)
         /\ circumstances.debt >= SmallDebt =>
            Repays(Recommend(circumstances).product)
                <= Repays(Recommend(circumstances').product)]_circumstances
  BY PaysMore DEF CircumstancesOK
<1> QED BY <1>1, CircumstancesAlways, PTL DEF SurplusPaysMore

-----------------------------------------------------------------------------
(***************************************************************************)
(* Register checks                                                         *)
(***************************************************************************)
LEMMA RegistersListed ==
    /\ Len(Registers) = 6
    /\ \A i \in 1..6 : Registers[i] \in Register
    /\ Register = {"basys", "eden", "das", "cft", "moratorium", "roi"}
<1>1. Len(Registers) = 6
  BY DEF Registers
<1>2. /\ Registers[1] = "basys" /\ Registers[2] = "eden" /\ Registers[3] = "das"
      /\ Registers[4] = "cft" /\ Registers[5] = "moratorium" /\ Registers[6] = "roi"
  BY DEF Registers
<1>3. 1..6 = {1, 2, 3, 4, 5, 6}
  OBVIOUS
<1> QED BY <1>1, <1>2, <1>3 DEF Register

LEMMA RegisterFinite == IsFiniteSet(Register)
<1>1. IsFiniteSet({"basys"}) /\ IsFiniteSet({"eden"}) /\ IsFiniteSet({"das"})
        /\ IsFiniteSet({"cft"}) /\ IsFiniteSet({"moratorium"}) /\ IsFiniteSet({"roi"})
  BY FS_Singleton
<1>2. IsFiniteSet({"basys"} \cup {"eden"})
  BY <1>1, FS_Union
<1>3. IsFiniteSet(({"basys"} \cup {"eden"}) \cup {"das"})
  BY <1>1, <1>2, FS_Union
<1>4. IsFiniteSet((({"basys"} \cup {"eden"}) \cup {"das"}) \cup {"cft"})
  BY <1>1, <1>3, FS_Union
<1>5. IsFiniteSet(((({"basys"} \cup {"eden"}) \cup {"das"}) \cup {"cft"})
                    \cup {"moratorium"})
  BY <1>1, <1>4, FS_Union
<1>6. IsFiniteSet((((({"basys"} \cup {"eden"}) \cup {"das"}) \cup {"cft"})
                    \cup {"moratorium"}) \cup {"roi"})
  BY <1>1, <1>5, FS_Union
<1>7. Register = (((({"basys"} \cup {"eden"}) \cup {"das"}) \cup {"cft"})
                    \cup {"moratorium"}) \cup {"roi"}
  BY RegistersListed
<1> QED BY <1>6, <1>7

LEMMA EntryBoolean ==
    ASSUME NEW r \in Register, applicant \in Applicant
    PROVE  Listed(r) \in BOOLEAN
<1>1. applicant.niEndsA \in BOOLEAN /\ applicant.postcodeEH \in BOOLEAN
  BY DEF Applicant
<1> USE DEF Listed, HasEntry
<1>2. CASE r = "basys"
  BY <1>1, <1>2
<1>3. CASE r = "eden"
  BY <1>3
<1>4. CASE r = "das"
  BY <1>4
<1>5. CASE r = "cft"
  BY <1>5
<1>6. CASE r = "moratorium"
  BY <1>1, <1>6
<1>7. CASE r = "roi"
  BY <1>7
<1> QED BY <1>2, <1>3, <1>4, <1>5, <1>6, <1>7, RegistersListed

LEMMA ChecksTypeStart == ChecksInit => ChecksTypeOK
<1> SUFFICES ASSUME ChecksInit PROVE ChecksTypeOK
  OBVIOUS
<1>1. circumstances \in Circumstances /\ applicant \in Applicant
  BY ChecksAssumption DEF ChecksInit
<1>2. asked \in 0..Len(Registers)
  BY RegistersListed DEF ChecksInit, NothingChecked
<1> QED BY <1>1, <1>2 DEF ChecksInit, NothingChecked, ChecksTypeOK

LEMMA ChecksTypeStep ==
    ASSUME ChecksTypeOK, [ChecksNext]_checksVars
    PROVE  ChecksTypeOK'
<1> USE DEF ChecksTypeOK
<1>1. CASE UNCHANGED checksVars
  BY <1>1 DEF checksVars
<1>2. CASE CheckAll \/ Reply \/ RunChecks
  BY <1>2 DEF CheckAll, Reply, RunChecks
<1>3. ASSUME NEW r \in Register, SettleCheck(r)
      PROVE  ChecksTypeOK'
  <2>1. Answered(r) \in Result /\ Failed(r) \in Result
    BY EntryBoolean DEF Answered, Failed, Result
  <2> QED BY <1>3, <2>1 DEF SettleCheck
<1>4. CASE CheckNext
  <2>1. /\ asked + 1 \in 1..6 /\ asked' = asked + 1
        /\ Registers[asked + 1] \in Register
    BY <1>4, RegistersListed DEF CheckNext
  <2>2. Answered(Registers[asked + 1]) \in Result /\ Clear \in Result
    BY <2>1, EntryBoolean DEF Answered, Clear, Result
  <2>3. results' \in [Register -> Result \cup {NoAnswer}]
    BY <1>4, <2>1, <2>2 DEF CheckNext
  <2>4. simulated' \in BOOLEAN
    BY <1>4 DEF CheckNext
  <2> QED BY <1>4, <2>1, <2>3, <2>4, RegistersListed DEF CheckNext
<1>5. CASE CreditCheck
  BY <1>5 DEF CreditCheck
<1>6. CASE GetRecommendation
  <2>1. StaticAdvice \in Advice
    BY DEF StaticAdvice, Advise, Advice, Advised, Confidence
  <2>2. EngineAnswer("flag") = NoAnswer
    BY DEF EngineAnswer
  <2> QED BY <1>6, <2>1, <2>2 DEF GetRecommendation
<1> QED
  BY <1>1, <1>2, <1>3, <1>4, <1>5, <1>6 DEF ChecksNext

\* What the form and the orchestrator know of each register keeps its type.
THEOREM ChecksTypeCorrect == ChecksSpec => []ChecksTypeOK
<1>1. ChecksTypeOK /\ [ChecksNext]_checksVars => ChecksTypeOK'
  BY ChecksTypeStep
<1> QED BY <1>1, ChecksTypeStart, PTL DEF ChecksSpec

(***************************************************************************)
(* Of a register that check-all asked, what is recorded is its answer or   *)
(* its failure, and the reply waits until one is.                          *)
(***************************************************************************)
RepliesTrue ==
    /\ job = "none" => \A r \in Register : results[r] = NoAnswer
    /\ job \in {"all", "replied"} => \A r \in Register :
            results[r] \in {NoAnswer, Answered(r), Failed(r)}
    /\ job = "replied" => \A r \in Register : results[r] # NoAnswer

LEMMA RepliesTrueStep ==
    ASSUME ChecksTypeOK, RepliesTrue, [ChecksNext]_checksVars
    PROVE  RepliesTrue'
<1> USE DEF RepliesTrue
<1>1. UNCHANGED <<circumstances, applicant>>
  BY DEF ChecksNext, CheckAll, SettleCheck, Reply, RunChecks, CheckNext, CreditCheck,
         GetRecommendation, checksVars
<1>2. \A r \in Register : Answered(r)' = Answered(r) /\ Failed(r)' = Failed(r)
  BY <1>1 DEF Answered, Failed, Listed
<1>3. CASE UNCHANGED <<job, results>>
  BY <1>2, <1>3
<1>4. CASE CheckAll \/ Reply
  BY <1>2, <1>4 DEF CheckAll, Reply
<1>5. ASSUME NEW r \in Register, SettleCheck(r)
      PROVE  RepliesTrue'
  <2>1. \A s \in Register :
            results'[s] = results[s] \/ results'[s] \in {Answered(s), Failed(s)}
    BY <1>5 DEF SettleCheck, ChecksTypeOK
  <2> QED BY <1>2, <1>5, <2>1 DEF SettleCheck
<1>6. CASE RunChecks \/ CheckNext \/ CreditCheck \/ GetRecommendation
  BY <1>6 DEF RunChecks, CheckNext, CreditCheck, GetRecommendation
<1> QED
  BY <1>3, <1>4, <1>5, <1>6 DEF ChecksNext, checksVars

\* Every register with an entry is found or reported as an error.
LEMMA EntriesCounted ==
    ASSUME ChecksTypeOK, RepliesTrue, job = "replied"
    PROVE  LET entries == Cardinality({r \in Register : Listed(r)})
           IN  CasesFound <= entries /\ entries <= CasesFound + Errors
<1> DEFINE withEntry == {r \in Register : Listed(r)}
           found == {r \in Register : results[r].found}
           failed == {r \in Register : results[r].status = "error"}
<1>1. \A r \in Register : results[r] \in {Answered(r), Failed(r)}
  BY DEF RepliesTrue
<1>2. found \subseteq withEntry
  BY <1>1 DEF Answered, Failed
<1>3. withEntry \subseteq found \cup failed
  BY <1>1 DEF Answered, Failed
<1>4. IsFiniteSet(withEntry) /\ IsFiniteSet(found) /\ IsFiniteSet(failed)
  BY RegisterFinite, FS_Subset
<1>5. Cardinality(found) <= Cardinality(withEntry)
  BY <1>2, <1>4, FS_Subset
<1>6. /\ IsFiniteSet(found \cup failed)
      /\ Cardinality(found \cup failed)
            = Cardinality(found) + Cardinality(failed) - Cardinality(found \cap failed)
  BY <1>4, FS_Union
<1>7. Cardinality(withEntry) <= Cardinality(found \cup failed)
  BY <1>3, <1>6, FS_Subset
<1>8. /\ Cardinality(withEntry) \in Nat /\ Cardinality(found) \in Nat
      /\ Cardinality(failed) \in Nat /\ Cardinality(found \cap failed) \in Nat
  <2>1. IsFiniteSet(found \cap failed)
    BY <1>4, FS_Subset
  <2> QED BY <1>4, <2>1, FS_CardinalityType
<1>9. Cardinality(withEntry) <= Cardinality(found) + Cardinality(failed)
  BY <1>6, <1>7, <1>8
<1> QED BY <1>5, <1>9 DEF CasesFound, Errors

(***************************************************************************)
(* The summary of check-all accounts for every register, whichever calls   *)
(* fail and in whatever order they settle (orchestrate.ts POST /check-all).*)
(***************************************************************************)
THEOREM ChecksHideNothing == ChecksSpec => []ReplyHidesNothing
<1>1. ChecksInit => RepliesTrue
  BY DEF ChecksInit, NothingChecked, RepliesTrue
<1>2. ChecksTypeOK /\ RepliesTrue /\ [ChecksNext]_checksVars => RepliesTrue'
  BY RepliesTrueStep
<1>3. ChecksTypeOK /\ RepliesTrue => ReplyHidesNothing
  BY EntriesCounted DEF ReplyHidesNothing
<1> QED BY <1>1, <1>2, <1>3, ChecksTypeCorrect, PTL DEF ChecksSpec

-----------------------------------------------------------------------------
(***************************************************************************)
(* Clocks                                                                  *)
(***************************************************************************)
\* A set of numbers has a least one.
LEMMA LeastNatural ==
    ASSUME NEW T, T \subseteq Nat, T # {}
    PROVE  \E x \in T : \A y \in T : x <= y
<1>1. PICK x \in T : \A y \in T : ~(<<y, x>> \in OpToRel(<, Nat))
  BY NatLessThanWellFounded, WFMin
<1>2. ASSUME NEW y \in T
      PROVE  x <= y
  <2>1. ~(y < x)
    BY <1>1 DEF OpToRel
  <2> QED BY <2>1
<1> QED BY <1>2

LEMMA WindowsTyped ==
    ASSUME NEW product \in CaseProduct
    PROVE  /\ Windows(product) # {}
           /\ \A w \in Windows(product) : w.kind \in DeadlineKind /\ w.days \in Nat
<1>1. PeriodDays - LateClaimDays \in Nat
  BY WindowsAssumption
<1>2. Windows(product) \subseteq [kind : DeadlineKind, days : Nat]
  BY <1>1, WindowsAssumption DEF Windows, CaseProduct, DeadlineKind
<1>3. \E w : w \in Windows(product)
  <2>1. \A kind, days : {[kind |-> kind, days |-> days]} # {}
    OBVIOUS
  <2>2. CASE product # "sequestration"
    BY <2>1, <2>2 DEF Windows, CaseProduct
  <2>3. CASE product = "sequestration"
    <3>1. [kind |-> "discharge", days |-> DischargeDays] \in Windows(product)
      BY <2>3 DEF Windows
    <3> QED BY <3>1
  <2> QED BY <2>2, <2>3
<1> QED BY <1>2, <1>3

\* A product has clocks, none due before the day they run from.
LEMMA CaseClocksTyped ==
    ASSUME NEW product \in CaseProduct, NEW day \in Int
    PROVE  /\ CaseClocks(product, day) # {}
           /\ \A c \in CaseClocks(product, day) :
                c.kind \in DeadlineKind /\ c.due \in Int /\ c.due - day \in Nat
<1>1. ASSUME NEW c \in CaseClocks(product, day)
      PROVE  c.kind \in DeadlineKind /\ c.due \in Int /\ c.due - day \in Nat
  <2>1. PICK w \in Windows(product) : c = [kind |-> w.kind, due |-> day + w.days]
    BY DEF CaseClocks
  <2>2. w.kind \in DeadlineKind /\ w.days \in Nat
    BY WindowsTyped
  <2> QED BY <2>1, <2>2
<1>2. CaseClocks(product, day) # {}
  BY WindowsTyped DEF CaseClocks
<1> QED BY <1>1, <1>2

\* The soonest of some clocks of a case.
LEMMA SoonestClock ==
    ASSUME NEW product \in CaseProduct, NEW day \in Int,
           NEW S, S \subseteq CaseClocks(product, day), S # {}
    PROVE  \E c \in S : \A d \in S : c.due <= d.due
<1> DEFINE T == {c.due - day : c \in S}
<1>1. T \subseteq Nat /\ T # {}
  BY CaseClocksTyped
<1>2. PICK x \in T : \A y \in T : x <= y
  BY <1>1, LeastNatural
<1>3. PICK c \in S : x = c.due - day
  BY <1>2
<1>4. ASSUME NEW d \in S
      PROVE  c.due <= d.due
  <2>1. c.due - day <= d.due - day
    BY <1>2, <1>3
  <2>2. c.due \in Int /\ d.due \in Int
    BY <1>3, CaseClocksTyped
  <2> QED BY <2>1, <2>2
<1> QED BY <1>4

(***************************************************************************)
(* A milestone, once reached on some day, is behind the posture of every   *)
(* later one: a breach stays expired, and what was due or approaching is   *)
(* imminent or expired.                                                    *)
(***************************************************************************)
LEMMA MilestoneStays ==
    ASSUME NEW due \in Int, NEW d \in Int, NEW day \in Int, d <= day,
           NEW m \in MilestonesOf(due, d)
    PROVE  /\ m = "breached" => Expired(due, day)
           /\ Expired(due, day) \/ Imminent(due, day)
<1>1. /\ m \in {"approaching", "due_today", "breached"}
      /\ m = "breached" => due - d < 0
      /\ m = "due_today" => due - d = 0
      /\ m = "approaching" => due - d \in 1..ImminentDays
  BY DEF MilestonesOf, Milestone, Expired, DaysRemaining
<1>2. ImminentDays \in Nat
  BY WindowsAssumption
<1> QED BY <1>1, <1>2 DEF Expired, Imminent, DaysRemaining

\* And where a clock stands today, one of its milestones is reached today.
LEMMA MilestoneReached ==
    ASSUME NEW due \in Int, NEW day \in Int
    PROVE  /\ Expired(due, day) => "breached" \in MilestonesOf(due, day)
           /\ \A m \in MilestonesOf(due, day) : m \in Milestone
BY DEF MilestonesOf, Milestone

LEMMA ProductKnown ==
    WatchedProduct # NoProduct => WatchedProduct \in CaseProduct
BY DEF WatchedProduct, NormaliseProduct

LEMMA WatchTypeStep ==
    ASSUME WatchTypeOK, [WatchNext]_watchVars
    PROVE  WatchTypeOK'
<1>1. CASE Sweep
  <2>1. ASSUME NEW e \in EvaluateCase(WatchedProduct, submittedOn, watchedOn, fired)
        PROVE  <<e.kind, e.milestone>> \in DeadlineKind \X Milestone
    <3>1. PICK c \in CaseClocks(WatchedProduct, submittedOn) :
            \E m \in MilestonesOf(c.due, watchedOn) :
                e = [kind |-> c.kind, milestone |-> m, due |-> c.due]
      BY DEF EvaluateCase
    <3>2. c.kind \in DeadlineKind
      BY <1>1, ProductKnown, CaseClocksTyped DEF WatchTypeOK, Sweep
    <3> QED BY <3>1, <3>2 DEF MilestonesOf
  <2> QED BY <1>1, <2>1 DEF Sweep, WatchTypeOK
<1>2. CASE NextDay
  BY <1>2, WatchAssumption DEF NextDay, WatchTypeOK
<1>3. CASE UNCHANGED watchVars
  BY <1>3 DEF watchVars, WatchTypeOK
<1> QED BY <1>1, <1>2, <1>3 DEF WatchNext

\* The day stays between the first and the last, and what fired is a milestone.
THEOREM WatchTypeCorrect == WatchSpec => []WatchTypeOK
<1>1. WatchInit => WatchTypeOK
  BY WatchAssumption DEF WatchInit, WatchTypeOK
<1>2. WatchTypeOK /\ [WatchNext]_watchVars => WatchTypeOK'
  BY WatchTypeStep
<1> QED BY <1>1, <1>2, PTL DEF WatchSpec

\* What fired is a milestone one of the case's clocks reached on some day until today.
FiredTrue ==
    \A f \in fired :
        \E c \in CaseClocks(WatchedProduct, submittedOn), d \in Int :
            d <= watchedOn /\ c.kind = f[1] /\ f[2] \in MilestonesOf(c.due, d)

LEMMA FiredTrueStep ==
    ASSUME WatchTypeOK, FiredTrue, [WatchNext]_watchVars
    PROVE  FiredTrue'
<1>1. watchedOn \in Int /\ watchedOn' \in Int /\ watchedOn <= watchedOn'
  BY WatchTypeStep, WatchAssumption DEF WatchTypeOK, WatchNext, Sweep, NextDay, watchVars
<1>2. UNCHANGED <<rawProduct, submittedOn>>
  BY DEF WatchNext, Sweep, NextDay, watchVars
<1>3. CaseClocks(WatchedProduct, submittedOn)' = CaseClocks(WatchedProduct, submittedOn)
  BY <1>2 DEF WatchedProduct
<1>4. ASSUME NEW f \in fired
      PROVE  \E c \in CaseClocks(WatchedProduct, submittedOn), d \in Int :
                d <= watchedOn' /\ c.kind = f[1] /\ f[2] \in MilestonesOf(c.due, d)
  <2>1. PICK c \in CaseClocks(WatchedProduct, submittedOn), d \in Int :
            d <= watchedOn /\ c.kind = f[1] /\ f[2] \in MilestonesOf(c.due, d)
    BY DEF FiredTrue
  <2>2. d <= watchedOn'
    BY <1>1, <2>1
  <2> QED BY <2>1, <2>2
<1>5. CASE fired' = fired
  BY <1>3, <1>4, <1>5 DEF FiredTrue
<1>6. CASE Sweep
  <2>1. ASSUME NEW e \in EvaluateCase(WatchedProduct, submittedOn, watchedOn, fired)
        PROVE  \E c \in CaseClocks(WatchedProduct, submittedOn), d \in Int :
                d <= watchedOn' /\ c.kind = e.kind /\ e.milestone \in MilestonesOf(c.due, d)
    <3>1. PICK c \in CaseClocks(WatchedProduct, submittedOn) :
            \E m \in MilestonesOf(c.due, watchedOn) :
                e = [kind |-> c.kind, milestone |-> m, due |-> c.due]
      BY DEF EvaluateCase
    <3> QED BY <1>1, <3>1
  <2>2. \A f \in fired' : f \in fired
            \/ \E e \in EvaluateCase(WatchedProduct, submittedOn, watchedOn, fired) :
                    f = <<e.kind, e.milestone>>
    BY <1>6 DEF Sweep
  <2>3. ASSUME NEW f \in fired'
        PROVE  \E c \in CaseClocks(WatchedProduct, submittedOn), d \in Int :
                d <= watchedOn' /\ c.kind = f[1] /\ f[2] \in MilestonesOf(c.due, d)
    BY <1>4, <2>1, <2>2
  <2> QED BY <1>3, <2>3 DEF FiredTrue
<1> QED BY <1>5, <1>6 DEF WatchNext, NextDay, watchVars

(***************************************************************************)
(* The badge of the queue and the worker's reminders agree on every day    *)
(* that has been swept, for every product, windows of any length and any   *)
(* first and last day (engine.ts: evaluateCase, postureOf).                *)
(***************************************************************************)
THEOREM BadgeAgrees == WatchSpec => []BadgeAgreesWithWorker
<1>1. WatchInit => FiredTrue
  BY DEF WatchInit, FiredTrue
<1>2. WatchTypeOK /\ FiredTrue /\ [WatchNext]_watchVars => FiredTrue'
  BY FiredTrueStep
<1>3. WatchTypeOK /\ FiredTrue => BadgeAgreesWithWorker
  <2> DEFINE clocks == CaseClocks(WatchedProduct, submittedOn)
  <2> SUFFICES ASSUME WatchTypeOK, FiredTrue, WatchedProduct # NoProduct,
                      EvaluateCase(WatchedProduct, submittedOn, watchedOn, fired) = {}
               PROVE  /\ (Posture = "overdue") <=> (\E f \in fired : f[2] = "breached")
                      /\ (Posture = "on_track") => (fired = {})
    BY DEF BadgeAgreesWithWorker
  <2>1. /\ watchedOn \in Int /\ submittedOn \in Int
        /\ \A c \in clocks : c.due \in Int
    BY ProductKnown, CaseClocksTyped, WatchAssumption DEF WatchTypeOK
  <2>2. /\ Posture = "overdue" <=> \E c \in clocks : Expired(c.due, watchedOn)
        /\ Posture = "on_track" =>
                ~ \E c \in clocks : Expired(c.due, watchedOn) \/ Imminent(c.due, watchedOn)
    BY DEF Posture, PostureOf
  <2>3. ASSUME NEW c \in clocks, NEW m \in MilestonesOf(c.due, watchedOn)
        PROVE  <<c.kind, m>> \in fired
    <3> SUFFICES ASSUME <<c.kind, m>> \notin fired PROVE FALSE
      OBVIOUS
    <3> DEFINE due(x) == {[kind |-> x.kind, milestone |-> k, due |-> x.due] :
                            k \in {y \in MilestonesOf(x.due, watchedOn) :
                                    <<x.kind, y>> \notin fired}}
    <3>1. [kind |-> c.kind, milestone |-> m, due |-> c.due] \in due(c)
      OBVIOUS
    <3>2. UNION {due(x) : x \in clocks} = {}
      BY DEF EvaluateCase
    <3> HIDE DEF due
    <3> QED BY <3>1, <3>2
  <2>4. ASSUME NEW c \in clocks, Expired(c.due, watchedOn)
        PROVE  \E f \in fired : f[2] = "breached"
    <3>1. <<c.kind, "breached">> \in fired
      BY <2>1, <2>3, <2>4, MilestoneReached
    <3> QED BY <3>1
  <2>5. ASSUME NEW f \in fired
        PROVE  \E c \in clocks :
                /\ f[2] = "breached" => Expired(c.due, watchedOn)
                /\ Expired(c.due, watchedOn) \/ Imminent(c.due, watchedOn)
    <3>1. PICK c \in clocks, d \in Int :
            d <= watchedOn /\ c.kind = f[1] /\ f[2] \in MilestonesOf(c.due, d)
      BY DEF FiredTrue
    <3> QED BY <2>1, <3>1, MilestoneStays
  <2> QED BY <2>2, <2>4, <2>5
<1> QED BY <1>1, <1>2, <1>3, WatchTypeCorrect, PTL DEF WatchSpec

(***************************************************************************)
(* The deadline on the badge is the one its posture is about: the soonest  *)
(* of the clocks still running, an expired one when none is (engine.ts:    *)
(* nextDeadline).                                                          *)
(***************************************************************************)
THEOREM ShownDeadlineExplains == WatchSpec => []ShownDeadlineExplainsPosture
<1>1. WatchTypeOK => ShownDeadlineExplainsPosture
  <2> DEFINE clocks == CaseClocks(WatchedProduct, submittedOn)
             running == {c \in clocks : ~Expired(c.due, watchedOn)}
             set == IF running # {} THEN running ELSE clocks
             shownClock == NextDeadline(WatchedProduct, submittedOn, watchedOn)
  <2> SUFFICES ASSUME WatchTypeOK, WatchedProduct # NoProduct
               PROVE  /\ Posture = "at_risk" => Imminent(shownClock.due, watchedOn)
                      /\ Expired(shownClock.due, watchedOn) =>
                            \A c \in clocks : Expired(c.due, watchedOn)
    BY DEF ShownDeadlineExplainsPosture
  <2>1. /\ watchedOn \in Int /\ submittedOn \in Int /\ WatchedProduct \in CaseProduct
        /\ ImminentDays \in Nat
        /\ clocks # {} /\ \A c \in clocks : c.due \in Int
    BY ProductKnown, CaseClocksTyped, WatchAssumption, WindowsAssumption DEF WatchTypeOK
  <2>2. set \subseteq clocks /\ set # {}
    BY <2>1
  <2>3. \E c \in set : \A d \in set : c.due <= d.due
    BY <2>1, <2>2, SoonestClock
  <2>4. shownClock = CHOOSE c \in set : \A d \in set : c.due <= d.due
    BY DEF NextDeadline
  <2> HIDE DEF shownClock
  <2>5. shownClock \in set /\ \A d \in set : shownClock.due <= d.due
    BY <2>3, <2>4
  <2>6. ASSUME Posture = "at_risk"
        PROVE  Imminent(shownClock.due, watchedOn)
    <3>1. /\ ~ \E c \in clocks : Expired(c.due, watchedOn)
          /\ \E c \in clocks : Imminent(c.due, watchedOn)
      BY <2>6 DEF Posture, PostureOf
    <3>2. PICK c \in clocks : Imminent(c.due, watchedOn)
      BY <3>1
    <3>3. shownClock \in clocks /\ c \in set
      BY <2>2, <2>5, <3>1
    <3>4. ~Expired(shownClock.due, watchedOn) /\ shownClock.due <= c.due
      BY <2>5, <3>1, <3>3
    <3>5. shownClock.due \in Int /\ c.due \in Int
      BY <2>1, <3>3
    <3> QED BY <2>1, <3>2, <3>4, <3>5 DEF Expired, Imminent, DaysRemaining
  <2>7. ASSUME Expired(shownClock.due, watchedOn), NEW c \in clocks
        PROVE  Expired(c.due, watchedOn)
    BY <2>5, <2>7
  <2> QED BY <2>6, <2>7
<1> QED BY <1>1, WatchTypeCorrect, PTL

-----------------------------------------------------------------------------
(***************************************************************************)
(* Sums.  SumFunctionOnSet is a recursion over the subsets of its index    *)
(* set; its equation has a solution when the set is finite, and what is    *)
(* said of the solution is shown of a smallest subset that would fail it.  *)
(***************************************************************************)
Pick(s) == CHOOSE x \in s : TRUE

Sums(f, S, g) ==
    g = [s \in SUBSET S |-> IF s = {} THEN 0 ELSE f[Pick(s)] + g[s \ {Pick(s)}]]

LEMMA SumIsChosen ==
    ASSUME NEW f, NEW S
    PROVE  SumFunctionOnSet(f, S) = (CHOOSE g : Sums(f, S, g))[S]
BY DEF SumFunctionOnSet, FoldFunctionOnSet, MapThenFoldSet, Sums, Pick

LEMMA PickSmaller ==
    ASSUME NEW s, IsFiniteSet(s), s # {}
    PROVE  /\ Pick(s) \in s /\ IsFiniteSet(s \ {Pick(s)})
           /\ Cardinality(s) \in Nat /\ Cardinality(s) > 0
           /\ Cardinality(s \ {Pick(s)}) = Cardinality(s) - 1
<1>1. Pick(s) \in s
  BY DEF Pick
<1>2. Cardinality(s) \in Nat /\ Cardinality(s) # 0
  BY FS_CardinalityType, FS_EmptySet
<1>3. IsFiniteSet(s \ {Pick(s)}) /\ Cardinality(s \ {Pick(s)}) = Cardinality(s) - 1
  BY <1>1, FS_RemoveElement
<1> QED BY <1>1, <1>2, <1>3

\* Partial sums: a solution on the subsets of at most n elements.
SumsUpTo(f, S, n, g) ==
    /\ g \in [{s \in SUBSET S : Cardinality(s) <= n} -> Nat]
    /\ \A s \in SUBSET S : Cardinality(s) <= n =>
            g[s] = IF s = {} THEN 0 ELSE f[Pick(s)] + g[s \ {Pick(s)}]

LEMMA PartialSums ==
    ASSUME NEW f, NEW S, IsFiniteSet(S), \A x \in S : f[x] \in Nat
    PROVE  \A n \in Nat : \E g : SumsUpTo(f, S, n, g)
<1> DEFINE Small(n) == {s \in SUBSET S : Cardinality(s) <= n}
           Body(g, s) == IF s = {} THEN 0 ELSE f[Pick(s)] + g[s \ {Pick(s)}]
           Solves(n, g) == \A s \in Small(n) : g[s] = Body(g, s)
           Bad == {n \in Nat : ~ \E g \in [Small(n) -> Nat] : Solves(n, g)}
<1>1. \A s \in SUBSET S : IsFiniteSet(s) /\ Cardinality(s) \in Nat
  BY FS_Subset, FS_CardinalityType
<1>2. 0 \notin Bad
  <2>1. \A s \in Small(0) : s = {}
    BY <1>1, FS_EmptySet
  <2> DEFINE g == [s \in Small(0) |-> 0]
  <2>2. g \in [Small(0) -> Nat] /\ Solves(0, g)
    BY <2>1
  <2> QED BY <2>2
<1>3. ASSUME NEW n \in Nat, n \notin Bad
      PROVE  n + 1 \notin Bad
  <2>1. PICK g \in [Small(n) -> Nat] : Solves(n, g)
    BY <1>3
  <2> DEFINE h == [s \in Small(n + 1) |-> Body(g, s)]
  <2>2. ASSUME NEW s \in Small(n + 1), s # {}
        PROVE  /\ s \ {Pick(s)} \in Small(n) /\ s \ {Pick(s)} \in Small(n + 1)
               /\ f[Pick(s)] \in Nat
    <3>1. /\ Pick(s) \in s /\ Cardinality(s \ {Pick(s)}) = Cardinality(s) - 1
          /\ Cardinality(s) \in Nat /\ Cardinality(s) <= n + 1
      BY <1>1, <2>2, PickSmaller
    <3> QED BY <3>1
  <2>3. h \in [Small(n + 1) -> Nat]
    <3>1. ASSUME NEW s \in Small(n + 1)
          PROVE  Body(g, s) \in Nat
      <4>1. CASE s = {}
        BY <4>1
      <4>2. CASE s # {}
        <5>1. g[s \ {Pick(s)}] \in Nat /\ f[Pick(s)] \in Nat
          BY <2>2, <4>2
        <5> QED BY <4>2, <5>1
      <4> QED BY <4>1, <4>2
    <3> QED BY <3>1
  <2>4. \A s \in Small(n) : h[s] = g[s]
    <3>1. \A s \in Small(n) : s \in Small(n + 1)
      BY <1>1
    <3> QED BY <2>1, <3>1
  <2>5. Solves(n + 1, h)
    <3>1. ASSUME NEW s \in Small(n + 1)
          PROVE  h[s] = Body(h, s)
      <4>1. CASE s = {}
        BY <4>1
      <4>2. CASE s # {}
        <5>1. h[s \ {Pick(s)}] = g[s \ {Pick(s)}]
          BY <2>2, <2>4, <4>2
        <5> QED BY <4>2, <5>1
      <4> QED BY <4>1, <4>2
    <3> QED BY <3>1
  <2> QED BY <2>3, <2>5
<1>4. Bad = {}
  <2> HIDE DEF Bad
  <2> SUFFICES ASSUME Bad # {} PROVE FALSE
    OBVIOUS
  <2>1. Bad \subseteq Nat
    BY DEF Bad
  <2>2. PICK x \in Bad : \A y \in Bad : x <= y
    BY <2>1, LeastNatural
  <2>3. x - 1 \in Nat /\ x = (x - 1) + 1
    BY <1>2, <2>1, <2>2
  <2>4. x - 1 \notin Bad
    BY <2>1, <2>2, <2>3
  <2> QED BY <1>3, <2>2, <2>3, <2>4
<1>5. ASSUME NEW n \in Nat
      PROVE  \E g \in [Small(n) -> Nat] : Solves(n, g)
  BY <1>4
<1> QED BY <1>5 DEF SumsUpTo

LEMMA SumExists ==
    ASSUME NEW f, NEW S, IsFiniteSet(S), \A x \in S : f[x] \in Nat
    PROVE  Sums(f, S, CHOOSE g : Sums(f, S, g))
<1>1. PICK n \in Nat : n = Cardinality(S)
  BY FS_CardinalityType
<1>2. \A s \in SUBSET S : Cardinality(s) <= n
  BY <1>1, FS_Subset
<1>3. PICK g : SumsUpTo(f, S, n, g)
  BY PartialSums
<1>4. {s \in SUBSET S : Cardinality(s) <= n} = SUBSET S
  BY <1>2
<1>5. /\ g \in [SUBSET S -> Nat]
      /\ \A s \in SUBSET S :
            g[s] = IF s = {} THEN 0 ELSE f[Pick(s)] + g[s \ {Pick(s)}]
  BY <1>2, <1>3, <1>4 DEF SumsUpTo
<1>6. Sums(f, S, g)
  BY <1>5 DEF Sums
<1> QED BY <1>6

\* Sums of natural numbers are natural, and grow with what is summed.
LEMMA SumsGrow ==
    ASSUME NEW f, NEW h, NEW S, IsFiniteSet(S),
           \A x \in S : f[x] \in Nat /\ h[x] \in Nat /\ f[x] <= h[x],
           NEW F, Sums(f, S, F), NEW H, Sums(h, S, H)
    PROVE  \A s \in SUBSET S : F[s] \in Nat /\ H[s] \in Nat /\ F[s] <= H[s]
<1> DEFINE Good(s) == F[s] \in Nat /\ H[s] \in Nat /\ F[s] <= H[s]
           Bad == {n \in Nat : \E s \in SUBSET S : Cardinality(s) = n /\ ~Good(s)}
<1>1. \A s \in SUBSET S : IsFiniteSet(s) /\ Cardinality(s) \in Nat
  BY FS_Subset, FS_CardinalityType
<1>2. \A s \in SUBSET S :
        /\ F[s] = IF s = {} THEN 0 ELSE f[Pick(s)] + F[s \ {Pick(s)}]
        /\ H[s] = IF s = {} THEN 0 ELSE h[Pick(s)] + H[s \ {Pick(s)}]
  BY DEF Sums
<1>3. ASSUME NEW s \in SUBSET S, s # {}, Good(s \ {Pick(s)})
      PROVE  Good(s)
  <2>1. Pick(s) \in S
    BY <1>1, <1>3, PickSmaller
  <2>2. F[s] = f[Pick(s)] + F[s \ {Pick(s)}] /\ H[s] = h[Pick(s)] + H[s \ {Pick(s)}]
    BY <1>2, <1>3
  <2> QED BY <1>3, <2>1, <2>2
<1>4. Good({})
  <2>1. {} \in SUBSET S
    OBVIOUS
  <2>2. F[{}] = 0 /\ H[{}] = 0
    BY <1>2, <2>1
  <2> QED BY <2>2
<1>5. Bad = {}
  <2> HIDE DEF Good
  <2> SUFFICES ASSUME Bad # {} PROVE FALSE
    OBVIOUS
  <2>1. PICK n \in Bad : \A m \in Bad : n <= m
    <3>1. Bad \subseteq Nat
      OBVIOUS
    <3> HIDE DEF Bad
    <3> QED BY <3>1, LeastNatural
  <2>2. PICK s \in SUBSET S : Cardinality(s) = n /\ ~Good(s)
    BY <2>1
  <2>3. s # {}
    BY <1>4, <2>2
  <2>4. /\ Cardinality(s \ {Pick(s)}) = n - 1 /\ n \in Nat /\ n > 0
        /\ s \ {Pick(s)} \in SUBSET S
    BY <1>1, <2>2, <2>3, PickSmaller
  <2>5. ~Good(s \ {Pick(s)})
    BY <1>3, <2>2, <2>3
  <2>6. n - 1 \in Bad
    BY <2>4, <2>5
  <2> QED BY <2>1, <2>4, <2>6
<1>6. ASSUME NEW s \in SUBSET S PROVE Good(s)
  BY <1>1, <1>5
<1> QED BY <1>6

LEMMA SumMonotone ==
    ASSUME NEW f, NEW h, NEW S, IsFiniteSet(S),
           \A x \in S : f[x] \in Nat /\ h[x] \in Nat /\ f[x] <= h[x]
    PROVE  /\ SumFunctionOnSet(f, S) \in Nat /\ SumFunctionOnSet(h, S) \in Nat
           /\ SumFunctionOnSet(f, S) <= SumFunctionOnSet(h, S)
<1>1. Sums(f, S, CHOOSE g : Sums(f, S, g)) /\ Sums(h, S, CHOOSE g : Sums(h, S, g))
  BY SumExists
<1>2. S \in SUBSET S
  OBVIOUS
<1>3. PICK F, H : /\ Sums(f, S, F) /\ Sums(h, S, H)
                  /\ SumFunctionOnSet(f, S) = F[S] /\ SumFunctionOnSet(h, S) = H[S]
  BY <1>1, SumIsChosen
<1> QED BY <1>2, <1>3, SumsGrow

LEMMA SumNatural ==
    ASSUME NEW f, NEW S, IsFiniteSet(S), \A x \in S : f[x] \in Nat
    PROVE  SumFunctionOnSet(f, S) \in Nat
<1>1. \A x \in S : f[x] <= f[x]
  OBVIOUS
<1> QED BY <1>1, SumMonotone

-----------------------------------------------------------------------------
(***************************************************************************)
(* The contribution.  Every amount a statement holds counts into a sum     *)
(* that grows with it.                                                     *)
(***************************************************************************)
LEMMA StatementType ==
    ASSUME NEW s \in Statement
    PROVE  /\ s.income \in Nat /\ s.aliment \in Nat /\ s.pension \in Nat
           /\ \A c \in Category \cup Unnamed : s.spent[c] \in Nat
BY CftAssumption DEF Statement

LEMMA CategoriesFinite ==
    /\ IsFiniteSet(Category) /\ IsFiniteSet({Other} \cup Unnamed)
    /\ {Other} \cup Unnamed \subseteq Category \cup Unnamed
    /\ DOMAIN Trigger \subseteq Category
    /\ \A c \in DOMAIN Trigger : Trigger[c] \in Nat
BY CftAssumption, FS_Singleton, FS_Union DEF Category

LEMMA DeclaredGrows ==
    ASSUME NEW s \in Statement, NEW t \in Statement, NeedsMore(s, t)
    PROVE  \A c \in Category :
              /\ Declared(s)[c] \in Nat /\ Declared(t)[c] \in Nat
              /\ Declared(s)[c] <= Declared(t)[c]
<1>1. \A x \in Category \cup Unnamed :
            s.spent[x] \in Nat /\ t.spent[x] \in Nat /\ s.spent[x] <= t.spent[x]
  BY StatementType DEF NeedsMore
<1> DEFINE folded == {Other} \cup Unnamed
           S == SumFunctionOnSet(s.spent, folded)
           T == SumFunctionOnSet(t.spent, folded)
<1>2. S \in Nat /\ T \in Nat /\ S <= T
  <2>1. \A x \in folded :
            s.spent[x] \in Nat /\ t.spent[x] \in Nat /\ s.spent[x] <= t.spent[x]
    BY <1>1, CategoriesFinite
  <2> QED BY <2>1, CategoriesFinite, SumMonotone
<1>3. ASSUME NEW c \in Category
      PROVE  /\ Declared(s)[c] = IF c = Other THEN S ELSE s.spent[c]
             /\ Declared(t)[c] = IF c = Other THEN T ELSE t.spent[c]
  BY DEF Declared
<1> HIDE DEF S, T
<1> QED BY <1>1, <1>2, <1>3

LEMMA AllowedByTriggerGrows ==
    ASSUME NEW s \in Statement, NEW t \in Statement, NeedsMore(s, t)
    PROVE  /\ AllowedByTrigger(s) \in Nat /\ AllowedByTrigger(t) \in Nat
           /\ AllowedByTrigger(s) <= AllowedByTrigger(t)
<1> DEFINE by(u) == [c \in Category |->
                IF c \in DOMAIN Trigger THEN Trigger[c] ELSE Declared(u)[c]]
<1>1. ASSUME NEW c \in Category
      PROVE  by(s)[c] \in Nat /\ by(t)[c] \in Nat /\ by(s)[c] <= by(t)[c]
  <2>1. CASE c \in DOMAIN Trigger
    BY <2>1, CategoriesFinite
  <2>2. CASE c \notin DOMAIN Trigger
    BY <2>2, DeclaredGrows
  <2> QED BY <2>1, <2>2
<1>2. /\ AllowedByTrigger(s) = SumFunctionOnSet(by(s), Category)
      /\ AllowedByTrigger(t) = SumFunctionOnSet(by(t), Category)
  BY DEF AllowedByTrigger, SumFunction
<1> HIDE DEF by
<1> QED BY <1>1, <1>2, CategoriesFinite, SumMonotone

LEMMA DeclaredTotalGrows ==
    ASSUME NEW s \in Statement, NEW t \in Statement, NeedsMore(s, t)
    PROVE  /\ SumFunction(Declared(s)) \in Nat /\ SumFunction(Declared(t)) \in Nat
           /\ SumFunction(Declared(s)) <= SumFunction(Declared(t))
<1>1. DOMAIN Declared(s) = Category /\ DOMAIN Declared(t) = Category
  BY DEF Declared
<1> QED BY <1>1, DeclaredGrows, CategoriesFinite, SumMonotone DEF SumFunction

LEMMA ContributionShrinks ==
    ASSUME NEW s \in Statement, NEW t \in Statement, NeedsMore(s, t)
    PROVE  /\ Contribution(s) \in Nat /\ Contribution(t) \in Nat
           /\ Contribution(t) <= Contribution(s)
<1> DEFINE ds == SumFunction(Declared(s))
           dt == SumFunction(Declared(t))
           ts == AllowedByTrigger(s)
           tt == AllowedByTrigger(t)
<1>1. ds \in Nat /\ dt \in Nat /\ ds <= dt
  BY DeclaredTotalGrows
<1>2. ts \in Nat /\ tt \in Nat /\ ts <= tt
  BY AllowedByTriggerGrows
<1>3. Allowed(s) = Greater(Greater(ds, ts) + s.aliment, s.pension)
      /\ Allowed(t) = Greater(Greater(dt, tt) + t.aliment, t.pension)
  BY DEF Allowed
<1> HIDE DEF ds, dt, ts, tt
<1>4. Greater(ds, ts) \in Nat /\ Greater(dt, tt) \in Nat /\ Greater(ds, ts) <= Greater(dt, tt)
  BY <1>1, <1>2 DEF Greater
<1>5. /\ s.aliment \in Nat /\ s.pension \in Nat /\ t.aliment \in Nat /\ t.pension \in Nat
      /\ s.income \in Nat /\ t.income \in Nat
      /\ s.aliment <= t.aliment /\ s.pension <= t.pension /\ t.income <= s.income
  BY StatementType DEF NeedsMore
<1>6. Allowed(s) \in Nat /\ Allowed(t) \in Nat /\ Allowed(s) <= Allowed(t)
  BY <1>3, <1>4, <1>5 DEF Greater
<1> QED BY <1>5, <1>6 DEF Contribution, Greater

(***************************************************************************)
(* Every statement and its contingency have their types: the contribution  *)
(* is never negative, for any categories, figures and amounts.             *)
(***************************************************************************)
THEOREM BudgetTypeCorrect == CftSpec => []CftTypeOK
<1>1. ASSUME NEW s \in Statement
      PROVE  Contingency(s) \in Nat
  <2>1. NeedsMore(s, s)
    BY StatementType DEF NeedsMore
  <2>2. Contribution(s) \in Nat
    BY <2>1, ContributionShrinks
  <2>3. (Contribution(s) + 5) \div 10 \in Nat
    BY <2>2
  <2> QED BY <2>3, CftAssumption DEF Contingency, Lesser
<1>2. CftInit => CftTypeOK
  BY <1>1 DEF CftInit, CftTypeOK
<1>3. CftTypeOK /\ [ReviseStatement]_statement => CftTypeOK'
  <2> SUFFICES ASSUME CftTypeOK, [ReviseStatement]_statement PROVE statement' \in Statement
    BY <1>1 DEF CftTypeOK
  <2>1. statement \in Statement
    BY DEF CftTypeOK
  <2>2. ASSUME NEW x \in Amount, NEW c \in Category \cup Unnamed
        PROVE  /\ [statement EXCEPT !.income = x] \in Statement
               /\ [statement EXCEPT !.aliment = x] \in Statement
               /\ [statement EXCEPT !.pension = x] \in Statement
               /\ [statement EXCEPT !.spent[c] = x] \in Statement
    BY <2>1 DEF Statement
  <2> QED BY <2>1, <2>2 DEF ReviseStatement, Category
<1> QED BY <1>2, <1>3, PTL DEF CftSpec

(***************************************************************************)
(* Declaring more, or earning less, never raises what a debtor is asked    *)
(* for, for any categories, published figures and amounts.                 *)
(***************************************************************************)
THEOREM MoreNeverCosts == CftSpec => DeclaringMoreNeverCosts
<1>1. CftTypeOK /\ CftTypeOK' /\ [ReviseStatement]_statement =>
        [NeedsMore(statement, statement') =>
            Contribution(statement') <= Contribution(statement)]_statement
  BY ContributionShrinks DEF CftTypeOK
<1> QED BY <1>1, BudgetTypeCorrect, PTL DEF CftSpec, DeclaringMoreNeverCosts

-----------------------------------------------------------------------------
(***************************************************************************)
(* The calendar, in any years.  A year is 365 or 366 days, so the years    *)
(* follow one another; so do the months of a year; so a day has one date,  *)
(* and setMonth, with its correction, is what MonthsAfter says.            *)
(***************************************************************************)
LEMMA LeapYears ==
    ASSUME NEW y \in Int
    PROVE  /\ YearStart(y) \in Int
           /\ YearStart(y + 1) = YearStart(y) + (IF IsLeap(y) THEN 366 ELSE 365)
<1> DEFINE leaps(x) == (x - 1) \div 4 - (x - 1) \div 100 + (x - 1) \div 400
<1>1. FirstYear \in Int
  BY CalendarAssumption
<1>2. leaps(y) \in Int /\ leaps(FirstYear) \in Int
  BY <1>1
<1>3. leaps(y + 1) = leaps(y) + (IF IsLeap(y) THEN 1 ELSE 0)
  BY DEF IsLeap
<1>4. \A x \in Int : YearStart(x) = 365 * (x - FirstYear) + leaps(x) - leaps(FirstYear)
  BY DEF YearStart
<1> HIDE DEF leaps
<1>5. y + 1 \in Int /\ 365 * (y + 1 - FirstYear) = 365 * (y - FirstYear) + 365
  BY <1>1
<1> QED BY <1>1, <1>2, <1>3, <1>4, <1>5

LEMMA YearsInOrder ==
    ASSUME NEW y \in Int, NEW z \in Int, y <= z
    PROVE  YearStart(y) <= YearStart(z)
<1> DEFINE leaps(x) == (x - 1) \div 4 - (x - 1) \div 100 + (x - 1) \div 400
<1>1. FirstYear \in Int
  BY CalendarAssumption
<1>2. leaps(y) \in Int /\ leaps(z) \in Int /\ leaps(FirstYear) \in Int
  BY <1>1
<1>3. leaps(y) <= leaps(z) + 3
  OBVIOUS
<1>4. \A x \in Int : YearStart(x) = 365 * (x - FirstYear) + leaps(x) - leaps(FirstYear)
  BY DEF YearStart
<1> HIDE DEF leaps
<1>5. CASE y = z
  BY <1>2, <1>4, <1>5, <1>1
<1>6. CASE y + 1 <= z
  BY <1>1, <1>2, <1>3, <1>4, <1>6
<1> QED BY <1>5, <1>6
LEMMA LengthsOfMonths ==
    ASSUME NEW y \in Int
    PROVE  /\ \A m \in {0, 2, 4, 6, 7, 9, 11} : LengthOfMonth(y, m) = 31
           /\ \A m \in {3, 5, 8, 10} : LengthOfMonth(y, m) = 30
           /\ LengthOfMonth(y, 1) = IF IsLeap(y) THEN 29 ELSE 28
           /\ \A m \in 0..11 : LengthOfMonth(y, m) \in 28..31
<1>1. \A m \in {0, 2, 4, 6, 7, 9, 11} : LengthOfMonth(y, m) = 31
  BY DEF LengthOfMonth
<1>2. \A m \in {3, 5, 8, 10} : LengthOfMonth(y, m) = 30
  BY DEF LengthOfMonth
<1>3. LengthOfMonth(y, 1) = IF IsLeap(y) THEN 29 ELSE 28
  BY DEF LengthOfMonth
<1>4. \A m \in 0..11 : m \in {0, 2, 4, 6, 7, 9, 11} \cup {3, 5, 8, 10} \cup {1}
  OBVIOUS
<1> QED BY <1>1, <1>2, <1>3, <1>4

\* The first days of the months of a year.
LEMMA MonthTable ==
    ASSUME NEW y \in Int, NEW leap, leap = IF IsLeap(y) THEN 1 ELSE 0
    PROVE  /\ leap \in {0, 1} /\ YearStart(y) \in Int
           /\ MonthStart(y, 0) = YearStart(y) /\ MonthStart(y, 1) = YearStart(y) + 31
           /\ MonthStart(y, 2) = YearStart(y) + 59 + leap
           /\ MonthStart(y, 3) = YearStart(y) + 90 + leap
           /\ MonthStart(y, 4) = YearStart(y) + 120 + leap
           /\ MonthStart(y, 5) = YearStart(y) + 151 + leap
           /\ MonthStart(y, 6) = YearStart(y) + 181 + leap
           /\ MonthStart(y, 7) = YearStart(y) + 212 + leap
           /\ MonthStart(y, 8) = YearStart(y) + 243 + leap
           /\ MonthStart(y, 9) = YearStart(y) + 273 + leap
           /\ MonthStart(y, 10) = YearStart(y) + 304 + leap
           /\ MonthStart(y, 11) = YearStart(y) + 334 + leap
           /\ YearStart(y + 1) = YearStart(y) + 365 + leap
           /\ LengthOfMonth(y, 1) = 28 + leap
<1>1. YearStart(y) \in Int /\ YearStart(y + 1) = YearStart(y) + 365 + leap
  BY LeapYears
<1>2. leap \in {0, 1} /\ LengthOfMonth(y, 1) = 28 + leap
  BY LengthsOfMonths
<1>3. \A m \in Int :
        MonthStart(y, m) = YearStart(y) + DaysBefore[m + 1] + (IF m > 1 THEN leap ELSE 0)
  BY DEF MonthStart
<1> QED BY <1>1, <1>2, <1>3 DEF DaysBefore

LEMMA MonthTypes ==
    ASSUME NEW y \in Int, NEW m \in 0..11
    PROVE  MonthStart(y, m) \in Int /\ LengthOfMonth(y, m) \in 28..31
<1>1. m \in {0, 1, 2, 3, 4, 5, 6, 7, 8, 9, 10, 11}
  OBVIOUS
<1>2. PICK leap : leap = IF IsLeap(y) THEN 1 ELSE 0
  OBVIOUS
<1>3. MonthStart(y, m) \in Int
  BY <1>1, <1>2, MonthTable
<1> QED BY <1>3, LengthsOfMonths

\* The months of a year follow one another, and end with it.
LEMMA NextMonth ==
    ASSUME NEW y \in Int, NEW m \in 0..11
    PROVE  MonthStart(y, m) + LengthOfMonth(y, m) =
                IF m = 11 THEN YearStart(y + 1) ELSE MonthStart(y, m + 1)
<1>1. PICK leap : leap = IF IsLeap(y) THEN 1 ELSE 0
  OBVIOUS
<1>2. m \in {0, 1, 2, 3} \cup {4, 5, 6, 7} \cup {8, 9, 10, 11}
  OBVIOUS
<1>3. CASE m \in {0, 1, 2, 3}
  BY <1>1, <1>3, MonthTable, LengthsOfMonths
<1>4. CASE m \in {4, 5, 6, 7}
  BY <1>1, <1>4, MonthTable, LengthsOfMonths
<1>5. CASE m \in {8, 9, 10, 11}
  BY <1>1, <1>5, MonthTable, LengthsOfMonths
<1> QED BY <1>2, <1>3, <1>4, <1>5

LEMMA MonthsInOrder ==
    ASSUME NEW y \in Int, NEW m \in 0..11, NEW n \in 0..11, m < n
    PROVE  MonthStart(y, m) + LengthOfMonth(y, m) <= MonthStart(y, n)
<1>1. PICK leap : leap = IF IsLeap(y) THEN 1 ELSE 0
  OBVIOUS
<1>2. MonthStart(y, m) + LengthOfMonth(y, m) = MonthStart(y, m + 1)
  BY NextMonth
<1>3. m + 1 \in {1, 2, 3, 4, 5, 6, 7, 8, 9, 10, 11} /\ m + 1 <= n
  OBVIOUS
<1>4. n \in {0, 1, 2, 3, 4, 5, 6, 7, 8, 9, 10, 11}
  OBVIOUS
<1>5. MonthStart(y, m + 1) <= MonthStart(y, n)
  <2> DEFINE k == m + 1
  <2>1. k \in {1, 2, 3, 4, 5, 6, 7, 8, 9, 10, 11} /\ k <= n
    BY <1>3
  <2> HIDE DEF k
  <2>2. MonthStart(y, k) <= MonthStart(y, n)
    BY <1>1, <1>4, <2>1, MonthTable
  <2> QED BY <2>2 DEF k
<1> QED BY <1>2, <1>5

LEMMA MonthInYear ==
    ASSUME NEW y \in Int, NEW m \in 0..11
    PROVE  /\ YearStart(y) <= MonthStart(y, m) /\ YearStart(y) \in Int
           /\ MonthStart(y, m) + LengthOfMonth(y, m) <= YearStart(y + 1)
           /\ YearStart(y + 1) \in Int
<1>1. /\ MonthStart(y, m) \in Int /\ LengthOfMonth(y, m) \in 28..31
      /\ MonthStart(y, 0) \in Int /\ LengthOfMonth(y, 0) \in 28..31
      /\ MonthStart(y, 11) \in Int /\ LengthOfMonth(y, 11) \in 28..31
  <2>1. 0 \in 0..11 /\ 11 \in 0..11
    OBVIOUS
  <2> QED BY <2>1, MonthTypes
<1>2. YearStart(y) = MonthStart(y, 0) /\ YearStart(y) \in Int
  BY MonthTable
<1>3. YearStart(y + 1) = MonthStart(y, 11) + LengthOfMonth(y, 11)
  BY NextMonth
<1>4. MonthStart(y, 0) <= MonthStart(y, m)
  BY <1>1, MonthsInOrder
<1>5. MonthStart(y, m) + LengthOfMonth(y, m) <= YearStart(y + 1)
  BY <1>1, <1>3, MonthsInOrder
<1> QED BY <1>1, <1>2, <1>3, <1>4, <1>5

\* The years whose days have a date.
Years == FirstYear - 2..LastYear + 2

\* A day has one date.
LEMMA DateOfDay ==
    ASSUME NEW y \in Years, NEW m \in 0..11, NEW d \in 1..LengthOfMonth(y, m),
           NEW day, day = MonthStart(y, m) + d - 1
    PROVE  DateOf(day) = [year |-> y, month |-> m, day |-> d] /\ day \in Int
<1>1. y \in Int
  BY CalendarAssumption DEF Years
<1>2. /\ MonthStart(y, m) \in Int /\ LengthOfMonth(y, m) \in 28..31 /\ d \in Int
      /\ YearStart(y) <= MonthStart(y, m)
      /\ MonthStart(y, m) + LengthOfMonth(y, m) <= YearStart(y + 1)
      /\ YearStart(y) \in Int /\ YearStart(y + 1) \in Int
  <2>1. MonthStart(y, m) \in Int /\ LengthOfMonth(y, m) \in 28..31
    BY <1>1, MonthTypes
  <2>2. d \in Int
    BY <2>1
  <2> QED BY <1>1, <2>1, <2>2, MonthInYear
<1>3. /\ day \in Int
      /\ MonthStart(y, m) <= day /\ day < MonthStart(y, m) + LengthOfMonth(y, m)
      /\ YearStart(y) <= day /\ day < YearStart(y + 1)
  BY <1>2
<1>4. ASSUME NEW x \in Years, YearStart(x) <= day, day < YearStart(x + 1)
      PROVE  x = y
  <2>1. x \in Int /\ YearStart(x) \in Int /\ YearStart(x + 1) \in Int
    BY CalendarAssumption, LeapYears DEF Years
  <2>2. CASE x < y
    <3>1. YearStart(x + 1) <= YearStart(y)
      BY <1>1, <2>1, <2>2, YearsInOrder
    <3> QED BY <1>2, <1>3, <1>4, <2>1, <3>1
  <2>3. CASE y < x
    <3>1. YearStart(y + 1) <= YearStart(x)
      BY <1>1, <2>1, <2>3, YearsInOrder
    <3> QED BY <1>2, <1>3, <1>4, <2>1, <3>1
  <2> QED BY <1>1, <2>1, <2>2, <2>3
<1>5. ASSUME NEW x \in 0..11, MonthStart(y, x) <= day,
             day < MonthStart(y, x) + LengthOfMonth(y, x)
      PROVE  x = m
  <2>1. MonthStart(y, x) \in Int /\ LengthOfMonth(y, x) \in 28..31
    BY <1>1, MonthTypes
  <2>2. CASE x < m
    <3>1. MonthStart(y, x) + LengthOfMonth(y, x) <= MonthStart(y, m)
      BY <1>1, <2>2, MonthsInOrder
    <3> QED BY <1>2, <1>3, <1>5, <2>1, <3>1
  <2>3. CASE m < x
    <3>1. MonthStart(y, m) + LengthOfMonth(y, m) <= MonthStart(y, x)
      BY <1>1, <2>3, MonthsInOrder
    <3> QED BY <1>2, <1>3, <1>5, <2>1, <3>1
  <2> QED BY <2>2, <2>3
<1>6. y = CHOOSE x \in FirstYear - 2..LastYear + 2 :
                YearStart(x) <= day /\ day < YearStart(x + 1)
  BY <1>3, <1>4 DEF Years
<1>7. m = CHOOSE x \in 0..11 :
                MonthStart(y, x) <= day /\ day < MonthStart(y, x) + LengthOfMonth(y, x)
  BY <1>3, <1>5
<1>8. day - MonthStart(y, m) + 1 = d
  BY <1>2
<1> QED BY <1>3, <1>6, <1>7, <1>8 DEF DateOf

LEMMA DayHasYear ==
    ASSUME NEW day \in YearStart(FirstYear - 2)..YearStart(LastYear + 3) - 1
    PROVE  \E y \in Years : YearStart(y) <= day /\ day < YearStart(y + 1)
<1> DEFINE first == FirstYear - 2
           Past == {n \in Nat : day < YearStart(first + n + 1)}
<1>1. /\ first \in Int /\ LastYear + 2 - first \in Nat
      /\ first + (LastYear + 2 - first) + 1 = LastYear + 3
  BY CalendarAssumption
<1>2. day \in Int /\ YearStart(first) <= day /\ day < YearStart(LastYear + 3)
  <2>1. YearStart(first) \in Int /\ YearStart(LastYear + 3) \in Int
    BY <1>1, CalendarAssumption, LeapYears
  <2> QED BY <2>1
<1>3. LastYear + 2 - first \in Past
  BY <1>1, <1>2
<1>4. PICK n \in Past : \A k \in Past : n <= k
  <2>1. Past \subseteq Nat
    OBVIOUS
  <2> HIDE DEF Past
  <2> QED BY <1>3, <2>1, LeastNatural
<1>5. n \in Nat /\ n <= LastYear + 2 - first /\ day < YearStart(first + n + 1)
  BY <1>3, <1>4
<1>6. YearStart(first + n) <= day
  <2>1. CASE n = 0
    BY <1>1, <1>2, <2>1
  <2>2. CASE n # 0
    <3>1. n - 1 \in Nat /\ n - 1 \notin Past
      BY <1>4, <1>5, <2>2
    <3>2. first + (n - 1) + 1 = first + n
      BY <1>1, <1>5
    <3>3. YearStart(first + n) \in Int
      BY <1>1, <1>5, LeapYears
    <3> QED BY <1>2, <3>1, <3>2, <3>3
  <2> QED BY <2>1, <2>2
<1>7. first + n \in Years
  BY <1>1, <1>5, CalendarAssumption DEF Years
<1> QED BY <1>5, <1>6, <1>7

\* Every day of those years has a date.
LEMMA DayHasDate ==
    ASSUME NEW day \in YearStart(FirstYear - 2)..YearStart(LastYear + 3) - 1
    PROVE  \E y \in Years, m \in 0..11 : \E d \in 1..LengthOfMonth(y, m) :
                day = MonthStart(y, m) + d - 1
<1>1. PICK y \in Years : YearStart(y) <= day /\ day < YearStart(y + 1)
  BY DayHasYear
<1>2. y \in Int /\ day \in Int
  <2>1. YearStart(FirstYear - 2) \in Int /\ YearStart(LastYear + 3) \in Int
    BY CalendarAssumption, LeapYears
  <2> QED BY <2>1, CalendarAssumption DEF Years
<1> DEFINE Past == {n \in Nat : n \in 0..11
                        /\ day < MonthStart(y, n) + LengthOfMonth(y, n)}
<1>3. 11 \in Past
  <2>1. MonthStart(y, 11) + LengthOfMonth(y, 11) = YearStart(y + 1)
    BY <1>2, NextMonth
  <2> QED BY <1>1, <2>1
<1>4. PICK m \in Past : \A k \in Past : m <= k
  <2>1. Past \subseteq Nat
    OBVIOUS
  <2> HIDE DEF Past
  <2> QED BY <1>3, <2>1, LeastNatural
<1>5. /\ m \in 0..11 /\ day < MonthStart(y, m) + LengthOfMonth(y, m)
      /\ MonthStart(y, m) \in Int /\ LengthOfMonth(y, m) \in 28..31
  BY <1>2, <1>4, MonthTypes
<1>6. MonthStart(y, m) <= day
  <2>1. CASE m = 0
    BY <1>1, <1>2, <2>1, MonthTable
  <2>2. CASE m # 0
    <3> DEFINE k == m - 1
    <3>1. k \in 0..11 /\ k \notin Past /\ k # 11 /\ k + 1 = m
      BY <1>4, <1>5, <2>2
    <3>2. MonthStart(y, k) \in Int /\ LengthOfMonth(y, k) \in 28..31
      BY <1>2, <3>1, MonthTypes
    <3>3. MonthStart(y, k) + LengthOfMonth(y, k) = MonthStart(y, m)
      BY <1>2, <3>1, NextMonth
    <3>4. ~(day < MonthStart(y, k) + LengthOfMonth(y, k))
      BY <3>1
    <3> QED BY <1>2, <1>5, <3>2, <3>3, <3>4
  <2> QED BY <2>1, <2>2
<1>7. day - MonthStart(y, m) + 1 \in 1..LengthOfMonth(y, m)
  BY <1>2, <1>5, <1>6
<1>8. day = MonthStart(y, m) + (day - MonthStart(y, m) + 1) - 1
  BY <1>2, <1>5
<1> QED BY <1>5, <1>7, <1>8

\* The month n months after month m of year y, for the windows there are.
TargetYear(y, m, n) == y + (m + n) \div 12
TargetMonth(m, n) == (m + n) % 12

LEMMA TargetIsMonth ==
    ASSUME NEW y \in Int, NEW m \in 0..11, NEW n \in {6, 12}
    PROVE  /\ TargetMonth(m, n) \in 0..11
           /\ TargetYear(y, m, n) \in {y, y + 1}
           /\ n = 12 => TargetMonth(m, n) = m /\ TargetYear(y, m, n) = y + 1
           /\ n = 6 => \/ m < 6 /\ TargetMonth(m, n) = m + 6 /\ TargetYear(y, m, n) = y
                       \/ m >= 6 /\ TargetMonth(m, n) = m - 6 /\ TargetYear(y, m, n) = y + 1
<1>1. CASE n = 12
  BY <1>1 DEF TargetMonth, TargetYear
<1>2. CASE n = 6 /\ m < 6
  <2>1. m + 6 \in 6..11
    BY <1>2
  <2>2. (m + 6) % 12 = m + 6 /\ (m + 6) \div 12 = 0
    BY <2>1
  <2> QED BY <1>2, <2>1, <2>2 DEF TargetMonth, TargetYear
<1>3. CASE n = 6 /\ m >= 6
  <2>1. m + 6 \in 12..17
    BY <1>3
  <2>2. (m + 6) % 12 = m - 6 /\ (m + 6) \div 12 = 1
    BY <2>1
  <2> QED BY <1>3, <2>1, <2>2 DEF TargetMonth, TargetYear
<1> QED BY <1>1, <1>2, <1>3

\* Where a window of months ends: on the same day, or on the month's last.
EndDay(y, m, d) == IF d <= LengthOfMonth(y, m) THEN d ELSE LengthOfMonth(y, m)

LEMMA AddMonthsEnds ==
    ASSUME NEW y \in FirstYear..LastYear + 1, NEW m \in 0..11,
           NEW d \in 1..LengthOfMonth(y, m),
           NEW day, day = MonthStart(y, m) + d - 1, NEW n \in {6, 12},
           NEW ty, ty = TargetYear(y, m, n), NEW tm, tm = TargetMonth(m, n)
    PROVE  /\ AddMonths(day, n) = MonthStart(ty, tm) + EndDay(ty, tm, d) - 1
           /\ ty \in Years /\ tm \in 0..11 /\ ty \in {y, y + 1}
           /\ EndDay(ty, tm, d) \in 1..LengthOfMonth(ty, tm)
           /\ DateOf(AddMonths(day, n)) =
                [year |-> ty, month |-> tm, day |-> EndDay(ty, tm, d)]
<1>1. y \in Int /\ y \in Years
  BY CalendarAssumption DEF Years
<1>2. tm \in 0..11 /\ ty \in {y, y + 1}
  BY <1>1, TargetIsMonth
<1>3. ty \in Int /\ ty \in Years
  BY <1>1, <1>2, CalendarAssumption DEF Years
<1>4. /\ MonthStart(ty, tm) \in Int /\ LengthOfMonth(ty, tm) \in 28..31
      /\ LengthOfMonth(y, m) \in 28..31
  BY <1>1, <1>2, <1>3, MonthTypes
<1>5. d \in 1..31
  BY <1>4
<1>6. DateOf(day) = [year |-> y, month |-> m, day |-> d]
  BY <1>1, DateOfDay
<1> DEFINE moved == MonthStart(ty, tm) + d - 1
<1>7. SetMonth(day, m + n) = moved
  BY <1>6 DEF SetMonth, TargetYear, TargetMonth
<1>8. AddMonths(day, n) =
        IF DateOf(moved).month # tm THEN LastOfMonthBefore(moved) ELSE moved
  BY <1>6, <1>7 DEF AddMonths, TargetMonth
<1> HIDE DEF moved
<1>9. EndDay(ty, tm, d) \in 1..LengthOfMonth(ty, tm)
  BY <1>4, <1>5 DEF EndDay
<1>10. AddMonths(day, n) = MonthStart(ty, tm) + EndDay(ty, tm, d) - 1
  <2>1. CASE d <= LengthOfMonth(ty, tm)
    <3>1. d \in 1..LengthOfMonth(ty, tm)
      BY <1>4, <1>5, <2>1
    <3>2. DateOf(moved) = [year |-> ty, month |-> tm, day |-> d]
      BY <1>2, <1>3, <3>1, DateOfDay DEF moved
    <3>3. AddMonths(day, n) = moved
      BY <1>8, <3>2
    <3> QED BY <2>1, <3>3 DEF moved, EndDay
  <2>2. CASE d > LengthOfMonth(ty, tm)
    <3> DEFINE length == LengthOfMonth(ty, tm)
               next == tm + 1
               rest == d - length
    <3>1. tm # 11
      BY <1>3, <1>5, <2>2, LengthsOfMonths
    <3>2. next \in 0..11 /\ next # tm
      BY <1>2, <3>1
    <3>3. MonthStart(ty, next) = MonthStart(ty, tm) + length
      BY <1>2, <1>3, <3>1, NextMonth
    <3>4. MonthStart(ty, next) \in Int /\ LengthOfMonth(ty, next) \in 28..31
      BY <1>3, <3>2, MonthTypes
    <3>5. rest \in 1..3 /\ rest \in 1..LengthOfMonth(ty, next)
      BY <1>4, <1>5, <2>2, <3>4
    <3>6. moved = MonthStart(ty, next) + rest - 1
      BY <1>4, <1>5, <3>3 DEF moved
    <3>7. DateOf(moved) = [year |-> ty, month |-> next, day |-> rest]
      <4> HIDE DEF next, rest
      <4> QED BY <1>3, <3>2, <3>5, <3>6, DateOfDay
    <3>8. AddMonths(day, n) = moved - rest
      BY <1>8, <3>2, <3>7 DEF LastOfMonthBefore
    <3> QED BY <1>4, <1>5, <2>2, <3>8 DEF moved, EndDay
  <2> QED BY <1>4, <1>5, <2>1, <2>2
<1>11. DateOf(AddMonths(day, n)) =
            [year |-> ty, month |-> tm, day |-> EndDay(ty, tm, d)]
  BY <1>2, <1>3, <1>9, <1>10, DateOfDay
<1> QED BY <1>2, <1>3, <1>9, <1>10, <1>11

\* The date of a day a case may be submitted on.
LEMMA SubmissionDate ==
    ASSUME NEW day \in YearStart(FirstYear)..YearStart(LastYear + 1) - 1
    PROVE  \E y \in FirstYear..LastYear, m \in 0..11 : \E d \in 1..LengthOfMonth(y, m) :
                day = MonthStart(y, m) + d - 1
<1>1. /\ FirstYear \in Int /\ LastYear \in Int
      /\ FirstYear - 2 \in Int /\ LastYear + 1 \in Int /\ LastYear + 3 \in Int
  BY CalendarAssumption
<1>2. /\ YearStart(FirstYear) \in Int /\ YearStart(LastYear + 1) \in Int
      /\ YearStart(FirstYear - 2) \in Int /\ YearStart(LastYear + 3) \in Int
  BY <1>1, LeapYears
<1>3. /\ YearStart(FirstYear - 2) <= YearStart(FirstYear)
      /\ YearStart(LastYear + 1) <= YearStart(LastYear + 3)
  BY <1>1, YearsInOrder
<1>4. day \in Int /\ YearStart(FirstYear) <= day /\ day < YearStart(LastYear + 1)
  BY <1>2
<1>5. day \in YearStart(FirstYear - 2)..YearStart(LastYear + 3) - 1
  BY <1>2, <1>3, <1>4
<1>6. PICK y \in Years, m \in 0..11 : \E d \in 1..LengthOfMonth(y, m) :
                day = MonthStart(y, m) + d - 1
  BY <1>5, DayHasDate
<1>7. PICK d \in 1..LengthOfMonth(y, m) : day = MonthStart(y, m) + d - 1
  BY <1>6
<1>8. /\ y \in Int /\ MonthStart(y, m) \in Int /\ LengthOfMonth(y, m) \in 28..31
      /\ YearStart(y) \in Int /\ YearStart(y + 1) \in Int
      /\ YearStart(y) <= day /\ day < YearStart(y + 1)
  <2>1. y \in Int
    BY <1>1 DEF Years
  <2>2. MonthStart(y, m) \in Int /\ LengthOfMonth(y, m) \in 28..31
    BY <2>1, MonthTypes
  <2>3. d \in Int /\ 1 <= d /\ d <= LengthOfMonth(y, m)
    BY <2>2
  <2>4. /\ YearStart(y) <= MonthStart(y, m) /\ YearStart(y) \in Int
        /\ MonthStart(y, m) + LengthOfMonth(y, m) <= YearStart(y + 1)
        /\ YearStart(y + 1) \in Int
    BY <2>1, MonthInYear
  <2> QED BY <1>7, <2>1, <2>2, <2>3, <2>4
<1>9. FirstYear <= y
  <2> SUFFICES ASSUME y + 1 <= FirstYear PROVE FALSE
    BY <1>1, <1>8
  <2>1. YearStart(y + 1) <= YearStart(FirstYear)
    BY <1>1, <1>8, YearsInOrder
  <2> QED BY <1>2, <1>4, <1>8, <2>1
<1>10. y <= LastYear
  <2> SUFFICES ASSUME LastYear + 1 <= y PROVE FALSE
    BY <1>1, <1>8
  <2>1. YearStart(LastYear + 1) <= YearStart(y)
    BY <1>1, <1>8, YearsInOrder
  <2> QED BY <1>2, <1>4, <1>8, <2>1
<1> QED BY <1>1, <1>7, <1>8, <1>9, <1>10

LEMMA YearSpan ==
    ASSUME NEW y \in FirstYear..LastYear, NEW m \in 0..11,
           NEW d \in 1..LengthOfMonth(y, m),
           NEW day, day = MonthStart(y, m) + d - 1
    PROVE  AddMonths(day, 12) - day \in 365..366
<1>1. y \in Int /\ y + 1 \in Int /\ y \in FirstYear..LastYear + 1
  BY CalendarAssumption
<1>2. TargetMonth(m, 12) = m /\ TargetYear(y, m, 12) = y + 1
  BY <1>1, TargetIsMonth
<1>3. AddMonths(day, 12) = MonthStart(y + 1, m) + EndDay(y + 1, m, d) - 1
  BY <1>1, <1>2, AddMonthsEnds
<1>4. PICK leap : leap = IF IsLeap(y) THEN 1 ELSE 0
  OBVIOUS
<1>5. PICK next : next = IF IsLeap(y + 1) THEN 1 ELSE 0
  OBVIOUS
<1>6. /\ MonthStart(y, m) \in Int /\ LengthOfMonth(y, m) \in 28..31
      /\ MonthStart(y + 1, m) \in Int /\ LengthOfMonth(y + 1, m) \in 28..31
  BY <1>1, MonthTypes
<1>7. d \in Int /\ 1 <= d /\ d <= LengthOfMonth(y, m)
  BY <1>6
<1>8. leap = 1 => next = 0
  BY <1>1, <1>4, <1>5 DEF IsLeap
<1>9. /\ leap \in {0, 1} /\ next \in {0, 1} /\ YearStart(y) \in Int
      /\ YearStart(y + 1) = YearStart(y) + 365 + leap
  BY <1>1, <1>4, <1>5, MonthTable
<1>10. CASE m \in {0, 1}
  <2>1. MonthStart(y + 1, m) - MonthStart(y, m) = 365 + leap
    BY <1>1, <1>4, <1>5, <1>9, <1>10, MonthTable
  <2>2. EndDay(y + 1, m, d) \in {d, d - 1} /\ (leap = 0 => EndDay(y + 1, m, d) = d)
    <3>1. CASE m = 0
      BY <1>1, <1>7, <3>1, LengthsOfMonths DEF EndDay
    <3>2. CASE m = 1
      BY <1>1, <1>4, <1>5, <1>7, <1>9, <3>2, MonthTable DEF EndDay
    <3> QED BY <1>10, <3>1, <3>2
  <2> QED BY <1>3, <1>6, <1>7, <1>9, <2>1, <2>2
<1>11. CASE m \in 2..11
  <2>1. MonthStart(y + 1, m) - MonthStart(y, m) = 365 + next
    <3>1. m \in {2, 3, 4, 5, 6, 7, 8, 9, 10, 11}
      BY <1>11
    <3> QED BY <1>1, <1>4, <1>5, <1>9, <3>1, MonthTable
  <2>2. LengthOfMonth(y + 1, m) = LengthOfMonth(y, m)
    <3>1. m \in {2, 4, 6, 7, 9, 11} \cup {3, 5, 8, 10}
      BY <1>11
    <3> QED BY <1>1, <3>1, LengthsOfMonths
  <2>3. EndDay(y + 1, m, d) = d
    BY <1>7, <2>2 DEF EndDay
  <2> QED BY <1>3, <1>6, <1>7, <1>9, <2>1, <2>3
<1> QED BY <1>10, <1>11

LEMMA HalfYearSpan ==
    ASSUME NEW y \in FirstYear..LastYear, NEW m \in 0..11,
           NEW d \in 1..LengthOfMonth(y, m),
           NEW day, day = MonthStart(y, m) + d - 1
    PROVE  AddMonths(day, 6) - day \in 181..184
<1>1. y \in Int /\ y + 1 \in Int /\ y \in FirstYear..LastYear + 1
  BY CalendarAssumption
<1>2. PICK leap : leap = IF IsLeap(y) THEN 1 ELSE 0
  OBVIOUS
<1>3. PICK next : next = IF IsLeap(y + 1) THEN 1 ELSE 0
  OBVIOUS
<1>4. /\ leap \in {0, 1} /\ next \in {0, 1} /\ YearStart(y) \in Int
      /\ YearStart(y + 1) = YearStart(y) + 365 + leap
      /\ LengthOfMonth(y, 1) = 28 + leap /\ LengthOfMonth(y + 1, 1) = 28 + next
  BY <1>1, <1>2, <1>3, MonthTable
<1>5. leap = 1 => next = 0
  BY <1>1, <1>2, <1>3 DEF IsLeap
<1>6. MonthStart(y, m) \in Int /\ LengthOfMonth(y, m) \in 28..31
  BY <1>1, MonthTypes
<1>7. d \in Int /\ 1 <= d /\ d <= LengthOfMonth(y, m)
  BY <1>6
<1>8. CASE m < 6
  <2>1. AddMonths(day, 6) = MonthStart(y, m + 6) + EndDay(y, m + 6, d) - 1
    <3>1. TargetMonth(m, 6) = m + 6 /\ TargetYear(y, m, 6) = y
      BY <1>1, <1>8, TargetIsMonth
    <3> QED BY <1>1, <3>1, AddMonthsEnds
  <2>2. m \in {0, 1, 2, 3, 4, 5}
    BY <1>8
  <2>3. MonthStart(y, m + 6) - MonthStart(y, m) \in 181..184
        /\ MonthStart(y, m + 6) \in Int
    BY <1>1, <1>2, <1>4, <2>2, MonthTable
  <2>4. CASE m \in {0, 1, 3, 5}
    <3>1. EndDay(y, m + 6, d) = d
      BY <1>1, <1>4, <1>7, <2>4, LengthsOfMonths DEF EndDay
    <3> QED BY <1>6, <1>7, <2>1, <2>3, <3>1
  <2>5. CASE m \in {2, 4}
    <3>1. EndDay(y, m + 6, d) \in {d, d - 1}
      BY <1>1, <1>4, <1>7, <2>5, LengthsOfMonths DEF EndDay
    <3>2. MonthStart(y, m + 6) - MonthStart(y, m) = 184
      BY <1>1, <1>2, <1>4, <2>5, MonthTable
    <3> QED BY <1>6, <1>7, <2>1, <2>3, <3>1, <3>2
  <2> QED BY <2>2, <2>4, <2>5
<1>9. CASE m >= 6
  <2>1. AddMonths(day, 6) = MonthStart(y + 1, m - 6) + EndDay(y + 1, m - 6, d) - 1
    <3>1. TargetMonth(m, 6) = m - 6 /\ TargetYear(y, m, 6) = y + 1
      BY <1>1, <1>9, TargetIsMonth
    <3> QED BY <1>1, <3>1, AddMonthsEnds
  <2>2. m \in {6, 7, 8, 9, 10, 11}
    BY <1>9
  <2>3. MonthStart(y + 1, m - 6) - MonthStart(y, m) \in 181..184
        /\ MonthStart(y + 1, m - 6) \in Int
    BY <1>1, <1>2, <1>3, <1>4, <2>2, MonthTable
  <2>4. CASE m \in {6, 8, 10}
    <3>1. EndDay(y + 1, m - 6, d) = d
      BY <1>1, <1>4, <1>7, <2>4, LengthsOfMonths DEF EndDay
    <3> QED BY <1>6, <1>7, <2>1, <2>3, <3>1
  <2>5. CASE m = 7
    <3>1. EndDay(y + 1, m - 6, d) \in {d, d - 1, d - 2, d - 3}
      BY <1>1, <1>4, <1>7, <2>5, LengthsOfMonths DEF EndDay
    <3>2. MonthStart(y + 1, m - 6) - MonthStart(y, m) = 184
      BY <1>1, <1>2, <1>3, <1>4, <2>5, MonthTable
    <3> QED BY <1>6, <1>7, <2>1, <2>3, <3>1, <3>2
  <2>6. CASE m \in {9, 11}
    <3>1. EndDay(y + 1, m - 6, d) \in {d, d - 1}
      BY <1>1, <1>4, <1>7, <2>6, LengthsOfMonths DEF EndDay
    <3>2. MonthStart(y + 1, m - 6) - MonthStart(y, m) \in 182..183
      BY <1>1, <1>2, <1>3, <1>4, <2>6, MonthTable
    <3> QED BY <1>6, <1>7, <2>1, <2>3, <3>1, <3>2
  <2> QED BY <2>2, <2>4, <2>5, <2>6
<1> QED BY <1>1, <1>8, <1>9

\* Two windows of six months, and one of twelve.
LEMMA SecondWindow ==
    ASSUME NEW y \in FirstYear..LastYear, NEW m \in 0..11,
           NEW d \in 1..LengthOfMonth(y, m),
           NEW day, day = MonthStart(y, m) + d - 1
    PROVE  AddMonths(AddMonths(day, 6), 6) \in AddMonths(day, 12) - 3..AddMonths(day, 12)
<1>1. y \in Int /\ y + 1 \in Int /\ y \in FirstYear..LastYear + 1
      /\ y + 1 \in FirstYear..LastYear + 1
  BY CalendarAssumption
<1>2. PICK ty, tm : ty = TargetYear(y, m, 6) /\ tm = TargetMonth(m, 6)
  OBVIOUS
<1>3. /\ tm \in 0..11 /\ ty \in {y, y + 1}
      /\ EndDay(ty, tm, d) \in 1..LengthOfMonth(ty, tm)
      /\ AddMonths(day, 6) = MonthStart(ty, tm) + EndDay(ty, tm, d) - 1
  BY <1>1, <1>2, AddMonthsEnds
<1>4. ty \in FirstYear..LastYear + 1
  BY <1>1, <1>3
<1>5. TargetMonth(tm, 6) = m /\ TargetYear(ty, tm, 6) = y + 1
  <2>1. CASE m < 6
    <3>1. tm = m + 6 /\ ty = y /\ tm >= 6
      BY <1>1, <1>2, <2>1, TargetIsMonth
    <3>2. TargetMonth(tm, 6) = tm - 6 /\ TargetYear(ty, tm, 6) = ty + 1
      BY <1>1, <1>3, <3>1, TargetIsMonth
    <3> QED BY <3>1, <3>2
  <2>2. CASE m >= 6
    <3>1. tm = m - 6 /\ ty = y + 1 /\ tm < 6
      BY <1>1, <1>2, <2>2, TargetIsMonth
    <3>2. TargetMonth(tm, 6) = tm + 6 /\ TargetYear(ty, tm, 6) = ty
      BY <1>1, <1>3, <3>1, TargetIsMonth
    <3> QED BY <3>1, <3>2
  <2> QED BY <2>1, <2>2
<1> DEFINE e == EndDay(ty, tm, d)
<1>6. AddMonths(AddMonths(day, 6), 6) = MonthStart(y + 1, m) + EndDay(y + 1, m, e) - 1
  BY <1>3, <1>4, <1>5, AddMonthsEnds
<1>7. AddMonths(day, 12) = MonthStart(y + 1, m) + EndDay(y + 1, m, d) - 1
  <2>1. TargetMonth(m, 12) = m /\ TargetYear(y, m, 12) = y + 1
    BY <1>1, TargetIsMonth
  <2> QED BY <1>1, <2>1, AddMonthsEnds
<1>8. /\ MonthStart(y + 1, m) \in Int /\ LengthOfMonth(y + 1, m) \in 28..31
      /\ LengthOfMonth(y, m) \in 28..31 /\ LengthOfMonth(ty, tm) \in 28..31
  BY <1>1, <1>3, MonthTypes
<1>9. d \in 1..31
  BY <1>8
<1>10. e \in d - 3..d /\ e \in Int
  BY <1>8, <1>9 DEF EndDay
<1>11. EndDay(y + 1, m, e) \in EndDay(y + 1, m, d) - 3..EndDay(y + 1, m, d)
  <2> HIDE DEF e
  <2> QED BY <1>8, <1>9, <1>10 DEF EndDay
<1>12. EndDay(y + 1, m, d) \in Int
  BY <1>8, <1>9 DEF EndDay
<1> HIDE DEF e
<1> QED BY <1>6, <1>7, <1>8, <1>11, <1>12

\* The day after, in the same month or at the start of the next.
LEMMA DayAfter ==
    ASSUME NEW y \in Int, NEW m \in 0..11, NEW d \in 1..LengthOfMonth(y, m)
    PROVE  \/ d + 1 \in 1..LengthOfMonth(y, m)
           \/ /\ d = LengthOfMonth(y, m) /\ m < 11
              /\ MonthStart(y, m) + d = MonthStart(y, m + 1)
           \/ /\ d = LengthOfMonth(y, m) /\ m = 11
              /\ MonthStart(y, m) + d = MonthStart(y + 1, 0)
<1>1. LengthOfMonth(y, m) \in 28..31
  BY MonthTypes
<1>2. MonthStart(y, m) + LengthOfMonth(y, m) =
        IF m = 11 THEN MonthStart(y + 1, 0) ELSE MonthStart(y, m + 1)
  <2>1. MonthStart(y + 1, 0) = YearStart(y + 1)
    <3>1. y + 1 \in Int
      OBVIOUS
    <3>2. PICK leap : leap = IF IsLeap(y + 1) THEN 1 ELSE 0
      OBVIOUS
    <3> HIDE <3>1
    <3> QED BY <3>1, <3>2, MonthTable
  <2> QED BY <2>1, NextMonth
<1>3. d + 1 \in 1..LengthOfMonth(y, m) \/ d = LengthOfMonth(y, m)
  BY <1>1
<1> QED BY <1>2, <1>3

LEMMA LaterWindow ==
    ASSUME NEW y \in FirstYear..LastYear, NEW m \in 0..11,
           NEW d \in 1..LengthOfMonth(y, m),
           NEW day, day = MonthStart(y, m) + d - 1, NEW n \in {6, 12}
    PROVE  /\ AddMonths(day, n) \in Int /\ AddMonths(day + 1, n) \in Int
           /\ AddMonths(day, n) <= AddMonths(day + 1, n)
<1>1. y \in Int /\ y + 1 \in Int /\ y \in FirstYear..LastYear + 1
      /\ y + 1 \in FirstYear..LastYear + 1
  BY CalendarAssumption
<1>2. PICK ty, tm : ty = TargetYear(y, m, n) /\ tm = TargetMonth(m, n)
  OBVIOUS
<1>3. /\ tm \in 0..11 /\ ty \in {y, y + 1}
      /\ EndDay(ty, tm, d) \in 1..LengthOfMonth(ty, tm)
      /\ AddMonths(day, n) = MonthStart(ty, tm) + EndDay(ty, tm, d) - 1
  BY <1>1, <1>2, AddMonthsEnds
<1>4. /\ MonthStart(y, m) \in Int /\ LengthOfMonth(y, m) \in 28..31
      /\ MonthStart(ty, tm) \in Int /\ LengthOfMonth(ty, tm) \in 28..31
      /\ ty \in Int
  BY <1>1, <1>3, MonthTypes
<1>5. d \in 1..31 /\ EndDay(ty, tm, d) \in 1..31
  BY <1>3, <1>4
<1>6. day + 1 = MonthStart(y, m) + d
  BY <1>4, <1>5
<1>7. CASE d + 1 \in 1..LengthOfMonth(y, m)
  <2>1. day + 1 = MonthStart(y, m) + (d + 1) - 1
    BY <1>4, <1>5, <1>6
  <2>2. AddMonths(day + 1, n) = MonthStart(ty, tm) + EndDay(ty, tm, d + 1) - 1
    BY <1>1, <1>2, <1>7, <2>1, AddMonthsEnds
  <2> QED BY <1>3, <1>4, <1>5, <2>2 DEF EndDay
\* The first day of a month, whose window ends on the first of the month after.
<1>8. ASSUME NEW z \in FirstYear..LastYear + 1, NEW k \in 0..11,
             day + 1 = MonthStart(z, k), NEW tz, NEW tk,
             tz = TargetYear(z, k, n), tk = TargetMonth(k, n),
             MonthStart(ty, tm) + LengthOfMonth(ty, tm) = MonthStart(tz, tk)
      PROVE  /\ AddMonths(day, n) \in Int /\ AddMonths(day + 1, n) \in Int
             /\ AddMonths(day, n) <= AddMonths(day + 1, n)
  <2>1. z \in Int
    BY CalendarAssumption
  <2>2. MonthStart(z, k) \in Int /\ LengthOfMonth(z, k) \in 28..31
    BY <2>1, MonthTypes
  <2>3. 1 \in 1..LengthOfMonth(z, k) /\ day + 1 = MonthStart(z, k) + 1 - 1
    BY <1>8, <2>2
  <2>4. /\ AddMonths(day + 1, n) = MonthStart(tz, tk) + EndDay(tz, tk, 1) - 1
        /\ tk \in 0..11 /\ tz \in {z, z + 1}
    BY <1>8, <2>3, AddMonthsEnds
  <2>5. LengthOfMonth(tz, tk) \in 28..31 /\ MonthStart(tz, tk) \in Int
    <3>1. tz \in Int
      BY <2>1, <2>4
    <3> QED BY <2>4, <3>1, MonthTypes
  <2>6. EndDay(tz, tk, 1) = 1
    BY <2>5 DEF EndDay
  <2>7. EndDay(ty, tm, d) <= LengthOfMonth(ty, tm)
    BY <1>3, <1>4
  <2> QED BY <1>3, <1>4, <1>5, <1>8, <2>4, <2>5, <2>6, <2>7
<1>9. MonthStart(ty, tm) + LengthOfMonth(ty, tm) =
        IF tm = 11 THEN MonthStart(ty + 1, 0) ELSE MonthStart(ty, tm + 1)
  <2>1. PICK e \in 1..LengthOfMonth(ty, tm) : e = LengthOfMonth(ty, tm)
    BY <1>4
  <2>2. ~(e + 1 \in 1..LengthOfMonth(ty, tm))
    BY <1>4, <2>1
  <2>3. \/ tm < 11 /\ MonthStart(ty, tm) + e = MonthStart(ty, tm + 1)
        \/ tm = 11 /\ MonthStart(ty, tm) + e = MonthStart(ty + 1, 0)
    BY <1>3, <1>4, <2>2, DayAfter
  <2> QED BY <2>1, <2>3
<1>10. CASE m < 11 /\ MonthStart(y, m) + d = MonthStart(y, m + 1)
  <2>1. PICK k \in 0..11 : k = m + 1
    BY <1>10
  <2>2. PICK tz, tk : tz = TargetYear(y, k, n) /\ tk = TargetMonth(k, n)
    OBVIOUS
  <2>3. MonthStart(tz, tk) = IF tm = 11 THEN MonthStart(ty + 1, 0) ELSE MonthStart(ty, tm + 1)
    <3>1. CASE n = 12
      <4>1. tm = m /\ ty = y + 1 /\ tk = k /\ tz = y + 1
        BY <1>1, <1>2, <2>2, <3>1, TargetIsMonth
      <4> QED BY <1>10, <2>1, <4>1
    <3>2. CASE n = 6 /\ k < 6
      <4>1. tm = m + 6 /\ ty = y /\ tk = k + 6 /\ tz = y
        BY <1>1, <1>2, <2>1, <2>2, <3>2, TargetIsMonth
      <4> QED BY <2>1, <3>2, <4>1
    <3>3. CASE n = 6 /\ m >= 6
      <4>1. tm = m - 6 /\ ty = y + 1 /\ tk = k - 6 /\ tz = y + 1
        BY <1>1, <1>2, <2>1, <2>2, <3>3, TargetIsMonth
      <4> QED BY <1>10, <2>1, <3>3, <4>1
    <3>4. CASE n = 6 /\ m = 5
      <4>1. tm = 11 /\ ty = y /\ tk = 0 /\ tz = y + 1
        BY <1>1, <1>2, <2>1, <2>2, <3>4, TargetIsMonth
      <4> QED BY <4>1
    <3> QED BY <2>1, <3>1, <3>2, <3>3, <3>4
  <2>4. day + 1 = MonthStart(y, k)
    BY <1>6, <1>10, <2>1
  <2> QED BY <1>1, <1>8, <1>9, <2>2, <2>3, <2>4
<1>11. CASE m = 11 /\ MonthStart(y, m) + d = MonthStart(y + 1, 0)
  <2>1. PICK k \in 0..11 : k = 0
    OBVIOUS
  <2>2. PICK tz, tk : tz = TargetYear(y + 1, k, n) /\ tk = TargetMonth(k, n)
    OBVIOUS
  <2>3. MonthStart(tz, tk) = IF tm = 11 THEN MonthStart(ty + 1, 0) ELSE MonthStart(ty, tm + 1)
    <3>1. CASE n = 12
      <4>1. tm = m /\ ty = y + 1 /\ tk = k /\ tz = y + 1 + 1
        BY <1>1, <1>2, <2>2, <3>1, TargetIsMonth
      <4> QED BY <1>11, <2>1, <4>1
    <3>2. CASE n = 6
      <4>1. tm = 5 /\ ty = y + 1 /\ tk = 6 /\ tz = y + 1
        BY <1>1, <1>2, <1>11, <2>1, <2>2, <3>2, TargetIsMonth
      <4> QED BY <4>1
    <3> QED BY <3>1, <3>2
  <2>4. day + 1 = MonthStart(y + 1, k)
    BY <1>6, <1>11, <2>1
  <2> QED BY <1>1, <1>8, <1>9, <2>2, <2>3, <2>4
<1> QED BY <1>1, <1>7, <1>10, <1>11, DayAfter

\* A submission's day, month and year, as the calendar's properties name them.
SubmittedInYears == submitted \in YearStart(FirstYear)..YearStart(LastYear + 1) - 1

LEMMA CalendarStays ==
    CalendarSpec => []SubmittedInYears
<1>1. YearStart(FirstYear) \in Int /\ YearStart(LastYear + 1) \in Int
      /\ YearStart(FirstYear) < YearStart(LastYear + 1)
  <2>1. FirstYear \in Int /\ FirstYear + 1 \in Int /\ LastYear + 1 \in Int
        /\ FirstYear + 1 <= LastYear + 1
    BY CalendarAssumption
  <2>2. YearStart(FirstYear) \in Int /\ YearStart(LastYear + 1) \in Int
        /\ YearStart(FirstYear + 1) \in Int
        /\ YearStart(FirstYear) < YearStart(FirstYear + 1)
    BY <2>1, LeapYears
  <2>3. YearStart(FirstYear + 1) <= YearStart(LastYear + 1)
    BY <2>1, YearsInOrder
  <2> QED BY <2>2, <2>3
<1>2. CalendarInit => SubmittedInYears
  BY <1>1 DEF CalendarInit, SubmittedInYears
<1>3. SubmittedInYears /\ [DayLater]_submitted => SubmittedInYears'
  BY <1>1 DEF DayLater, SubmittedInYears
<1> QED BY <1>2, <1>3, PTL DEF CalendarSpec

(***************************************************************************)
(* The day a case is submitted on has a date: of the years considered, in  *)
(* one of their months, for any years.                                     *)
(***************************************************************************)
THEOREM CalendarTypeCorrect == CalendarSpec => []CalendarTypeOK
<1>1. SubmittedInYears => CalendarTypeOK
  <2> SUFFICES ASSUME SubmittedInYears PROVE CalendarTypeOK
    OBVIOUS
  <2>1. PICK y \in FirstYear..LastYear, m \in 0..11 : \E d \in 1..LengthOfMonth(y, m) :
                submitted = MonthStart(y, m) + d - 1
    BY SubmissionDate DEF SubmittedInYears
  <2>2. PICK d \in 1..LengthOfMonth(y, m) : submitted = MonthStart(y, m) + d - 1
    BY <2>1
  <2>3. y \in Years
    BY CalendarAssumption DEF Years
  <2>4. DateOf(submitted) = [year |-> y, month |-> m, day |-> d]
    BY <2>2, <2>3, DateOfDay
  <2> QED BY <2>4 DEF CalendarTypeOK, SubmittedInYears
<1> QED BY <1>1, CalendarStays, PTL

(***************************************************************************)
(* A window of months ends on the same day of the month meant or on its    *)
(* last, two of six months never reach past one of twelve, and every       *)
(* window has the length the clocks take it to have: in any years, leap or *)
(* not.                                                                    *)
(***************************************************************************)
THEOREM WindowsFit == CalendarSpec => []MonthWindowsFit
<1>1. SubmittedInYears => MonthWindowsFit
  <2> SUFFICES ASSUME SubmittedInYears PROVE MonthWindowsFit
    OBVIOUS
  <2>1. PICK y \in FirstYear..LastYear, m \in 0..11 : \E d \in 1..LengthOfMonth(y, m) :
                submitted = MonthStart(y, m) + d - 1
    BY SubmissionDate DEF SubmittedInYears
  <2>2. PICK d \in 1..LengthOfMonth(y, m) : submitted = MonthStart(y, m) + d - 1
    BY <2>1
  <2>3. y \in Int /\ y \in Years /\ y \in FirstYear..LastYear + 1
    BY CalendarAssumption DEF Years
  <2>4. DateOf(submitted) = [year |-> y, month |-> m, day |-> d]
    BY <2>2, <2>3, DateOfDay
  <2>5. ASSUME NEW n \in {6, 12}
        PROVE  DateOf(AddMonths(submitted, n)) = MonthsAfter(DateOf(submitted), n)
    <3>1. PICK ty, tm : ty = TargetYear(y, m, n) /\ tm = TargetMonth(m, n)
      OBVIOUS
    <3>2. /\ DateOf(AddMonths(submitted, n)) =
                [year |-> ty, month |-> tm, day |-> EndDay(ty, tm, d)]
          /\ tm \in 0..11 /\ ty \in {y, y + 1}
      BY <2>2, <2>3, <3>1, AddMonthsEnds
    <3>3. (12 * y + m + n) \div 12 = ty /\ (12 * y + m + n) % 12 = tm
      <4>1. m + n = 12 * (ty - y) + tm
        <5>1. CASE n = 12
          BY <2>3, <3>1, <5>1, TargetIsMonth
        <5>2. CASE n = 6 /\ m < 6
          <6>1. tm = m + 6 /\ ty = y
            BY <2>3, <3>1, <5>2, TargetIsMonth
          <6> QED BY <2>3, <5>2, <6>1
        <5>3. CASE n = 6 /\ m >= 6
          <6>1. tm = m - 6 /\ ty = y + 1
            BY <2>3, <3>1, <5>3, TargetIsMonth
          <6> QED BY <2>3, <5>3, <6>1
        <5> QED BY <5>1, <5>2, <5>3
      <4>2. 12 * y + m + n = 12 * ty + tm /\ ty \in Int
        BY <2>3, <3>2, <4>1
      <4> QED BY <3>2, <4>2
    <3> QED BY <2>4, <3>2, <3>3 DEF MonthsAfter, EndDay
  <2>6. /\ AddMonths(submitted, 12) - submitted \in 365..366
        /\ AddMonths(submitted, 6) - submitted \in 181..184
        /\ AddMonths(AddMonths(submitted, 6), 6) \in
                AddMonths(submitted, 12) - 3..AddMonths(submitted, 12)
    BY <2>2, YearSpan, HalfYearSpan, SecondWindow
  <2>7. submitted \in Int /\ AddMonths(submitted, 12) \in Int
    BY <2>2, <2>3, DateOfDay, LaterWindow
  <2>8. /\ DueOn(submitted).moratorium_expiry = AddMonths(submitted, 6)
        /\ DueOn(submitted).moratorium_reuse_bar = AddMonths(submitted, 12)
        /\ DueOn(submitted).map_discharge = AddMonths(submitted, 6)
        /\ DueOn(submitted).discharge = AddMonths(submitted, 12)
        /\ DueOn(submitted).creditor_claims = submitted + 120
        /\ DueOn(submitted).late_claims_cutoff = AddMonths(submitted, 12) + (-56)
    BY DEF DueOn, AddDays
  <2>9. DueOn(submitted).creditor_claims < DueOn(submitted).late_claims_cutoff
    BY <2>6, <2>7, <2>8
  <2> QED BY <2>5, <2>6, <2>8, <2>9 DEF MonthWindowsFit
<1> QED BY <1>1, CalendarStays, PTL

(***************************************************************************)
(* A case submitted later is never due earlier, on any of the clocks that  *)
(* run from its submission, in any years.                                  *)
(***************************************************************************)
THEOREM CasesDoNotOvertake == CalendarSpec => LaterIsNeverDueEarlier
<1>1. SubmittedInYears /\ [DayLater]_submitted =>
        [submitted' > submitted =>
            LET earlier == DueOn(submitted) later == DueOn(submitted') IN
            \A clock \in DOMAIN earlier : later[clock] >= earlier[clock]]_submitted
  <2> SUFFICES ASSUME SubmittedInYears, DayLater
               PROVE  \A clock \in DOMAIN DueOn(submitted) :
                        DueOn(submitted')[clock] >= DueOn(submitted)[clock]
    OBVIOUS
  <2>1. submitted' = submitted + 1
    BY DEF DayLater
  <2>2. PICK y \in FirstYear..LastYear, m \in 0..11 : \E d \in 1..LengthOfMonth(y, m) :
                submitted = MonthStart(y, m) + d - 1
    BY SubmissionDate DEF SubmittedInYears
  <2>3. PICK d \in 1..LengthOfMonth(y, m) : submitted = MonthStart(y, m) + d - 1
    BY <2>2
  <2>4. PICK a : a = submitted
    OBVIOUS
  <2>5. a \in Int
    <3>1. y \in Years
      BY CalendarAssumption DEF Years
    <3> QED BY <2>3, <2>4, <3>1, DateOfDay
  <2>6. \A n \in {6, 12} : /\ AddMonths(a, n) \in Int /\ AddMonths(a + 1, n) \in Int
                           /\ AddMonths(a, n) <= AddMonths(a + 1, n)
    BY <2>3, <2>4, LaterWindow
  <2>7. \A clock \in DOMAIN DueOn(a) : DueOn(a + 1)[clock] >= DueOn(a)[clock]
    BY <2>5, <2>6 DEF DueOn, AddDays
  <2> QED BY <2>1, <2>4, <2>7
<1> QED BY <1>1, CalendarStays, PTL DEF CalendarSpec, LaterIsNeverDueEarlier

-----------------------------------------------------------------------------
(***************************************************************************)
(* The modules together, as MCStatute checks them: each is what it is      *)
(* alone, but for the register checks, whose applicant is revised by the   *)
(* module of the advice while they rest.                                   *)
(***************************************************************************)
LEMMA StatementExists == Statement # {}
<1>1. PICK a \in Amount : TRUE
  BY RestAssumption
<1>2. [income |-> a, spent |-> [c \in Category \cup Unnamed |-> a],
       aliment |-> a, pension |-> a] \in Statement
  BY DEF Statement
<1> QED BY <1>2

LEMMA StatuteParts ==
    StatuteSpec => WatchSpec /\ CalendarSpec /\ CftSpec /\ AdviceSpec
<1>1. StatuteInit => WatchInit /\ CalendarInit /\ CftInit /\ AdviceInit
  <2>1. \A S, name : S # {} => StartsIn(S, name) \subseteq S
    BY DEF StartsIn
  <2>2. StatuteInit => circumstances \in Circumstances
    BY <2>1, RestAssumption, ChecksAssumption DEF StatuteInit, StatuteBegins
  <2> QED
    BY <2>1, <2>2, StatementExists DEF StatuteInit, StatuteBegins, CftInit, AdviceInit
<1>2. [StatuteNext]_<<focus, statuteVars>> =>
        /\ [WatchNext]_watchVars /\ [DayLater]_submitted
        /\ [ReviseStatement]_statement /\ [Revise]_circumstances
  <2> SUFFICES ASSUME [StatuteNext]_<<focus, statuteVars>>
               PROVE  /\ [WatchNext]_watchVars /\ [DayLater]_submitted
                      /\ [ReviseStatement]_statement /\ [Revise]_circumstances
    OBVIOUS
  <2>1. [WatchNext]_watchVars /\ [DayLater]_submitted /\ [ReviseStatement]_statement
    BY DEF StatuteNext, Watching, Revising, Checking, Counting, Budgeting, statuteVars
  <2>2. ChecksNext => UNCHANGED circumstances
    BY DEF ChecksNext, CheckAll, SettleCheck, Reply, RunChecks, CheckNext, CreditCheck,
           GetRecommendation
  <2>3. [Revise]_circumstances
    BY <2>2 DEF StatuteNext, Watching, Revising, Checking, Counting, Budgeting, statuteVars, checksVars
  <2> QED BY <2>1, <2>3
<1> QED
  BY <1>1, <1>2, PTL DEF StatuteSpec, WatchSpec, CalendarSpec, CftSpec, AdviceSpec

(***************************************************************************)
(* Every state of the statutory rules has its type, whichever of them      *)
(* moves.                                                                  *)
(***************************************************************************)
THEOREM StatuteTypeCorrect == StatuteSpec => []StatuteTypeOK
<1>1. StatuteInit => ChecksTypeOK
  <2> SUFFICES ASSUME StatuteInit PROVE ChecksTypeOK
    OBVIOUS
  <2>1. \A S, name : S # {} => StartsIn(S, name) \subseteq S
    BY DEF StartsIn
  <2>2. applicant \in Applicants
    BY <2>1, RestAssumption DEF StatuteInit, StatuteBegins
  <2>3. circumstances \in Circumstances
    BY <2>1, RestAssumption, ChecksAssumption DEF StatuteInit, StatuteBegins
  <2>4. applicant \in Applicant /\ asked \in 0..Len(Registers)
    BY <2>2, ChecksAssumption, RegistersListed DEF StatuteInit, StatuteBegins, NothingChecked
  <2> QED BY <2>3, <2>4 DEF StatuteInit, StatuteBegins, NothingChecked, ChecksTypeOK
<1>2. /\ ChecksTypeOK /\ AdviceTypeOK'
      /\ [StatuteNext]_<<focus, statuteVars>>
      => ChecksTypeOK'
  <2> SUFFICES ASSUME ChecksTypeOK, AdviceTypeOK',
                      [StatuteNext]_<<focus, statuteVars>>
               PROVE  ChecksTypeOK'
    OBVIOUS
  <2>1. CASE Revising
    BY <2>1 DEF Revising, ChecksTypeOK, AdviceTypeOK
  <2>2. CASE [ChecksNext]_checksVars
    BY <2>2, ChecksTypeStep
  <2>3. Revising \/ [ChecksNext]_checksVars
    BY DEF StatuteNext, Watching, Checking, Counting, Budgeting, statuteVars
  <2> QED BY <2>1, <2>2, <2>3
<1>3. StatuteSpec => []ChecksTypeOK
  BY <1>1, <1>2, StatuteParts, AdviceTypeCorrect, PTL DEF StatuteSpec
<1>4. WatchTypeOK /\ AdviceTypeOK /\ ChecksTypeOK /\ CalendarTypeOK /\ CftTypeOK
        => StatuteTypeOK
  BY DEF StatuteTypeOK
<1> QED
  BY <1>3, <1>4, StatuteParts, WatchTypeCorrect, AdviceTypeCorrect, CalendarTypeCorrect,
     BudgetTypeCorrect, PTL
=============================================================================
