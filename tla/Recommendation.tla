--------------------------- MODULE Recommendation ---------------------------
(***************************************************************************)
(* The rules engine (services/recommendation-service/src/engine/rules.ts): *)
(* an ordered list of rules over a debtor's circumstances, of which the    *)
(* first that matches gives the advice.  Amounts are whole pounds; the     *)
(* statutory ones are those of packages/statutory/src/thresholds.ts.  The  *)
(* factors and the reasoning it also returns are text and left out.        *)
(*                                                                         *)
(* Advice is asked for again whenever circumstances are revised - on the   *)
(* application form, or in the staff's policy simulation - so a behaviour  *)
(* is a sequence of revisions of one circumstance at a time.               *)
(***************************************************************************)
EXTENDS Integers

CONSTANTS
    Debt, Surplus, Assets,  \* the amounts considered; a surplus may be negative
    SequestrationMinDebt,   \* SEQUESTRATION_MIN_DEBT
    MapMaxDebt,             \* MAP.maxDebt
    MapMaxAssets,           \* MAP.maxTotalAssets
    DefaultPeriodMonths,    \* DCO.defaultPeriodMonths
    SmallDebt,              \* 5000, up to which a payment programme is advised
    MapSurplus,             \* 50 a month, more than which is too much for MAP
    DasSurplus, GoodSurplus,\* 100 and 200 a month, which grade the confidence
    TrustAssets             \* 5000, assets worth a trust deed

ASSUME AmountsAssumption ==
    /\ Debt \subseteq Nat /\ Surplus \subseteq Int /\ Assets \subseteq Nat
    /\ {SequestrationMinDebt, MapMaxDebt, MapMaxAssets, DefaultPeriodMonths,
        SmallDebt, MapSurplus, DasSurplus, GoodSurplus, TrustAssets} \subseteq Nat

\* How the statutory amounts and the engine's own compare.
ASSUME ThresholdsAssumption ==
    /\ SequestrationMinDebt <= SmallDebt /\ SmallDebt <= MapMaxDebt
    /\ MapMaxAssets <= TrustAssets

VARIABLE circumstances

\* surplus is monthlyIncome - monthlyExpenditure; hasAssets decides nothing.
Circumstances == [debt : Debt, surplus : Surplus, assets : Assets,
                  activeCase : BOOLEAN, hasMoratorium : BOOLEAN]

Advised == {"signposting_advice", "moratorium", "debt_payment_programme",
            "minimal_asset_process", "debt_arrangement_scheme",
            "protected_trust_deed", "bankruptcy"}

Confidence == {"high", "medium", "low"}

Advice == [product : Advised, confidence : Confidence,
           alternatives : SUBSET Advised]

Advise(product, confidence, alternatives) ==
    [product |-> product, confidence |-> confidence, alternatives |-> alternatives]

-----------------------------------------------------------------------------
\* monthsToRepay <= months; without a surplus it is Infinity.
RepaidWithin(c, months) == c.surplus > 0 /\ c.debt <= months * c.surplus

SuitsPaymentProgramme(c) ==
    c.debt <= SmallDebt /\ RepaidWithin(c, DefaultPeriodMonths)

SuitsMinimalAsset(c) ==
    c.debt <= MapMaxDebt /\ c.surplus <= MapSurplus /\ c.assets < MapMaxAssets

\* A mutant: the trust deed takes over when the surplus is good, not when it is not.
DefersWithSurplus(c) ==
    c.surplus > DasSurplus /\ c.assets > TrustAssets /\ c.debt > SmallDebt

DefersToTrustDeed(c) ==
    c.surplus <= DasSurplus /\ c.assets > TrustAssets /\ c.debt > SmallDebt

\* A mutant, and once a bug: a surplus of 100 is required.
SuitsArrangementAbove(c) ==
    /\ c.debt \in SmallDebt..MapMaxDebt
    /\ c.surplus > DasSurplus
    /\ ~DefersToTrustDeed(c)

SuitsArrangement(c) ==
    /\ c.debt \in SmallDebt..MapMaxDebt
    /\ c.surplus > 0
    /\ ~DefersToTrustDeed(c)

SuitsTrustDeed(c) == c.debt > SmallDebt /\ c.assets > TrustAssets

\* A mutant: no minimum for an application by a debtor without a surplus.
SuitsBankruptcyAlways(c) == c.debt > MapMaxDebt \/ c.surplus <= 0

SuitsBankruptcy(c) ==
    c.debt > MapMaxDebt \/ (c.debt >= SequestrationMinDebt /\ c.surplus <= 0)

\* The confidence in an arrangement, and its alternative.
Arrangement(c) ==
    Advise("debt_arrangement_scheme",
           CASE c.surplus > GoodSurplus -> "high"
             [] c.surplus \in DasSurplus + 1..GoodSurplus -> "medium"
             [] OTHER -> "low",
           IF RepaidWithin(c, 48) THEN {"debt_payment_programme"}
           ELSE {"protected_trust_deed"})

\* A mutant: the default advice is given no confidence.
FallbackUngraded ==
    Advise("signposting_advice", "none", {"debt_arrangement_scheme"})

Fallback == Advise("signposting_advice", "low",
                   {"debt_arrangement_scheme", "debt_payment_programme"})

\* calculateRecommendation: the first rule that matches.
Recommend(c) ==
    IF c.activeCase THEN Advise("signposting_advice", "high", {})
    ELSE IF c.hasMoratorium
    THEN Advise("moratorium", "high", {"debt_arrangement_scheme", "signposting_advice"})
    ELSE IF SuitsPaymentProgramme(c)
    THEN Advise("debt_payment_programme", "high", {"debt_arrangement_scheme"})
    ELSE IF SuitsMinimalAsset(c)
    THEN Advise("minimal_asset_process", "high", {"bankruptcy"})
    ELSE IF SuitsArrangement(c) THEN Arrangement(c)
    ELSE IF SuitsTrustDeed(c)
    THEN Advise("protected_trust_deed", "medium", {"bankruptcy", "debt_arrangement_scheme"})
    ELSE IF SuitsBankruptcy(c)
    THEN Advise("bankruptcy", "medium", {"protected_trust_deed", "minimal_asset_process"})
    ELSE Fallback

-----------------------------------------------------------------------------
AdviceTypeOK ==
    circumstances \in Circumstances /\ Recommend(circumstances) \in Advice

AdviceInit == circumstances \in Circumstances

Revise ==
    \/ \E debt \in Debt : circumstances' = [circumstances EXCEPT !.debt = debt]
    \/ \E surplus \in Surplus :
            circumstances' = [circumstances EXCEPT !.surplus = surplus]
    \/ \E assets \in Assets : circumstances' = [circumstances EXCEPT !.assets = assets]
    \/ \E b \in BOOLEAN : circumstances' = [circumstances EXCEPT !.activeCase = b]
    \/ \E b \in BOOLEAN : circumstances' = [circumstances EXCEPT !.hasMoratorium = b]

AdviceSpec == AdviceInit /\ [][Revise]_circumstances

-----------------------------------------------------------------------------
\* The rules themselves decide: no active case and no moratorium comes first.
Assessed(c) == ~c.activeCase /\ ~c.hasMoratorium

(***************************************************************************)
(* "never falls through to the low-confidence default in the statutory     *)
(* debt range" (recommendation-service/src/__tests__/rules.test.ts:163,    *)
(* which samples it): between the rules there is no gap.                   *)
(***************************************************************************)
NoGap(c) == Assessed(c) /\ c.debt >= SmallDebt => Recommend(c) # Fallback

NoGapInStatutoryRange == NoGap(circumstances)

\* What a debtor needs for a product, whatever the order of the rules.
Qualifies(c, product) ==
    CASE product = "minimal_asset_process" ->
            c.debt <= MapMaxDebt /\ c.assets < MapMaxAssets
      [] product = "bankruptcy" -> c.debt >= SequestrationMinDebt
      [] product \in {"debt_arrangement_scheme", "debt_payment_programme"} ->
            c.surplus > 0
      [] product = "protected_trust_deed" -> c.assets > TrustAssets
      [] OTHER -> TRUE

(***************************************************************************)
(* Nobody is advised a product the statutory amounts shut them out of,     *)
(* whichever rules came before the one that matched.                       *)
(***************************************************************************)
AdviceQualifies == Qualifies(circumstances, Recommend(circumstances).product)

\* How much of the debt a product repays, from advice alone to all of it.
Repays(product) ==
    CASE product \in {"debt_arrangement_scheme", "debt_payment_programme"} -> 3
      [] product = "protected_trust_deed" -> 2
      [] product \in {"bankruptcy", "minimal_asset_process"} -> 1
      [] OTHER -> 0

(***************************************************************************)
(* With more to spare each month and all else equal, a debtor in the       *)
(* statutory range is never advised to repay less: the rules do not cross. *)
(***************************************************************************)
MoreSurplus(c, d) ==
    d.surplus > c.surplus /\ d = [c EXCEPT !.surplus = d.surplus]

SurplusPaysMore ==
    [][MoreSurplus(circumstances, circumstances') /\ Assessed(circumstances)
       /\ circumstances.debt >= SmallDebt =>
            Repays(Recommend(circumstances).product)
                <= Repays(Recommend(circumstances').product)]_circumstances
=============================================================================
