--------------------------- MODULE TaxCalculator ----------------------------
(***************************************************************************)
(* src/tax/tax-calculator.ts: the pure functions behind GET /tax/savings.   *)
(* Money is in satang, weights and bracket rates are in percent, effective  *)
(* rates in millionths.  Income and bracket ceilings are in a common unit   *)
(* that the configuration chooses (a rate does not depend on it).           *)
(* The code computes in binary floating point: a product that is exactly    *)
(* half way between two results may be rounded to either, elsewhere it is   *)
(* rounded to the nearest.  Rounded gives the set of possible results.      *)
(***************************************************************************)
EXTENDS Integers, Sequences, SequencesExt

CONSTANTS
  TaxYear,               \* rules.taxYear
  DefaultRate,           \* rules.defaultEffectiveRate
  Weight,                \* rules.categoryWeights: category -> percent
  IndividualBrackets,    \* sequences of [upTo, rate]; the last upTo is NoCeiling
  CorporateTiers,
  NoCeiling

\* What tax-rules/2026.json is, and nothing checks: whole percents, ceilings
\* and rates that do not fall from one bracket to the next, and one open
\* bracket, the last.
IsBracketTable(brackets) ==
  /\ brackets \in Seq([upTo : Nat \cup {NoCeiling}, rate : Nat])
  /\ brackets # <<>>
  /\ \A k \in 1..Len(brackets) : brackets[k].upTo = NoCeiling <=> k = Len(brackets)
  /\ \A j, k \in 1..Len(brackets) :
       j < k => /\ brackets[j].rate <= brackets[k].rate
                /\ k < Len(brackets) => brackets[j].upTo <= brackets[k].upTo

ASSUME BracketAssumption ==
  IsBracketTable(IndividualBrackets) /\ IsBracketTable(CorporateTiers)

\* Math.round(n / d), for n >= 0.
Rounded(n, d) ==
  IF (2 * n) % (2 * d) = d THEN {n \div d, n \div d + 1} ELSE {(2 * n + d) \div (2 * d)}

-----------------------------------------------------------------------------
(* computeDeductibleExpenses *)

\* The value of a field that is null.
None == -1

\* merchantTaxId, totalAmount and issueDate are all there, the amount positive.
isReady(invoice) == invoice.amount > 0 /\ invoice.hasTaxId /\ invoice.year # None

isInTaxYear(invoice) == invoice.year = TaxYear

\* Mutated Classify: a DUPLICATE is counted like the row it duplicates.
Classify_Duplicates(invoice) ==
  IF invoice.status \notin {"COMPLETED", "DUPLICATE"} \/ ~isInTaxYear(invoice)
    THEN "excluded"
    ELSE IF isReady(invoice) THEN "ready" ELSE "review"

\* The three guards of the loop, in their order.
Classify(invoice) ==
  IF invoice.status # "COMPLETED" \/ ~isInTaxYear(invoice)
    THEN "excluded"
    ELSE IF isReady(invoice) THEN "ready" ELSE "review"

NothingCounted == [ready |-> 0, review |-> 0, excluded |-> 0, expenses |-> 0]

\* One pass of the loop over the invoices.
CountInvoice(sum, invoice) ==
  LET class == Classify(invoice)
  IN  [sum EXCEPT ![class] = @ + 1,
                  !.expenses = @ + IF class = "ready"
                                     THEN invoice.amount * Weight[invoice.category] ELSE 0]

\* The loop, over the invoices in the order the database returned them.
DeductibleLoop(invoices) ==
  LET after[k \in 0..Len(invoices)] ==
        IF k = 0 THEN NothingCounted ELSE CountInvoice(after[k - 1], invoices[k])
  IN  after[Len(invoices)]

-----------------------------------------------------------------------------
(* lookupEffectiveRate, computeTaxSavings *)

\* Mutated BracketStep: the slice starts at zero, not at the last ceiling.
BracketStep_WholeIncome(acc, bracket, income) ==
  LET upper == IF bracket.upTo = NoCeiling \/ bracket.upTo > income
                 THEN income ELSE bracket.upTo
  IN  IF acc.done THEN acc
      ELSE [tax  |-> acc.tax + upper * bracket.rate,
            from |-> bracket.upTo,
            done |-> upper = income]

\* One pass of the loop over the brackets: the slice of the income that lies in
\* the bracket is taxed at its rate; the loop ends with the bracket the income
\* lies in.  acc holds tax and previousCeiling.
BracketStep(acc, bracket, income) ==
  LET upper == IF bracket.upTo = NoCeiling \/ bracket.upTo > income
                 THEN income ELSE bracket.upTo
      slice == upper - acc.from
  IN  IF acc.done THEN acc
      ELSE [tax  |-> acc.tax + IF slice > 0 THEN slice * bracket.rate ELSE 0,
            from |-> bracket.upTo,
            done |-> upper = income]

\* acc after each of the brackets.
BracketLoop(income, brackets) ==
  LET after[k \in 0..Len(brackets)] ==
        IF k = 0 THEN [tax |-> 0, from |-> 0, done |-> FALSE]
                 ELSE BracketStep(after[k - 1], brackets[k], income)
  IN  after

TaxFromBrackets(income, brackets) == BracketLoop(income, brackets)[Len(brackets)].tax

Brackets(type) == IF type = "CORPORATE" THEN CorporateTiers ELSE IndividualBrackets

\* The results lookupEffectiveRate can have: tax / income, to six decimals.
EffectiveRates(type, income) ==
  IF income <= 0
    THEN {DefaultRate}
    ELSE Rounded(TaxFromBrackets(income, Brackets(type)) * 10000, income)

\* The results the product, rounded to satang, can have.
computeTaxSavings(deductible, rate) == Rounded(deductible * rate, 1000000)
=============================================================================
