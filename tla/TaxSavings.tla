----------------------------- MODULE TaxSavings -----------------------------
(***************************************************************************)
(* src/tax: PUT /tax/profile, and GET /tax/savings, which reads the profile *)
(* and then the invoices of the account in two separate queries while edits *)
(* and OCR go on, and computes the estimate.                                *)
(***************************************************************************)
EXTENDS TaxCalculator, FiniteSets, FiniteSetsExt

CONSTANTS
  InvoiceIds,        \* the rows of the account
  InvoiceValues,     \* what a row can say
  Incomes,           \* what PUT /tax/profile accepts, in the unit of the brackets
  Years              \* the values of ?year=

ASSUME IncomeAssumption == Incomes \subseteq Nat /\ 0 \in Incomes

\* An account has finitely many rows.  An amount is a number or None; every
\* category has a weight (categoryWeight has a default).
ASSUME InvoiceAssumption ==
  /\ IsFiniteSet(InvoiceIds)
  /\ TaxYear \in Nat
  /\ \A c \in DOMAIN Weight : Weight[c] \in Nat
  /\ \A v \in InvoiceValues :
       v.amount \in Int /\ v.hasTaxId \in BOOLEAN /\ v.category \in DOMAIN Weight

VARIABLES
  profile,     \* TaxProfile of the account, or NoProfile
  invoices,    \* the invoice rows
  pc,          \* getSavings: "idle", "findMany" or "answered"
  loaded,      \* the profile getSavings has read
  response     \* what it answered, or NoResponse

vars == <<profile, invoices, pc, loaded, response>>

Profiles   == [type : {"INDIVIDUAL", "CORPORATE"}, income : Incomes]
NoProfile  == [type |-> "none", income |-> 0]
NoResponse == [rate |-> None]

\* Mutated ProfileView: no defaults for a missing row.
ProfileView_NoDefaults(p) ==
  [type |-> p.type, income |-> p.income, isDefault |-> p = NoProfile]

\* getProfile: the defaults when there is no row.
ProfileView(p) ==
  [type      |-> IF p = NoProfile THEN "INDIVIDUAL" ELSE p.type,
   income    |-> p.income,
   isDefault |-> p = NoProfile]

SavingsTypeOK ==
  /\ profile \in Profiles \cup {NoProfile}
  /\ invoices \in [InvoiceIds -> InvoiceValues]
  /\ pc \in {"idle", "findMany", "answered"}
  /\ loaded \in [type : {"INDIVIDUAL", "CORPORATE"}, income : Incomes, isDefault : BOOLEAN]
  /\ response = NoResponse \/ DOMAIN response = {"savings", "expenses", "rate", "assumptions",
                                                "ready", "review", "excluded"}

Init ==
  /\ profile = NoProfile
  /\ invoices \in [InvoiceIds -> InvoiceValues]
  /\ pc = "idle"
  /\ loaded = ProfileView(NoProfile)
  /\ response = NoResponse

\* upsertProfile: one statement.
UpsertProfile(p) ==
  /\ profile' = p
  /\ UNCHANGED <<invoices, pc, loaded, response>>

\* OCR or PATCH changes a row.
ChangeInvoice(i, v) ==
  /\ invoices' = [invoices EXCEPT ![i] = v]
  /\ UNCHANGED <<profile, pc, loaded, response>>

\* getSavings: getRulesForYear refuses every year but one, then the profile is read.
LoadProfile(year) ==
  /\ pc \in {"idle", "answered"}
  /\ year = TaxYear
  /\ loaded' = ProfileView(profile)
  /\ pc' = "findMany"
  /\ response' = NoResponse
  /\ UNCHANGED <<profile, invoices>>

\* Mutated Answer: the rate follows the profile of the moment.
Answer_RereadProfile ==
  /\ pc = "findMany"
  /\ \E order \in SetToSeqs(InvoiceIds) :
       LET sum == DeductibleLoop([k \in DOMAIN order |-> invoices[order[k]]])
       IN  \E expenses \in Rounded(sum.expenses, 100),
              rate \in EffectiveRates(ProfileView(profile).type, profile.income) :
             \E savings \in computeTaxSavings(expenses, rate) :
               response' = [savings |-> savings, expenses |-> expenses, rate |-> rate,
                            assumptions |-> loaded, ready |-> sum.ready,
                            review |-> sum.review, excluded |-> sum.excluded]
  /\ pc' = "answered"
  /\ UNCHANGED <<profile, invoices, loaded>>

\* findMany has no orderBy: the rows come in any order.
Answer ==
  /\ pc = "findMany"
  /\ \E order \in SetToSeqs(InvoiceIds) :
       LET sum == DeductibleLoop([k \in DOMAIN order |-> invoices[order[k]]])
       IN  \E expenses \in Rounded(sum.expenses, 100),
              rate \in EffectiveRates(loaded.type, loaded.income) :
             \E savings \in computeTaxSavings(expenses, rate) :
               response' = [savings |-> savings, expenses |-> expenses, rate |-> rate,
                            assumptions |-> loaded, ready |-> sum.ready,
                            review |-> sum.review, excluded |-> sum.excluded]
  /\ pc' = "answered"
  /\ UNCHANGED <<profile, invoices, loaded>>

Next ==
  \/ \E p \in Profiles : UpsertProfile(p)
  \/ \E i \in InvoiceIds, v \in InvoiceValues : ChangeInvoice(i, v)
  \/ \E year \in Years : LoadProfile(year)
  \/ Answer

Spec == Init /\ [][Next]_vars

-----------------------------------------------------------------------------
(* Properties. *)

Answered == response # NoResponse

\* The rate at which the u-th unit of income is taxed.
MarginalRate(u, brackets) ==
  LET holds == {k \in DOMAIN brackets : brackets[k].upTo = NoCeiling \/ u <= brackets[k].upTo}
  IN  brackets[Min(holds)].rate

\* Tax by definition: every unit of income at its own marginal rate.
MarginalTax(type, income) ==
  LET upTo[u \in 0..income] ==
        IF u = 0 THEN 0 ELSE upTo[u - 1] + MarginalRate(u, Brackets(type))
  IN  upTo[income]

\* The rate in the answer is the progressive tax on the income the same answer
\* reports, divided by it, rounded to six decimals, whatever PUT /tax/profile
\* did meanwhile; without income it is the default rate (lookupEffectiveRate,
\* getSavings).
RateMatchesAssumptions ==
  Answered =>
    LET a == response.assumptions
        error == response.rate * a.income - MarginalTax(a.type, a.income) * 10000
    IN  IF a.income = 0 THEN response.rate = DefaultRate
        ELSE -a.income <= 2 * error /\ 2 * error <= a.income

\* More income never lowers the rate, from the first unit on
\* (computeTaxFromBrackets at and around every ceiling).
RateIsProgressive ==
  Answered =>
    LET a == response.assumptions
    IN  a.income > 0 =>
          \A income \in Incomes :
            income > a.income =>
              \A rate \in EffectiveRates(a.type, income) : response.rate <= rate

\* The answer counts every row once, and at the moment it is given its expenses
\* are those of the COMPLETED rows of the tax year with all three fields, each
\* at its weight, to half a satang and whatever order the rows came in; a
\* DUPLICATE never counts (computeDeductibleExpenses).
ExpensesMatchRows ==
  [][Answered' /\ ~Answered =>
       LET counted == {i \in InvoiceIds :
                         /\ invoices[i].status = "COMPLETED"
                         /\ invoices[i].year = TaxYear
                         /\ invoices[i].amount > 0 /\ invoices[i].hasTaxId}
           exact == SumFunction([i \in counted |->
                                   invoices[i].amount * Weight[invoices[i].category]])
           error == response'.expenses * 100 - exact
       IN  /\ -50 <= error /\ error <= 50
           /\ response'.ready = Cardinality(counted)
           /\ response'.ready + response'.review + response'.excluded
                = Cardinality(InvoiceIds)]_vars
=============================================================================
