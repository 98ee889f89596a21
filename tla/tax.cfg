SPECIFICATION Spec
CONSTANTS
  TaxYear = 2026
  DefaultRate = 150000
  Weight <- MCWeight
  IndividualBrackets <- MCIndividual
  CorporateTiers <- MCCorporate
  NoCeiling = 0
  InvoiceIds = {1, 2}
  InvoiceValues <- MCInvoiceValues
  Incomes = {0, 1, 3, 4, 7, 19, 41, 61}
  Years = {2025, 2026}
INVARIANTS
  SavingsTypeOK
  RateMatchesAssumptions
  RateIsProgressive
PROPERTIES
  ExpensesMatchRows
