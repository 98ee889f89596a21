---------------------------- MODULE MCTaxSavings ----------------------------
(* TaxSavings with the rules of src/tax/tax-rules/2026.json; one unit of     *)
(* income is 50,000 baht, so every ceiling is a whole number of units.       *)
EXTENDS TaxSavings

MCWeight == [c \in {"MEALS", "OTHER", "RENT"} |->
               CASE c = "MEALS" -> 50 [] c = "OTHER" -> 80 [] c = "RENT" -> 100]

MCIndividual ==
  << [upTo |-> 3,  rate |-> 0],  [upTo |-> 6,  rate |-> 5],  [upTo |-> 10, rate |-> 10],
     [upTo |-> 15, rate |-> 15], [upTo |-> 20, rate |-> 20], [upTo |-> 40, rate |-> 25],
     [upTo |-> NoCeiling, rate |-> 35] >>

MCCorporate ==
  << [upTo |-> 6,  rate |-> 0], [upTo |-> 60, rate |-> 15],
     [upTo |-> NoCeiling, rate |-> 20] >>

\* Nothing missing, then one thing wrong at a time; amounts in satang, odd ones
\* so that half a satang occurs.
Good == [status |-> "COMPLETED", year |-> TaxYear, amount |-> 101, hasTaxId |-> TRUE,
         category |-> "MEALS"]
MCInvoiceValues ==
  {Good,
   [Good EXCEPT !.category = "OTHER", !.amount = 333],
   [Good EXCEPT !.category = "RENT"],
   [Good EXCEPT !.status = "DUPLICATE"],
   [Good EXCEPT !.status = "FAILED"],
   [Good EXCEPT !.year = TaxYear - 1],
   [Good EXCEPT !.year = None],
   [Good EXCEPT !.amount = None],
   [Good EXCEPT !.amount = 0],
   [Good EXCEPT !.hasTaxId = FALSE]}
=============================================================================
