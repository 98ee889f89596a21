-------------------------- MODULE TaxSavingsProofs --------------------------
(***************************************************************************)
(* Theorems about TaxCalculator and TaxSavings, for every table of brackets,*)
(* every income, receipt and year, and any interleaving of PUT /tax/profile,*)
(* OCR and edits with GET /tax/savings: the loop over the brackets computes *)
(* the tax that is defined unit by unit, the rate in an answer is that tax  *)
(* over the income of the same answer, and more income never lowers it.     *)
(***************************************************************************)
EXTENDS TaxSavings, WellFoundedInduction, FiniteSetTheorems, TLAPS

-----------------------------------------------------------------------------
(* Numbers. *)

\* Induction over the naturals, with a set in place of a predicate.
LEMMA SetInduction ==
  ASSUME NEW S, 0 \in S, \A n \in Nat : n \in S => n + 1 \in S
  PROVE  Nat \subseteq S
<1> DEFINE T == Nat \ S
<1> SUFFICES ASSUME T # {} PROVE FALSE
  OBVIOUS
<1>1. PICK x \in T : \A y \in T : <<y, x>> \notin OpToRel(<, Nat)
  <2>1. IsWellFoundedOn(OpToRel(<, Nat), Nat)
    BY NatLessThanWellFounded, Zenon
  <2> QED
    BY <2>1, WFMin, Zenon
<1>2. \A y \in T : ~(y < x)
  BY <1>1 DEF OpToRel
<1>3. x # 0 /\ x - 1 \in Nat /\ x - 1 < x
  OBVIOUS
<1>4. x - 1 \in S
  BY <1>2, <1>3
<1> QED
  BY <1>3, <1>4

\* A non-empty set of naturals has a least element, and Min is it.
LEMMA MinOfNats ==
  ASSUME NEW S \in SUBSET Nat, S # {}
  PROVE  Min(S) \in S /\ \A y \in S : Min(S) <= y
<1>1. PICK x \in S : \A y \in S : <<y, x>> \notin OpToRel(<, Nat)
  <2>1. IsWellFoundedOn(OpToRel(<, Nat), Nat)
    BY NatLessThanWellFounded, Zenon
  <2> QED
    BY <2>1, WFMin, Zenon
<1>2. \A y \in S : x <= y
  <2>1. \A y \in S : ~(y < x)
    BY <1>1 DEF OpToRel
  <2> QED
    BY <2>1
<1>3. Min(S) = CHOOSE m \in S : \A y \in S : m <= y
  BY Zenon DEF Min
<1> QED
  BY <1>2, <1>3, Zenon

\* Division with remainder.
LEMMA Division ==
  ASSUME NEW n \in Nat, NEW d \in Nat, d > 0
  PROVE  /\ n \div d \in Nat /\ n % d \in 0..(d - 1)
         /\ n = d * (n \div d) + (n % d)
  OBVIOUS

\* Math.round is off by at most one half.
LEMMA RoundedIsNear ==
  ASSUME NEW n \in Nat, NEW d \in Nat, d > 0, NEW x \in Rounded(n, d)
  PROVE  x \in Nat /\ -d <= 2 * (x * d - n) /\ 2 * (x * d - n) <= d
<1> DEFINE q == n \div d
           r == n % d
           Q == (2 * n) \div (2 * d)
<1>1. q \in Nat /\ r \in Nat /\ r < d /\ n = d * q + r
  BY Division
<1>2. CASE (2 * n) % (2 * d) = d
  <2>1. 2 * n = 2 * d * Q + d /\ Q \in Nat
    <3>1. 2 * n \in Nat /\ 2 * d \in Nat /\ 2 * d > 0
      OBVIOUS
    <3>2. Q \in Nat /\ 2 * n = (2 * d) * Q + ((2 * n) % (2 * d))
      BY <3>1, Division
    <3> HIDE DEF Q
    <3> QED
      BY <1>2, <3>2
  <2>2. Q = q
    <3>1. 2 * (d * Q) + d = 2 * (d * q) + 2 * r
      BY <1>1, <2>1
    <3> QED
      BY <1>1, <2>1, <3>1
  <2>3. n = d * q + r /\ d = 2 * r
    BY <1>1, <2>1, <2>2
  <2>4. x = q \/ x = q + 1
    BY <1>2 DEF Rounded
  <2> QED
    BY <1>1, <2>3, <2>4
<1>3. CASE (2 * n) % (2 * d) # d
  <2> DEFINE p == (2 * n + d) % (2 * d)
  <2>1. x = (2 * n + d) \div (2 * d)
    BY <1>3 DEF Rounded
  <2>2. x \in Nat /\ p \in Nat /\ p < 2 * d /\ 2 * n + d = 2 * d * x + p
    BY <2>1, Division
  <2> QED
    BY <2>2
<1> QED
  BY <1>2, <1>3

-----------------------------------------------------------------------------
(* The tax by definition: unit by unit. *)

\* The u-th unit of income lies in the k-th bracket.
InBracket(u, k, b) ==
  /\ k \in 1..Len(b)
  /\ k = 1 \/ b[k - 1].upTo < u
  /\ k = Len(b) \/ u <= b[k].upTo

\* What the table says of one bracket.
LEMMA BracketFacts ==
  ASSUME NEW b, IsBracketTable(b), NEW k \in 1..Len(b)
  PROVE  /\ Len(b) \in Nat /\ DOMAIN b = 1..Len(b)
         /\ b[k].rate \in Nat
         /\ k = Len(b) <=> b[k].upTo = NoCeiling
         /\ k # Len(b) => b[k].upTo \in Nat
<1>1. b \in Seq([upTo : Nat \cup {NoCeiling}, rate : Nat])
  BY DEF IsBracketTable
<1>2. Len(b) \in Nat /\ DOMAIN b = 1..Len(b)
  BY <1>1
<1>3. b[k] \in [upTo : Nat \cup {NoCeiling}, rate : Nat]
  <2> DEFINE Rows == [upTo : Nat \cup {NoCeiling}, rate : Nat]
  <2> HIDE DEF Rows
  <2>1. b \in Seq(Rows)
    BY <1>1 DEF Rows
  <2>2. b[k] \in Rows
    BY <2>1
  <2> QED
    BY <2>2 DEF Rows
<1> QED
  BY <1>2, <1>3 DEF IsBracketTable

\* Both tables are tables of brackets.
LEMMA TablesAreBrackets ==
  ASSUME NEW type
  PROVE  IsBracketTable(Brackets(type))
BY BracketAssumption DEF Brackets

\* A unit in the k-th bracket is taxed at the rate of the k-th bracket.
LEMMA MarginalRateInBracket ==
  ASSUME NEW b, IsBracketTable(b), NEW u \in Nat, NEW k, InBracket(u, k, b)
  PROVE  MarginalRate(u, b) = b[k].rate
<1> DEFINE holds == {j \in DOMAIN b : b[j].upTo = NoCeiling \/ u <= b[j].upTo}
<1>1. k \in 1..Len(b) /\ Len(b) \in Nat /\ DOMAIN b = 1..Len(b)
  BY BracketFacts DEF InBracket
<1>2. k \in holds
  BY <1>1, BracketFacts DEF InBracket
<1>3. ASSUME NEW j \in holds, j < k PROVE FALSE
  <2>1. j \in 1..Len(b) /\ j # Len(b) /\ k - 1 \in 1..Len(b) /\ k - 1 # Len(b) /\ k # 1
    BY <1>1, <1>3
  <2>2. b[j].upTo \in Nat /\ b[k - 1].upTo \in Nat /\ u <= b[j].upTo
    BY <2>1, <1>3, BracketFacts
  <2>3. b[j].upTo <= b[k - 1].upTo
    <3>1. CASE j = k - 1
      BY <3>1, <2>2
    <3>2. CASE j # k - 1
      <4>1. j < k - 1 /\ k - 1 < Len(b)
        BY <3>2, <2>1, <1>1, <1>3
      <4> QED
        BY <4>1, <2>1 DEF IsBracketTable
    <3> QED
      BY <3>1, <3>2
  <2> QED
    BY <2>1, <2>2, <2>3 DEF InBracket
<1>4. holds \in SUBSET Nat /\ holds # {}
  BY <1>1, <1>2
<1>5. Min(holds) \in holds /\ Min(holds) <= k
  BY <1>2, <1>4, MinOfNats
<1>6. Min(holds) = k
  BY <1>1, <1>3, <1>4, <1>5
<1> QED
  BY <1>6 DEF MarginalRate

\* A later unit is not taxed at a lower rate.
LEMMA MarginalRateRises ==
  ASSUME NEW b, IsBracketTable(b), NEW u \in Nat, NEW v \in Nat, u <= v
  PROVE  /\ MarginalRate(u, b) \in Nat /\ MarginalRate(v, b) \in Nat
         /\ MarginalRate(u, b) <= MarginalRate(v, b)
<1> DEFINE hu == {j \in DOMAIN b : b[j].upTo = NoCeiling \/ u <= b[j].upTo}
           hv == {j \in DOMAIN b : b[j].upTo = NoCeiling \/ v <= b[j].upTo}
<1>1. Len(b) \in 1..Len(b) /\ DOMAIN b = 1..Len(b) /\ Len(b) \in Nat /\ b[Len(b)].upTo = NoCeiling
  <2>1. b \in Seq([upTo : Nat \cup {NoCeiling}, rate : Nat]) /\ b # <<>>
    BY DEF IsBracketTable
  <2>2. Len(b) \in Nat /\ Len(b) # 0
    BY <2>1
  <2> QED
    BY <2>2, BracketFacts
<1>2. /\ hu \in SUBSET Nat /\ Len(b) \in hu /\ hu \subseteq 1..Len(b)
      /\ hv \in SUBSET Nat /\ Len(b) \in hv /\ hv \subseteq 1..Len(b)
  BY <1>1
<1>3. hv \subseteq hu
  <2> SUFFICES ASSUME NEW j \in hv PROVE j \in hu
    OBVIOUS
  <2>1. j \in 1..Len(b) /\ (b[j].upTo = NoCeiling \/ (b[j].upTo \in Nat /\ v <= b[j].upTo))
    BY <1>1, BracketFacts
  <2> QED
    BY <2>1, <1>1
<1>4. MarginalRate(u, b) = b[Min(hu)].rate /\ MarginalRate(v, b) = b[Min(hv)].rate
  BY DEF MarginalRate
<1> HIDE DEF hu, hv
<1>5. Min(hu) \in 1..Len(b) /\ Min(hv) \in 1..Len(b)
  BY <1>2, MinOfNats
<1>6. Min(hu) <= Min(hv)
  BY <1>2, <1>3, MinOfNats
<1>7. b[Min(hu)].rate <= b[Min(hv)].rate
  <2>1. CASE Min(hu) = Min(hv)
    BY <2>1, <1>5, BracketFacts
  <2>2. CASE Min(hu) # Min(hv)
    <3>1. Min(hu) < Min(hv)
      BY <2>2, <1>1, <1>5, <1>6
    <3> QED
      BY <3>1, <1>5 DEF IsBracketTable
  <2> QED
    BY <2>1, <2>2
<1> QED
  BY <1>4, <1>5, <1>7, BracketFacts

\* f holds the tax on every income up to n.
IsSum(f, n, b) ==
  f = [u \in 0..n |-> IF u = 0 THEN 0 ELSE f[u - 1] + MarginalRate(u, b)]

\* A function that is defined by recursion over 0..n exists.  (LoopExists and
\* CountExists say the same of the two loops: a step cannot be a parameter.)
LEMMA SumExists ==
  ASSUME NEW b, NEW n \in Nat
  PROVE  \E f : IsSum(f, n, b)
<1> DEFINE S == {m \in Nat : \E f : IsSum(f, m, b)}
<1>1. 0 \in S
  <2>1. IsSum([u \in 0..0 |-> 0], 0, b)
    BY DEF IsSum
  <2> QED
    BY <2>1
<1>2. ASSUME NEW m \in Nat, m \in S PROVE m + 1 \in S
  <2>1. PICK f : IsSum(f, m, b)
    BY <1>2
  <2> DEFINE g == [u \in 0..(m + 1) |-> IF u <= m THEN f[u] ELSE f[m] + MarginalRate(u, b)]
             h == [u \in 0..(m + 1) |-> IF u = 0 THEN 0 ELSE g[u - 1] + MarginalRate(u, b)]
  <2>2. ASSUME NEW u \in 0..(m + 1) PROVE g[u] = h[u]
    <3>1. CASE u = 0
      <4>1. f[0] = 0
        BY <2>1 DEF IsSum
      <4> QED
        BY <3>1, <4>1
    <3>2. CASE u # 0 /\ u <= m
      <4>1. u \in 0..m /\ u - 1 \in 0..(m + 1) /\ u - 1 <= m
        BY <3>2
      <4>2. f[u] = f[u - 1] + MarginalRate(u, b)
        BY <4>1, <3>2, <2>1 DEF IsSum
      <4>3. g[u] = f[u] /\ g[u - 1] = f[u - 1]
        BY <3>2, <4>1
      <4> QED
        BY <3>2, <4>2, <4>3
    <3>3. CASE u = m + 1
      <4>1. g[u] = f[m] + MarginalRate(u, b) /\ g[u - 1] = f[m]
        BY <3>3
      <4> QED
        BY <3>3, <4>1
    <3> QED
      BY <3>1, <3>2, <3>3
  <2>3. g = h
    BY <2>2
  <2>4. IsSum(g, m + 1, b)
    BY <2>3, Zenon DEF IsSum
  <2> QED
    BY <2>4
<1> HIDE DEF S
<1>3. n \in S
  BY <1>1, <1>2, SetInduction
<1> QED
  BY <1>3 DEF S

\* Two such functions agree where both are defined.
LEMMA SumsAgree ==
  ASSUME NEW b, NEW n \in Nat, NEW m \in Nat, NEW f, NEW g,
         IsSum(f, n, b), IsSum(g, m, b), NEW c \in Nat, c <= n, c <= m
  PROVE  f[c] = g[c]
<1> DEFINE S == {u \in Nat : u <= n /\ u <= m => f[u] = g[u]}
<1>1. 0 \in S
  BY DEF IsSum
<1>2. ASSUME NEW u \in Nat, u \in S PROVE u + 1 \in S
  <2> SUFFICES ASSUME u + 1 <= n, u + 1 <= m PROVE f[u + 1] = g[u + 1]
    OBVIOUS
  <2>1. f[u] = g[u]
    BY <1>2
  <2>2. u + 1 \in 0..n /\ u + 1 \in 0..m /\ u + 1 # 0 /\ (u + 1) - 1 = u
    OBVIOUS
  <2>3. f[u + 1] = f[u] + MarginalRate(u + 1, b) /\ g[u + 1] = g[u] + MarginalRate(u + 1, b)
    BY <2>2 DEF IsSum
  <2> QED
    BY <2>1, <2>3
<1> HIDE DEF S
<1>3. c \in S
  BY <1>1, <1>2, SetInduction
<1> QED
  BY <1>3 DEF S

\* MarginalTax as an equation for each unit.
LEMMA MarginalTaxSteps ==
  ASSUME NEW type, NEW n \in Nat
  PROVE  /\ MarginalTax(type, 0) = 0
         /\ MarginalTax(type, n + 1) = MarginalTax(type, n) + MarginalRate(n + 1, Brackets(type))
<1> DEFINE b == Brackets(type)
           F(m) == CHOOSE f : IsSum(f, m, b)
<1>1. ASSUME NEW m \in Nat PROVE MarginalTax(type, m) = F(m)[m] /\ IsSum(F(m), m, b)
  <2>1. \E f : IsSum(f, m, b)
    BY SumExists
  <2>2. IsSum(F(m), m, b)
    BY <2>1, Zenon
  <2>3. MarginalTax(type, m) = F(m)[m]
    BY Zenon DEF MarginalTax, IsSum
  <2> QED
    BY <2>2, <2>3
<1> HIDE DEF F
<1>2. MarginalTax(type, 0) = 0
  BY <1>1 DEF IsSum
<1>3. n + 1 \in 0..(n + 1) /\ n + 1 # 0 /\ (n + 1) - 1 = n /\ n + 1 \in Nat
  OBVIOUS
<1>4. F(n + 1)[n + 1] = F(n + 1)[n] + MarginalRate(n + 1, b)
  BY <1>1, <1>3 DEF IsSum
<1>5. F(n + 1)[n] = F(n)[n]
  BY <1>1, <1>3, SumsAgree
<1> QED
  BY <1>1, <1>2, <1>3, <1>4, <1>5

\* The tax is a natural number.
LEMMA MarginalTaxType ==
  ASSUME NEW type, NEW n \in Nat
  PROVE  MarginalTax(type, n) \in Nat
<1> DEFINE S == {m \in Nat : MarginalTax(type, m) \in Nat}
<1>1. 0 \in S
  BY MarginalTaxSteps
<1>2. ASSUME NEW m \in Nat, m \in S PROVE m + 1 \in S
  <2>1. MarginalRate(m + 1, Brackets(type)) \in Nat
    BY MarginalRateRises, TablesAreBrackets
  <2> QED
    BY <1>2, <2>1, MarginalTaxSteps
<1> HIDE DEF S
<1>3. n \in S
  BY <1>1, <1>2, SetInduction
<1> QED
  BY <1>3 DEF S

\* Where the rate is one and the same, the tax grows in proportion.
LEMMA TaxWithinBracket ==
  ASSUME NEW type, NEW a \in Nat, NEW c \in Nat, a <= c, NEW r \in Nat,
         \A u \in Nat : a < u /\ u <= c => MarginalRate(u, Brackets(type)) = r
  PROVE  MarginalTax(type, c) = MarginalTax(type, a) + (c - a) * r
<1> DEFINE T(m) == MarginalTax(type, m)
           S == {e \in Nat : a + e <= c => T(a + e) = T(a) + e * r}
<1>1. 0 \in S
  BY MarginalTaxType
<1>2. ASSUME NEW e \in Nat, e \in S PROVE e + 1 \in S
  <2> SUFFICES ASSUME a + (e + 1) <= c PROVE T(a + (e + 1)) = T(a) + (e + 1) * r
    OBVIOUS
  <2>1. T(a + e) = T(a) + e * r
    BY <1>2
  <2>2. a + (e + 1) = (a + e) + 1 /\ a + e \in Nat
    OBVIOUS
  <2>3. T((a + e) + 1) = T(a + e) + MarginalRate((a + e) + 1, Brackets(type))
    BY <2>2, MarginalTaxSteps
  <2>4. MarginalRate((a + e) + 1, Brackets(type)) = r
    BY <2>2
  <2>5. T(a) \in Nat /\ (e + 1) * r = e * r + r
    BY MarginalTaxType
  <2> HIDE DEF T
  <2> QED
    BY <2>1, <2>2, <2>3, <2>4, <2>5
<1> HIDE DEF S
<1>3. c - a \in S
  BY <1>1, <1>2, SetInduction
<1> QED
  BY <1>3 DEF S

\* The tax on n is at most n times the rate of its last unit, and every further
\* unit adds at least that rate.
LEMMA TaxAgainstLastRate ==
  ASSUME NEW type, NEW n \in Nat, NEW m \in Nat, n <= m
  PROVE  LET r == MarginalRate(n, Brackets(type))
         IN  /\ MarginalTax(type, n) <= n * r
             /\ MarginalTax(type, m) >= MarginalTax(type, n) + (m - n) * r
<1> DEFINE T(u) == MarginalTax(type, u)
           r == MarginalRate(n, Brackets(type))
           R(u) == MarginalRate(u, Brackets(type))
<1>1. \A u \in Nat : /\ T(u) \in Nat /\ T(u + 1) = T(u) + R(u + 1) /\ R(u) \in Nat
                     /\ u <= n => R(u) <= r
                     /\ n <= u => r <= R(u)
  BY MarginalTaxType, MarginalTaxSteps, MarginalRateRises, TablesAreBrackets
<1>2. r \in Nat /\ T(0) = 0
  BY <1>1, MarginalTaxSteps
<1> HIDE DEF T, R, r
<1>3. T(n) <= n * r
  <2> DEFINE S == {u \in Nat : u <= n => T(u) <= u * r}
  <2>1. 0 \in S
    BY <1>2
  <2>2. ASSUME NEW u \in Nat, u \in S PROVE u + 1 \in S
    <3>1. (u + 1) * r = u * r + r /\ u * r \in Nat
      BY <1>2
    <3>2. T(u + 1) = T(u) + R(u + 1) /\ T(u) \in Nat /\ R(u + 1) \in Nat
      BY <1>1
    <3>3. u + 1 <= n => R(u + 1) <= r /\ T(u) <= u * r
      BY <1>1, <2>2
    <3> QED
      BY <1>2, <3>1, <3>2, <3>3
  <2> HIDE DEF S
  <2>3. n \in S
    BY <2>1, <2>2, SetInduction
  <2> QED
    BY <2>3 DEF S
<1>4. T(m) >= T(n) + (m - n) * r
  <2> DEFINE S == {e \in Nat : T(n + e) >= T(n) + e * r}
  <2>1. 0 \in S
    BY <1>1, <1>2
  <2>2. ASSUME NEW e \in Nat, e \in S PROVE e + 1 \in S
    <3>1. (e + 1) * r = e * r + r /\ e * r \in Nat /\ n + (e + 1) = (n + e) + 1 /\ n + e \in Nat
      BY <1>2
    <3>2. T((n + e) + 1) = T(n + e) + R((n + e) + 1) /\ T(n + e) \in Nat /\ T(n) \in Nat
          /\ R((n + e) + 1) \in Nat /\ r <= R((n + e) + 1)
      BY <1>1, <3>1
    <3>3. T(n + e) >= T(n) + e * r
      BY <2>2
    <3> QED
      BY <1>2, <3>1, <3>2, <3>3
  <2> HIDE DEF S
  <2>3. m - n \in S
    BY <2>1, <2>2, SetInduction
  <2>4. n + (m - n) = m
    OBVIOUS
  <2> QED
    BY <2>3, <2>4 DEF S
<1> QED
  BY <1>3, <1>4 DEF T, r

-----------------------------------------------------------------------------
(* The tax by the loop over the brackets. *)

StartOfLoop == [tax |-> 0, from |-> 0, done |-> FALSE]

\* acc is the loop's state after each of the first n brackets.
IsLoop(acc, n, income, b) ==
  acc = [k \in 0..n |-> IF k = 0 THEN StartOfLoop ELSE BracketStep(acc[k - 1], b[k], income)]

\* The states of the loop exist, as in SumExists.
LEMMA LoopExists ==
  ASSUME NEW b, NEW income \in Nat, NEW n \in Nat
  PROVE  \E acc : IsLoop(acc, n, income, b)
<1> DEFINE S == {m \in Nat : \E acc : IsLoop(acc, m, income, b)}
<1>1. 0 \in S
  <2>1. IsLoop([u \in 0..0 |-> StartOfLoop], 0, income, b)
    BY DEF IsLoop
  <2> QED
    BY <2>1
<1>2. ASSUME NEW m \in Nat, m \in S PROVE m + 1 \in S
  <2>1. PICK f : IsLoop(f, m, income, b)
    BY <1>2
  <2> DEFINE g == [k \in 0..(m + 1) |-> IF k <= m THEN f[k] ELSE BracketStep(f[m], b[k], income)]
             h == [k \in 0..(m + 1) |->
                     IF k = 0 THEN StartOfLoop ELSE BracketStep(g[k - 1], b[k], income)]
  <2>2. ASSUME NEW k \in 0..(m + 1) PROVE g[k] = h[k]
    <3>1. CASE k = 0
      <4>1. f[0] = StartOfLoop
        BY <2>1 DEF IsLoop
      <4> QED
        BY <3>1, <4>1
    <3>2. CASE k # 0 /\ k <= m
      <4>1. k \in 0..m /\ k - 1 \in 0..(m + 1) /\ k - 1 <= m
        BY <3>2
      <4>2. f[k] = BracketStep(f[k - 1], b[k], income)
        BY <4>1, <3>2, <2>1 DEF IsLoop
      <4>3. g[k] = f[k] /\ g[k - 1] = f[k - 1]
        BY <3>2, <4>1
      <4> QED
        BY <3>2, <4>2, <4>3
    <3>3. CASE k = m + 1
      <4>1. g[k] = BracketStep(f[m], b[k], income) /\ g[k - 1] = f[m]
        BY <3>3
      <4> QED
        BY <3>3, <4>1
    <3> QED
      BY <3>1, <3>2, <3>3
  <2>3. g = h
    BY <2>2
  <2>4. IsLoop(g, m + 1, income, b)
    BY <2>3, Zenon DEF IsLoop
  <2> QED
    BY <2>4
<1> HIDE DEF S
<1>3. n \in S
  BY <1>1, <1>2, SetInduction
<1> QED
  BY <1>3 DEF S

\* What the loop over the brackets of a type has computed after k of them: all
\* of the tax once it has left, before that the tax on the last ceiling.
LoopInv(acc, k, income, type) ==
  /\ acc.done \in BOOLEAN
  /\ acc.done => acc.tax = MarginalTax(type, income)
  /\ ~acc.done =>
       /\ k < Len(Brackets(type))
       /\ acc.from = IF k = 0 THEN 0 ELSE Brackets(type)[k].upTo
       /\ acc.from \in Nat /\ acc.from < income
       /\ acc.tax = MarginalTax(type, acc.from)

\* One pass keeps it.
LEMMA LoopStep ==
  ASSUME NEW type, NEW income \in Nat, income > 0, NEW k \in Nat, k < Len(Brackets(type)),
         NEW acc, LoopInv(acc, k, income, type)
  PROVE  LoopInv(BracketStep(acc, Brackets(type)[k + 1], income), k + 1, income, type)
<1> DEFINE b == Brackets(type)
           next == BracketStep(acc, b[k + 1], income)
           T(u) == MarginalTax(type, u)
           last == b[k + 1].upTo = NoCeiling \/ b[k + 1].upTo > income
           upper == IF last THEN income ELSE b[k + 1].upTo
           rate == b[k + 1].rate
<1>1. IsBracketTable(b)
  BY TablesAreBrackets
<1>2. /\ Len(b) \in Nat /\ k + 1 \in 1..Len(b) /\ rate \in Nat
      /\ k + 1 = Len(b) <=> b[k + 1].upTo = NoCeiling
      /\ k + 1 # Len(b) => b[k + 1].upTo \in Nat
  <2>1. Len(b) \in Nat
    BY <1>1 DEF IsBracketTable
  <2>2. k + 1 \in 1..Len(b)
    BY <2>1
  <2> QED
    BY <1>1, <2>1, <2>2, BracketFacts
<1>3. CASE acc.done
  BY <1>3 DEF LoopInv, BracketStep
<1>4. CASE ~acc.done
  <2>1. /\ acc.from = IF k = 0 THEN 0 ELSE b[k].upTo
        /\ acc.from \in Nat /\ acc.from < income /\ acc.tax = T(acc.from)
    BY <1>4 DEF LoopInv
  <2>2. acc.from <= upper /\ upper \in Nat /\ upper <= income
    <3>1. CASE last
      BY <3>1, <2>1
    <3>2. CASE ~last
      <4>1. b[k + 1].upTo \in Nat /\ b[k + 1].upTo <= income /\ k + 1 < Len(b)
        BY <3>2, <1>2
      <4>2. k # 0 => b[k].upTo <= b[k + 1].upTo
        <5>1. k # 0 => k \in 1..Len(b) /\ k < k + 1
          BY <1>2
        <5> QED
          BY <5>1, <4>1, <1>1, <1>2 DEF IsBracketTable
      <4> QED
        BY <3>2, <4>1, <4>2, <2>1
    <3> QED
      BY <3>1, <3>2
  <2>3. \A u \in Nat : acc.from < u /\ u <= upper => MarginalRate(u, b) = rate
    <3> SUFFICES ASSUME NEW u \in Nat, acc.from < u, u <= upper
                 PROVE  MarginalRate(u, b) = rate
      OBVIOUS
    <3>1. InBracket(u, k + 1, b)
      <4>1. k + 1 = 1 \/ b[(k + 1) - 1].upTo < u
        BY <2>1
      <4>2. k + 1 = Len(b) \/ u <= b[k + 1].upTo
        BY <1>2, <2>2
      <4> QED
        BY <1>2, <4>1, <4>2 DEF InBracket
    <3> QED
      BY <3>1, <1>1, MarginalRateInBracket
  <2>4. /\ next.done = (upper = income) /\ next.from = b[k + 1].upTo
        /\ next.tax = acc.tax + IF upper - acc.from > 0 THEN (upper - acc.from) * rate ELSE 0
    BY <1>4 DEF BracketStep
  <2> HIDE DEF upper, rate, next
  <2>5. T(upper) = T(acc.from) + (upper - acc.from) * rate
    BY <2>1, <2>2, <2>3, <1>2, TaxWithinBracket
  <2>6. T(acc.from) \in Nat
    BY <2>1, MarginalTaxType
  <2> HIDE DEF T
  <2>7. next.tax = T(upper)
    <3>1. CASE upper - acc.from > 0
      BY <3>1, <2>1, <2>4, <2>5
    <3>2. CASE ~(upper - acc.from > 0)
      <4>1. upper = acc.from
        BY <3>2, <2>1, <2>2
      <4> QED
        BY <3>2, <4>1, <2>1, <2>4, <2>6
    <3> QED
      BY <3>1, <3>2
  <2>8. upper # income => ~last /\ k + 1 < Len(b) /\ b[k + 1].upTo = upper
    BY <1>2 DEF upper
  <2>9. next.done \in BOOLEAN /\ (next.done <=> upper = income)
    BY <2>4
  <2>10. next.done => next.tax = MarginalTax(type, income)
    BY <2>7, <2>9 DEF T
  <2>11. ~next.done => /\ k + 1 < Len(b) /\ next.from = b[k + 1].upTo
                       /\ next.from \in Nat /\ next.from < income
                       /\ next.tax = MarginalTax(type, next.from)
    <3> SUFFICES ASSUME upper # income
                 PROVE  /\ k + 1 < Len(b) /\ next.from = b[k + 1].upTo
                        /\ next.from \in Nat /\ next.from < income
                        /\ next.tax = MarginalTax(type, next.from)
      BY <2>9
    <3>1. k + 1 < Len(b) /\ next.from = b[k + 1].upTo /\ next.from = upper
      BY <2>4, <2>8
    <3> QED
      BY <3>1, <2>2, <2>7 DEF T
  <2>12. LoopInv(next, k + 1, income, type)
    BY <2>9, <2>10, <2>11 DEF LoopInv
  <2> QED
    BY <2>12 DEF next
<1> QED
  BY <1>3, <1>4 DEF LoopInv

\* computeTaxFromBrackets is the tax by definition, on every income and at every
\* ceiling, for every table of brackets.
THEOREM TaxIsMarginal ==
  ASSUME NEW type, NEW income \in Nat, income > 0
  PROVE  TaxFromBrackets(income, Brackets(type)) = MarginalTax(type, income)
<1> DEFINE b == Brackets(type)
           n == Len(b)
           A == CHOOSE acc : IsLoop(acc, n, income, b)
           S == {k \in Nat : k <= n => LoopInv(A[k], k, income, type)}
<1>1. IsBracketTable(b) /\ n \in Nat /\ n > 0
  <2>1. IsBracketTable(b)
    BY TablesAreBrackets
  <2>2. b \in Seq([upTo : Nat \cup {NoCeiling}, rate : Nat]) /\ b # <<>>
    BY <2>1 DEF IsBracketTable
  <2> QED
    BY <2>1, <2>2
<1>2. IsLoop(A, n, income, b)
  <2>1. \E acc : IsLoop(acc, n, income, b)
    BY <1>1, LoopExists
  <2> QED
    BY <2>1, Zenon
<1>3. TaxFromBrackets(income, b) = A[n].tax
  BY Zenon DEF TaxFromBrackets, BracketLoop, IsLoop, StartOfLoop
<1> HIDE DEF A
<1>4. 0 \in S
  <2>1. A[0] = StartOfLoop
    BY <1>1, <1>2 DEF IsLoop
  <2>2. MarginalTax(type, 0) = 0
    BY MarginalTaxSteps
  <2>3. LoopInv(StartOfLoop, 0, income, type)
    BY <1>1, <2>2 DEF LoopInv, StartOfLoop
  <2> QED
    BY <2>1, <2>3
<1>5. ASSUME NEW k \in Nat, k \in S PROVE k + 1 \in S
  <2> SUFFICES ASSUME k + 1 <= n PROVE LoopInv(A[k + 1], k + 1, income, type)
    OBVIOUS
  <2>1. k <= n /\ k < n /\ k + 1 \in 0..n /\ k + 1 # 0 /\ (k + 1) - 1 = k
    BY <1>1
  <2>2. A[k + 1] = BracketStep(A[k], b[k + 1], income)
    BY <1>2, <2>1 DEF IsLoop
  <2>3. LoopInv(A[k], k, income, type)
    BY <1>5, <2>1
  <2> QED
    BY <2>1, <2>2, <2>3, LoopStep
<1> HIDE DEF S
<1>6. n \in S
  BY <1>1, <1>4, <1>5, SetInduction
<1>7. LoopInv(A[n], n, income, type)
  BY <1>1, <1>6 DEF S
<1>8. A[n].done
  BY <1>1, <1>7 DEF LoopInv
<1> QED
  BY <1>3, <1>7, <1>8 DEF LoopInv

-----------------------------------------------------------------------------
(* lookupEffectiveRate. *)

\* The effective rate is the tax by definition over the income, to half a
\* millionth.
LEMMA RateIsNear ==
  ASSUME NEW type, NEW income \in Nat, income > 0, NEW rate \in EffectiveRates(type, income)
  PROVE  LET error == rate * income - MarginalTax(type, income) * 10000
         IN  rate \in Nat /\ -income <= 2 * error /\ 2 * error <= income
<1> DEFINE n == MarginalTax(type, income) * 10000
<1>1. n \in Nat
  BY MarginalTaxType
<1>2. rate \in Rounded(n, income)
  BY TaxIsMarginal DEF EffectiveRates
<1> HIDE DEF n
<1>3. rate \in Nat /\ -income <= 2 * (rate * income - n) /\ 2 * (rate * income - n) <= income
  BY <1>1, <1>2, RoundedIsNear
<1> QED
  BY <1>3 DEF n

\* More income never lowers the effective rate, however the two are rounded.
LEMMA RatesRise ==
  ASSUME NEW type, NEW n \in Nat, n > 0, NEW m \in Nat, n < m,
         NEW x \in EffectiveRates(type, n), NEW y \in EffectiveRates(type, m)
  PROVE  x <= y
<1> DEFINE r == MarginalRate(n, Brackets(type))
           R == 10000 * r
           N == MarginalTax(type, n) * 10000
           M == MarginalTax(type, m) * 10000
<1>1. r \in Nat /\ R \in Nat /\ N \in Nat /\ M \in Nat
  BY MarginalTaxType, MarginalRateRises, TablesAreBrackets
<1>2. N <= n * R /\ M >= N + (m - n) * R
  <2> DEFINE Tn == MarginalTax(type, n)
             Tm == MarginalTax(type, m)
  <2>1. Tn <= n * r /\ Tm >= Tn + (m - n) * r /\ Tn \in Nat /\ Tm \in Nat
    BY TaxAgainstLastRate, MarginalTaxType
  <2> HIDE DEF Tn, Tm, r
  <2>2. n * R = 10000 * (n * r) /\ (m - n) * R = 10000 * ((m - n) * r)
    BY <1>1
  <2>3. n * r \in Nat /\ (m - n) * r \in Nat
    BY <1>1
  <2>4. Tn * 10000 <= n * R /\ Tm * 10000 >= Tn * 10000 + (m - n) * R
    BY <2>1, <2>2, <2>3
  <2> QED
    BY <2>4 DEF Tn, Tm
<1>3. /\ x \in Nat /\ -n <= 2 * (x * n - N) /\ 2 * (x * n - N) <= n
      /\ y \in Nat /\ -m <= 2 * (y * m - M) /\ 2 * (y * m - M) <= m
  BY RateIsNear
<1> HIDE DEF r, R, N, M
<1>4. x <= R
  <2> SUFFICES ASSUME R + 1 <= x PROVE FALSE
    BY <1>1, <1>3
  <2>1. (R + 1) * n <= x * n /\ (R + 1) * n = n * R + n /\ n * R \in Nat /\ x * n \in Nat
    BY <1>1, <1>3
  <2> QED
    BY <1>1, <1>2, <1>3, <2>1
<1>5. SUFFICES ASSUME y + 1 <= x PROVE FALSE
  BY <1>3
<1>6. (m - n) * x <= (m - n) * R
  BY <1>1, <1>3, <1>4
<1>7. (y + 1) * m <= x * m
  BY <1>3, <1>5
<1>8. (y + 1) * m = y * m + m /\ (m - n) * x = x * m - x * n
  BY <1>3
<1>9. x * n \in Nat /\ x * m \in Nat /\ y * m \in Nat /\ (m - n) * R \in Nat
  BY <1>1, <1>3
<1> QED
  BY <1>1, <1>2, <1>3, <1>6, <1>7, <1>8, <1>9

-----------------------------------------------------------------------------
(* getSavings. *)

Assumptions == [type : {"INDIVIDUAL", "CORPORATE"}, income : Incomes, isDefault : BOOLEAN]

\* An answer's rate is one that lookupEffectiveRate gives for the assumptions
\* in the same answer.
RateBelongsToAnswer ==
  Answered => /\ response.assumptions \in Assumptions
              /\ response.rate \in EffectiveRates(response.assumptions.type,
                                                  response.assumptions.income)

SavingsInv == SavingsTypeOK /\ RateBelongsToAnswer

\* getProfile gives proper assumptions, with and without a row.
LEMMA ViewOfProfile ==
  ASSUME NEW p \in Profiles \cup {NoProfile}
  PROVE  ProfileView(p) \in Assumptions
BY IncomeAssumption DEF ProfileView, Profiles, NoProfile, Assumptions

\* SavingsInv is inductive.
LEMMA SavingsInit == Init => SavingsInv
<1> SUFFICES ASSUME Init PROVE SavingsInv
  OBVIOUS
<1>1. SavingsTypeOK
  BY ViewOfProfile DEF Init, SavingsTypeOK, Assumptions
<1>2. RateBelongsToAnswer
  BY DEF Init, RateBelongsToAnswer, Answered
<1> QED
  BY <1>1, <1>2 DEF SavingsInv

\* Every action keeps SavingsInv.
LEMMA SavingsStep ==
  ASSUME SavingsInv, [Next]_vars
  PROVE  SavingsInv'
<1> USE DEF SavingsInv
<1>1. ASSUME NEW p \in Profiles, UpsertProfile(p) PROVE SavingsInv'
  BY <1>1 DEF UpsertProfile, SavingsTypeOK, RateBelongsToAnswer, Answered
<1>2. ASSUME NEW i \in InvoiceIds, NEW v \in InvoiceValues, ChangeInvoice(i, v)
      PROVE  SavingsInv'
  BY <1>2 DEF ChangeInvoice, SavingsTypeOK, RateBelongsToAnswer, Answered
<1>3. ASSUME NEW year \in Years, LoadProfile(year) PROVE SavingsInv'
  <2>1. loaded' \in Assumptions
    BY <1>3, ViewOfProfile DEF LoadProfile, SavingsTypeOK
  <2>2. SavingsTypeOK'
    BY <1>3, <2>1 DEF LoadProfile, SavingsTypeOK, Assumptions
  <2>3. RateBelongsToAnswer'
    BY <1>3 DEF LoadProfile, RateBelongsToAnswer, Answered
  <2> QED
    BY <2>2, <2>3
<1>4. ASSUME Answer PROVE SavingsInv'
  <2>1. \E rate \in EffectiveRates(loaded.type, loaded.income) :
          \E savings, expenses, ready, review, excluded :
            response' = [savings |-> savings, expenses |-> expenses, rate |-> rate,
                         assumptions |-> loaded, ready |-> ready,
                         review |-> review, excluded |-> excluded]
    BY <1>4, Zenon DEF Answer
  <2>2. SavingsTypeOK'
    BY <1>4, <2>1 DEF Answer, SavingsTypeOK
  <2>3. RateBelongsToAnswer'
    BY <2>1 DEF SavingsTypeOK, RateBelongsToAnswer, Assumptions
  <2> QED
    BY <2>2, <2>3
<1>5. CASE UNCHANGED vars
  BY <1>5 DEF vars, SavingsTypeOK, RateBelongsToAnswer, Answered
<1> QED
  BY <1>1, <1>2, <1>3, <1>4, <1>5 DEF Next

\* SavingsInv holds in every reachable state.
LEMMA SavingsInvariant == Spec => []SavingsInv
<1>1. SavingsInv /\ [Next]_vars => SavingsInv'
  BY SavingsStep
<1> QED
  BY SavingsInit, <1>1, PTL DEF Spec

\* Every variable stays in its set (the profile, the rows, the answer).
THEOREM SavingsTypeCorrect == Spec => []SavingsTypeOK
<1>1. SavingsInv => SavingsTypeOK
  BY DEF SavingsInv
<1> QED
  BY SavingsInvariant, <1>1, PTL

\* The rate in an answer is the tax by definition on the income of the same
\* answer, over that income, whatever PUT /tax/profile does between the two
\* reads of getSavings.
THEOREM RatesMatch == Spec => []RateMatchesAssumptions
<1>1. ASSUME SavingsInv PROVE RateMatchesAssumptions
  <2> SUFFICES ASSUME Answered PROVE RateMatchesAssumptions
    BY DEF RateMatchesAssumptions
  <2> DEFINE a == response.assumptions
  <2>1. a.income \in Nat /\ response.rate \in EffectiveRates(a.type, a.income)
    BY <1>1, IncomeAssumption DEF SavingsInv, RateBelongsToAnswer, Assumptions
  <2>2. CASE a.income = 0
    BY <2>1, <2>2 DEF EffectiveRates, RateMatchesAssumptions
  <2>3. CASE a.income # 0
    BY <2>1, <2>3, RateIsNear DEF RateMatchesAssumptions
  <2> QED
    BY <2>2, <2>3
<1>2. SavingsInv => RateMatchesAssumptions
  BY <1>1
<1> QED
  BY SavingsInvariant, <1>2, PTL

\* An account with more income is never answered a lower rate.
THEOREM ProgressiveRates == Spec => []RateIsProgressive
<1>1. ASSUME SavingsInv PROVE RateIsProgressive
  <2> SUFFICES ASSUME Answered, response.assumptions.income > 0,
                      NEW income \in Incomes, income > response.assumptions.income,
                      NEW rate \in EffectiveRates(response.assumptions.type, income)
               PROVE  response.rate <= rate
    BY DEF RateIsProgressive
  <2>1. /\ response.assumptions.income \in Nat /\ income \in Nat
        /\ response.rate \in EffectiveRates(response.assumptions.type,
                                            response.assumptions.income)
    BY <1>1, IncomeAssumption DEF SavingsInv, RateBelongsToAnswer, Assumptions
  <2> QED
    BY <2>1, RatesRise
<1>2. SavingsInv => RateIsProgressive
  BY <1>1
<1> QED
  BY SavingsInvariant, <1>2, PTL

-----------------------------------------------------------------------------
(* Sums over finite sets. *)

Pick(s) == CHOOSE x \in s : TRUE

\* f sums w over each of the sets in D, one picked element at a time.
IsSetSum(f, w, D) ==
  f = [s \in D |-> IF s = {} THEN 0 ELSE w[Pick(s)] + f[s \ {Pick(s)}]]

\* Taking the picked element out leaves a smaller finite set.
LEMMA PickRemoves ==
  ASSUME NEW S, IsFiniteSet(S), S # {}
  PROVE  /\ Pick(S) \in S
         /\ Cardinality(S) \in Nat /\ Cardinality(S) > 0
         /\ IsFiniteSet(S \ {Pick(S)}) /\ Cardinality(S \ {Pick(S)}) = Cardinality(S) - 1
<1>1. Pick(S) \in S
  BY Zenon DEF Pick
<1>2. Cardinality(S) \in Nat /\ Cardinality(S) # 0
  BY FS_CardinalityType, FS_EmptySet
<1> QED
  BY <1>1, <1>2, FS_RemoveElement

\* The recursion of MapThenFoldSet has a solution on the subsets of a finite set.
LEMMA SetSumExists ==
  ASSUME NEW w, NEW S, IsFiniteSet(S)
  PROVE  \E f : IsSetSum(f, w, SUBSET S)
<1> DEFINE D(m) == {s \in SUBSET S : Cardinality(s) <= m}
           U == {m \in Nat : \E f : IsSetSum(f, w, D(m))}
<1>1. \A s \in SUBSET S : IsFiniteSet(s) /\ Cardinality(s) \in Nat
  BY FS_Subset, FS_CardinalityType
<1>2. 0 \in U
  <2> DEFINE g == [s \in D(0) |-> 0]
             h == [s \in D(0) |-> IF s = {} THEN 0 ELSE w[Pick(s)] + g[s \ {Pick(s)}]]
  <2>1. \A s \in D(0) : s = {}
    BY <1>1, FS_EmptySet
  <2>2. g = h
    BY <2>1
  <2>3. IsSetSum(g, w, D(0))
    BY <2>2, Zenon DEF IsSetSum
  <2> QED
    BY <2>3
<1>3. ASSUME NEW m \in Nat, m \in U PROVE m + 1 \in U
  <2>1. PICK f : IsSetSum(f, w, D(m))
    BY <1>3
  <2> DEFINE g == [s \in D(m + 1) |-> IF s \in D(m) THEN f[s]
                                      ELSE w[Pick(s)] + f[s \ {Pick(s)}]]
             h == [s \in D(m + 1) |-> IF s = {} THEN 0 ELSE w[Pick(s)] + g[s \ {Pick(s)}]]
  <2>2. {} \in D(m) /\ \A s \in D(m) : s \in D(m + 1)
    BY <1>1, FS_EmptySet
  <2>3. ASSUME NEW s \in D(m + 1), s # {} PROVE s \ {Pick(s)} \in D(m)
    <3>1. s \in SUBSET S /\ IsFiniteSet(s) /\ Cardinality(s) <= m + 1
      BY <1>1
    <3>2. Cardinality(s \ {Pick(s)}) = Cardinality(s) - 1 /\ Cardinality(s) \in Nat
      BY <2>3, <3>1, PickRemoves
    <3> QED
      BY <3>1, <3>2
  <2> HIDE DEF D
  <2>4. ASSUME NEW s \in D(m + 1) PROVE g[s] = h[s]
    <3>1. CASE s = {}
      BY <3>1, <2>1, <2>2 DEF IsSetSum
    <3>2. CASE s # {}
      <4>1. s \ {Pick(s)} \in D(m) /\ s \ {Pick(s)} \in D(m + 1)
        BY <3>2, <2>2, <2>3
      <4>2. g[s \ {Pick(s)}] = f[s \ {Pick(s)}]
        BY <4>1
      <4>3. s \in D(m) => f[s] = w[Pick(s)] + f[s \ {Pick(s)}]
        BY <3>2, <2>1 DEF IsSetSum
      <4> QED
        BY <3>2, <4>2, <4>3
    <3> QED
      BY <3>1, <3>2
  <2>5. g = h
    BY <2>4
  <2>6. IsSetSum(g, w, D(m + 1))
    BY <2>5, Zenon DEF IsSetSum
  <2> QED
    BY <2>6
<1>4. Cardinality(S) \in U
  <2> HIDE DEF U
  <2>1. Cardinality(S) \in Nat
    BY FS_CardinalityType
  <2> QED
    BY <1>2, <1>3, <2>1, SetInduction
<1>5. D(Cardinality(S)) = SUBSET S
  BY FS_Subset
<1> HIDE DEF D
<1> QED
  BY <1>4, <1>5

\* Two solutions agree where both are defined.
LEMMA SetSumsAgree ==
  ASSUME NEW w, NEW S, NEW T, NEW f, NEW g, IsSetSum(f, w, SUBSET S), IsSetSum(g, w, SUBSET T),
         NEW c \in SUBSET S, c \in SUBSET T, IsFiniteSet(c)
  PROVE  f[c] = g[c]
<1> DEFINE U == {m \in Nat : \A s \in SUBSET c : Cardinality(s) = m => f[s] = g[s]}
<1>1. \A s \in SUBSET c : IsFiniteSet(s) /\ Cardinality(s) \in Nat
  BY FS_Subset, FS_CardinalityType
<1>2. f[{}] = 0 /\ g[{}] = 0
  BY DEF IsSetSum
<1>3. 0 \in U
  BY <1>1, <1>2, FS_EmptySet
<1>4. ASSUME NEW m \in Nat, m \in U PROVE m + 1 \in U
  <2> SUFFICES ASSUME NEW s \in SUBSET c, Cardinality(s) = m + 1 PROVE f[s] = g[s]
    OBVIOUS
  <2>1. s # {}
    BY FS_EmptySet
  <2>2. s \ {Pick(s)} \in SUBSET c /\ Cardinality(s \ {Pick(s)}) = m
    BY <2>1, <1>1, PickRemoves
  <2>3. f[s \ {Pick(s)}] = g[s \ {Pick(s)}]
    BY <2>2, <1>4
  <2>4. s \in SUBSET S /\ s \in SUBSET T
    OBVIOUS
  <2> QED
    BY <2>1, <2>3, <2>4 DEF IsSetSum
<1> HIDE DEF U
<1>5. Cardinality(c) \in U
  BY <1>1, <1>3, <1>4, SetInduction
<1> QED
  BY <1>5 DEF U

\* SumFunctionOnSet as an equation for each picked element.
LEMMA SumSteps ==
  ASSUME NEW w, NEW S, IsFiniteSet(S)
  PROVE  /\ SumFunctionOnSet(w, {}) = 0
         /\ S # {} => SumFunctionOnSet(w, S)
                        = w[Pick(S)] + SumFunctionOnSet(w, S \ {Pick(S)})
<1> DEFINE F(s) == CHOOSE f : IsSetSum(f, w, SUBSET s)
<1>1. ASSUME NEW s, IsFiniteSet(s)
      PROVE  SumFunctionOnSet(w, s) = F(s)[s] /\ IsSetSum(F(s), w, SUBSET s)
  <2>1. \E f : IsSetSum(f, w, SUBSET s)
    BY <1>1, SetSumExists
  <2>2. IsSetSum(F(s), w, SUBSET s)
    BY <2>1, Zenon
  <2>3. SumFunctionOnSet(w, s) = F(s)[s]
    BY Zenon DEF SumFunctionOnSet, FoldFunctionOnSet, MapThenFoldSet, IsSetSum, Pick
  <2> QED
    BY <2>2, <2>3
<1> HIDE DEF F
<1>2. SumFunctionOnSet(w, {}) = 0
  BY <1>1, FS_EmptySet DEF IsSetSum
<1>3. ASSUME S # {}
      PROVE  SumFunctionOnSet(w, S) = w[Pick(S)] + SumFunctionOnSet(w, S \ {Pick(S)})
  <2> DEFINE R == S \ {Pick(S)}
  <2>1. IsFiniteSet(R) /\ R \in SUBSET S /\ S \in SUBSET S /\ R \in SUBSET R
    BY <1>3, PickRemoves
  <2>2. F(S)[S] = w[Pick(S)] + F(S)[R]
    BY <1>1, <1>3, <2>1 DEF IsSetSum
  <2> HIDE DEF R
  <2>3. F(S)[R] = F(R)[R]
    <3>1. IsSetSum(F(S), w, SUBSET S) /\ IsSetSum(F(R), w, SUBSET R)
      BY <1>1, <2>1
    <3> QED
      BY <2>1, <3>1, SetSumsAgree
  <2>4. SumFunctionOnSet(w, S) = w[Pick(S)] + SumFunctionOnSet(w, R)
    BY <1>1, <2>1, <2>2, <2>3
  <2> QED
    BY <2>4 DEF R
<1> QED
  BY <1>2, <1>3

\* A sum of naturals is a natural.
LEMMA SumType ==
  ASSUME NEW w, NEW S, IsFiniteSet(S), \A x \in S : w[x] \in Nat
  PROVE  SumFunctionOnSet(w, S) \in Nat
<1> DEFINE U == {m \in Nat : \A s \in SUBSET S : Cardinality(s) = m => SumFunctionOnSet(w, s) \in Nat}
<1>1. \A s \in SUBSET S : IsFiniteSet(s) /\ Cardinality(s) \in Nat
  BY FS_Subset, FS_CardinalityType
<1>2. 0 \in U
  BY <1>1, FS_EmptySet, SumSteps
<1>3. ASSUME NEW m \in Nat, m \in U PROVE m + 1 \in U
  <2> SUFFICES ASSUME NEW s \in SUBSET S, Cardinality(s) = m + 1
               PROVE  SumFunctionOnSet(w, s) \in Nat
    OBVIOUS
  <2>1. s # {} /\ IsFiniteSet(s)
    BY <1>1, FS_EmptySet
  <2>2. Pick(s) \in S /\ s \ {Pick(s)} \in SUBSET S /\ Cardinality(s \ {Pick(s)}) = m
    BY <2>1, PickRemoves
  <2>3. SumFunctionOnSet(w, s \ {Pick(s)}) \in Nat
    BY <2>2, <1>3
  <2>4. SumFunctionOnSet(w, s) = w[Pick(s)] + SumFunctionOnSet(w, s \ {Pick(s)})
    BY <2>1, SumSteps
  <2> QED
    BY <2>2, <2>3, <2>4
<1> HIDE DEF U
<1>4. Cardinality(S) \in U
  BY <1>1, <1>2, <1>3, SetInduction
<1> QED
  BY <1>4 DEF U

\* Any element can be taken out, not only the picked one: the sum does not
\* depend on an order.
LEMMA SumRemove ==
  ASSUME NEW w, NEW S, IsFiniteSet(S), \A x \in S : w[x] \in Nat, NEW e \in S
  PROVE  SumFunctionOnSet(w, S) = w[e] + SumFunctionOnSet(w, S \ {e})
<1> DEFINE Total(s) == SumFunctionOnSet(w, s)
           U == {m \in Nat : \A s \in SUBSET S : \A x \in s :
                   Cardinality(s) = m => Total(s) = w[x] + Total(s \ {x})}
<1>1. \A s \in SUBSET S : IsFiniteSet(s) /\ Cardinality(s) \in Nat /\ Total(s) \in Nat
  BY FS_Subset, FS_CardinalityType, SumType
<1>2. 0 \in U
  BY <1>1, FS_EmptySet
<1>3. ASSUME NEW m \in Nat, m \in U PROVE m + 1 \in U
  <2> SUFFICES ASSUME NEW s \in SUBSET S, NEW x \in s, Cardinality(s) = m + 1
               PROVE  Total(s) = w[x] + Total(s \ {x})
    OBVIOUS
  <2> DEFINE p == Pick(s)
             both == (s \ {p}) \ {x}
  <2>1. s # {} /\ IsFiniteSet(s)
    BY <1>1
  <2>2. p \in s /\ Total(s) = w[p] + Total(s \ {p})
    BY <2>1, PickRemoves, SumSteps
  <2>3. CASE p = x
    BY <2>2, <2>3
  <2>4. CASE p # x
    <3> HIDE DEF p, Total
    <3>1. /\ s \ {p} \in SUBSET S /\ x \in s \ {p} /\ Cardinality(s \ {p}) = m
          /\ s \ {x} \in SUBSET S /\ p \in s \ {x} /\ Cardinality(s \ {x}) = m
      <4>1. Cardinality(s \ {p}) = m /\ Cardinality(s \ {x}) = m
        <5>1. \A y \in s : Cardinality(s \ {y}) = Cardinality(s) - 1
          BY <2>1, FS_RemoveElement
        <5> QED
          BY <2>2, <5>1
      <4> QED
        BY <2>2, <2>4, <4>1
    <3>2. Total(s \ {p}) = w[x] + Total(both)
      BY <3>1, <1>3
    <3>3. Total(s \ {x}) = w[p] + Total(both)
      <4>1. (s \ {x}) \ {p} = both
        OBVIOUS
      <4>2. Total(s \ {x}) = w[p] + Total((s \ {x}) \ {p})
        BY <3>1, <1>3
      <4> QED
        BY <4>1, <4>2
    <3>4. w[p] \in Nat /\ w[x] \in Nat /\ both \in SUBSET S
      BY <2>2
    <3>5. Total(both) \in Nat
      BY <3>4, <1>1
    <3> HIDE DEF both
    <3> QED
      BY <2>2, <3>2, <3>3, <3>4, <3>5
  <2> QED
    BY <2>3, <2>4
<1>4. Cardinality(S) \in U
  <2> HIDE DEF U
  <2> QED
    BY <1>1, <1>2, <1>3, SetInduction
<1> QED
  BY <1>4

-----------------------------------------------------------------------------
(* computeDeductibleExpenses. *)

\* sum holds the loop's state after each of the first n invoices.
IsCount(sum, n, rows) ==
  sum = [k \in 0..n |-> IF k = 0 THEN NothingCounted ELSE CountInvoice(sum[k - 1], rows[k])]

\* They exist, as in SumExists.
LEMMA CountExists ==
  ASSUME NEW rows, NEW n \in Nat
  PROVE  \E sum : IsCount(sum, n, rows)
<1> DEFINE S == {m \in Nat : \E sum : IsCount(sum, m, rows)}
<1>1. 0 \in S
  <2>1. IsCount([k \in 0..0 |-> NothingCounted], 0, rows)
    BY DEF IsCount
  <2> QED
    BY <2>1
<1>2. ASSUME NEW m \in Nat, m \in S PROVE m + 1 \in S
  <2>1. PICK f : IsCount(f, m, rows)
    BY <1>2
  <2> DEFINE g == [k \in 0..(m + 1) |-> IF k <= m THEN f[k] ELSE CountInvoice(f[m], rows[k])]
             h == [k \in 0..(m + 1) |->
                     IF k = 0 THEN NothingCounted ELSE CountInvoice(g[k - 1], rows[k])]
  <2>2. ASSUME NEW k \in 0..(m + 1) PROVE g[k] = h[k]
    <3>1. CASE k = 0
      <4>1. f[0] = NothingCounted
        BY <2>1 DEF IsCount
      <4> QED
        BY <3>1, <4>1
    <3>2. CASE k # 0 /\ k <= m
      <4>1. k \in 0..m /\ k - 1 \in 0..(m + 1) /\ k - 1 <= m
        BY <3>2
      <4>2. f[k] = CountInvoice(f[k - 1], rows[k])
        BY <4>1, <3>2, <2>1 DEF IsCount
      <4>3. g[k] = f[k] /\ g[k - 1] = f[k - 1]
        BY <3>2, <4>1
      <4> QED
        BY <3>2, <4>2, <4>3
    <3>3. CASE k = m + 1
      <4>1. g[k] = CountInvoice(f[m], rows[k]) /\ g[k - 1] = f[m]
        BY <3>3
      <4> QED
        BY <3>3, <4>1
    <3> QED
      BY <3>1, <3>2, <3>3
  <2>3. g = h
    BY <2>2
  <2>4. IsCount(g, m + 1, rows)
    BY <2>3, Zenon DEF IsCount
  <2> QED
    BY <2>4
<1> HIDE DEF S
<1>3. n \in S
  BY <1>1, <1>2, SetInduction
<1> QED
  BY <1>3 DEF S

\* The rows the answer counts, and what each of them is worth.
IsCounted(v) ==
  v.status = "COMPLETED" /\ v.year = TaxYear /\ v.amount > 0 /\ v.hasTaxId

Worth(rows) ==
  [i \in {j \in InvoiceIds : IsCounted(rows[j])} |-> rows[i].amount * Weight[rows[i].category]]

\* One row more: what CountInvoice adds.
LEMMA CountInvoiceAdds ==
  ASSUME NEW v \in InvoiceValues, NEW sum,
         sum \in [ready : Nat, review : Nat, excluded : Nat, expenses : Nat]
  PROVE  LET next == CountInvoice(sum, v)
         IN  /\ next \in [ready : Nat, review : Nat, excluded : Nat, expenses : Nat]
             /\ next.ready + next.review + next.excluded
                  = sum.ready + sum.review + sum.excluded + 1
             /\ IsCounted(v) => /\ v.amount * Weight[v.category] \in Nat
                                /\ next.ready = sum.ready + 1
                                /\ next.expenses = sum.expenses + v.amount * Weight[v.category]
             /\ ~IsCounted(v) => next.ready = sum.ready /\ next.expenses = sum.expenses
<1>1. /\ v.amount \in Int /\ v.hasTaxId \in BOOLEAN /\ Weight[v.category] \in Nat
      /\ TaxYear # None
  BY InvoiceAssumption DEF None
<1>2. CASE Classify(v) = "ready"
  <2>1. IsCounted(v)
    BY <1>1, <1>2 DEF Classify, IsCounted, isReady, isInTaxYear
  <2>2. v.amount * Weight[v.category] \in Nat
    BY <1>1, <2>1 DEF IsCounted
  <2> DEFINE worth == v.amount * Weight[v.category]
  <2>3. CountInvoice(sum, v) = [sum EXCEPT !.ready = @ + 1, !.expenses = @ + worth]
    BY <1>2 DEF CountInvoice
  <2> HIDE DEF worth
  <2>4. CountInvoice(sum, v) = [ready |-> sum.ready + 1, review |-> sum.review,
                                excluded |-> sum.excluded, expenses |-> sum.expenses + worth]
    BY <2>3
  <2>5. worth \in Nat
    BY <2>2 DEF worth
  <2> HIDE DEF IsCounted
  <2> QED
    BY <2>1, <2>4, <2>5 DEF worth
<1>3. CASE Classify(v) = "review"
  <2>1. ~IsCounted(v)
    BY <1>1, <1>3 DEF Classify, IsCounted, isReady, isInTaxYear
  <2>2. CountInvoice(sum, v) = [sum EXCEPT !.review = @ + 1, !.expenses = @ + 0]
    BY <1>3 DEF CountInvoice
  <2>3. CountInvoice(sum, v) = [ready |-> sum.ready, review |-> sum.review + 1,
                                excluded |-> sum.excluded, expenses |-> sum.expenses + 0]
    BY <2>2
  <2> QED
    BY <2>1, <2>3
<1>4. CASE Classify(v) = "excluded"
  <2>1. ~IsCounted(v)
    BY <1>1, <1>4 DEF Classify, IsCounted, isReady, isInTaxYear
  <2>2. CountInvoice(sum, v) = [sum EXCEPT !.excluded = @ + 1, !.expenses = @ + 0]
    BY <1>4 DEF CountInvoice
  <2>3. CountInvoice(sum, v) = [ready |-> sum.ready, review |-> sum.review,
                                excluded |-> sum.excluded + 1, expenses |-> sum.expenses + 0]
    BY <2>2
  <2> QED
    BY <2>1, <2>3
<1> QED
  BY <1>2, <1>3, <1>4 DEF Classify

\* The loop over the rows, in any order, computes the counts and the sum over
\* the set of counted rows.
LEMMA LoopCounts ==
  ASSUME NEW rows \in [InvoiceIds -> InvoiceValues], NEW order \in SetToSeqs(InvoiceIds)
  PROVE  LET sum == DeductibleLoop([k \in DOMAIN order |-> rows[order[k]]])
         IN  /\ sum.expenses \in Nat /\ sum.expenses = SumFunction(Worth(rows))
             /\ sum.ready = Cardinality({i \in InvoiceIds : IsCounted(rows[i])})
             /\ sum.ready + sum.review + sum.excluded = Cardinality(InvoiceIds)
<1> DEFINE N == Cardinality(InvoiceIds)
           seq == [k \in DOMAIN order |-> rows[order[k]]]
           A == CHOOSE sum : IsCount(sum, N, seq)
           counted == {i \in InvoiceIds : IsCounted(rows[i])}
           w == Worth(rows)
           Seen(k) == {i \in counted : \E j \in 1..k : order[j] = i}
<1>1. N \in Nat /\ IsFiniteSet(InvoiceIds)
  BY InvoiceAssumption, FS_CardinalityType
<1>2. /\ order \in [1..N -> InvoiceIds] /\ DOMAIN order = 1..N
      /\ \A j, k \in 1..N : j # k => order[j] # order[k]
  BY DEF SetToSeqs
<1>3. \A i \in InvoiceIds : \E j \in 1..N : order[j] = i
  <2>1. order \in Injection(1..N, InvoiceIds)
    BY <1>2 DEF Injection, IsInjective
  <2>2. Cardinality(1..N) = N
    <3>1. Cardinality(1..N) = IF 1 > N THEN 0 ELSE N - 1 + 1
      BY <1>1, FS_Interval
    <3> QED
      BY <1>1, <3>1
  <2>3. order \in Surjection(1..N, InvoiceIds)
    BY <1>1, <2>1, <2>2, FS_Injection
  <2> QED
    BY <2>3 DEF Surjection
<1>4. seq \in Seq(InvoiceValues) /\ Len(seq) = N /\ \A k \in 1..N : seq[k] = rows[order[k]]
  <2>1. seq \in [1..N -> InvoiceValues]
    BY <1>2
  <2>2. \A k \in 1..N : seq[k] = rows[order[k]]
    BY <1>2
  <2> HIDE DEF seq, N
  <2> QED
    BY <1>1, <2>1, <2>2
<1>5. DeductibleLoop(seq) = A[N] /\ IsCount(A, N, seq)
  <2>1. \E sum : IsCount(sum, N, seq)
    BY <1>1, CountExists
  <2>2. IsCount(A, N, seq)
    BY <2>1, Zenon
  <2>3. DeductibleLoop(seq) = (CHOOSE sum : IsCount(sum, Len(seq), seq))[Len(seq)]
    BY Zenon DEF DeductibleLoop, IsCount
  <2> QED
    BY <1>4, <2>2, <2>3
<1>6. /\ counted \in SUBSET InvoiceIds /\ DOMAIN w = counted
      /\ \A i \in counted : w[i] = rows[i].amount * Weight[rows[i].category]
  BY DEF Worth
<1>7. \A i \in counted : w[i] \in Nat
  <2> SUFFICES ASSUME NEW i \in counted PROVE rows[i].amount * Weight[rows[i].category] \in Nat
    BY <1>6
  <2>1. rows[i] \in InvoiceValues /\ IsCounted(rows[i])
    OBVIOUS
  <2> QED
    BY <2>1, InvoiceAssumption DEF IsCounted
<1> HIDE DEF A, seq, w, N
<1> DEFINE LoopOK(sum, k) ==
             /\ sum \in [ready : Nat, review : Nat, excluded : Nat, expenses : Nat]
             /\ sum.ready + sum.review + sum.excluded = k
             /\ sum.ready = Cardinality(Seen(k))
             /\ sum.expenses = SumFunctionOnSet(w, Seen(k))
           S == {k \in Nat : k <= N => LoopOK(A[k], k)}
<1>8. 0 \in S
  <2>1. A[0] = NothingCounted
    BY <1>1, <1>5 DEF IsCount
  <2>2. Seen(0) = {}
    OBVIOUS
  <2>3. Cardinality({}) = 0 /\ SumFunctionOnSet(w, {}) = 0
    BY FS_EmptySet, SumSteps
  <2> HIDE DEF Seen
  <2>4. NothingCounted \in [ready : Nat, review : Nat, excluded : Nat, expenses : Nat]
    BY DEF NothingCounted
  <2>5. LoopOK(NothingCounted, 0)
    BY <2>2, <2>3, <2>4 DEF NothingCounted
  <2> QED
    BY <2>1, <2>5
<1>9. ASSUME NEW k \in Nat, k \in S PROVE k + 1 \in S
  <2> SUFFICES ASSUME k + 1 <= N PROVE LoopOK(A[k + 1], k + 1)
    OBVIOUS
  <2> DEFINE i == order[k + 1]
             v == rows[i]
  <2>1. k + 1 \in 1..N /\ k + 1 \in 0..N /\ k + 1 # 0 /\ (k + 1) - 1 = k
    BY <1>1
  <2>2. i \in InvoiceIds /\ v \in InvoiceValues
    BY <1>2, <2>1
  <2>3. A[k + 1] = CountInvoice(A[k], v)
    BY <1>4, <1>5, <2>1 DEF IsCount
  <2>4. LoopOK(A[k], k)
    BY <1>1, <1>9
  <2>5. IsFiniteSet(Seen(k)) /\ IsFiniteSet(Seen(k + 1))
    BY <1>1, FS_Subset
  <2>6. i \notin Seen(k)
    BY <1>1, <1>2, <2>1
  <2>7. \A j : j \in 1..(k + 1) <=> j \in 1..k \/ j = k + 1
    OBVIOUS
  <2> HIDE DEF i
  <2>8. CASE IsCounted(v)
    <3>1. i \in counted
      BY <2>2, <2>8
    <3>2. Seen(k + 1) = Seen(k) \cup {i}
      BY <2>7, <3>1 DEF i
    <3>3. i \in Seen(k + 1) /\ Seen(k + 1) \ {i} = Seen(k)
      BY <3>2, <2>6
    <3>4. Cardinality(Seen(k + 1)) = Cardinality(Seen(k)) + 1
      BY <3>2, <2>5, <2>6, FS_AddElement
    <3>5. SumFunctionOnSet(w, Seen(k + 1)) = w[i] + SumFunctionOnSet(w, Seen(k))
      <4>1. \A x \in Seen(k + 1) : w[x] \in Nat
        BY <1>7
      <4>2. SumFunctionOnSet(w, Seen(k + 1)) = w[i] + SumFunctionOnSet(w, Seen(k + 1) \ {i})
        <5> HIDE DEF Seen
        <5> QED
          BY <2>5, <3>3, <4>1, SumRemove
      <4> QED
        BY <3>3, <4>2
    <3>6. w[i] = v.amount * Weight[v.category] /\ w[i] \in Nat
      BY <1>6, <1>7, <3>1
    <3> HIDE DEF Seen, v
    <3>7. /\ A[k + 1] \in [ready : Nat, review : Nat, excluded : Nat, expenses : Nat]
          /\ A[k + 1].ready + A[k + 1].review + A[k + 1].excluded = k + 1
          /\ A[k + 1].ready = A[k].ready + 1
          /\ A[k + 1].expenses = A[k].expenses + w[i]
      BY <2>2, <2>3, <2>4, <2>8, <3>6, CountInvoiceAdds
    <3> QED
      BY <2>4, <3>4, <3>5, <3>6, <3>7
  <2>9. CASE ~IsCounted(v)
    <3>1. i \notin counted
      BY <2>9
    <3>2. Seen(k + 1) = Seen(k)
      BY <2>7, <3>1 DEF i
    <3> HIDE DEF Seen, v
    <3>3. /\ A[k + 1] \in [ready : Nat, review : Nat, excluded : Nat, expenses : Nat]
          /\ A[k + 1].ready + A[k + 1].review + A[k + 1].excluded = k + 1
          /\ A[k + 1].ready = A[k].ready
          /\ A[k + 1].expenses = A[k].expenses
      BY <2>2, <2>3, <2>4, <2>9, CountInvoiceAdds
    <3> QED
      BY <2>4, <3>2, <3>3
  <2> QED
    BY <2>8, <2>9
<1>10. LoopOK(A[N], N)
  <2> HIDE DEF S, LoopOK
  <2>1. N \in S
    BY <1>1, <1>8, <1>9, SetInduction
  <2> QED
    BY <1>1, <2>1 DEF S
<1>11. Seen(N) = counted
  BY <1>3
<1>12. SumFunction(w) = SumFunctionOnSet(w, counted)
  BY <1>6 DEF SumFunction
<1> QED
  BY <1>5, <1>10, <1>11, <1>12 DEF seq, w, N

\* An answer counts every row once, and its expenses are the weighted sum over
\* the rows that count, to half a satang, in whatever order the rows came.
THEOREM ExpensesAreExact == Spec => ExpensesMatchRows
<1> DEFINE counted == {i \in InvoiceIds :
                         /\ invoices[i].status = "COMPLETED"
                         /\ invoices[i].year = TaxYear
                         /\ invoices[i].amount > 0 /\ invoices[i].hasTaxId}
           exact == SumFunction([i \in counted |->
                                   invoices[i].amount * Weight[invoices[i].category]])
           error == response'.expenses * 100 - exact
           Exact == Answered' /\ ~Answered =>
                      /\ -50 <= error /\ error <= 50
                      /\ response'.ready = Cardinality(counted)
                      /\ response'.ready + response'.review + response'.excluded
                           = Cardinality(InvoiceIds)
<1>1. ASSUME SavingsInv, [Next]_vars PROVE [Exact]_vars
  <2> SUFFICES ASSUME Next, Answered', ~Answered PROVE Exact
    BY <1>1
  <2>1. Answer
    BY DEF Next, UpsertProfile, ChangeInvoice, LoadProfile, Answered
  <2>2. PICK order \in SetToSeqs(InvoiceIds) :
          LET sum == DeductibleLoop([k \in DOMAIN order |-> invoices[order[k]]])
          IN  \E expenses \in Rounded(sum.expenses, 100) : \E rate, savings :
                response' = [savings |-> savings, expenses |-> expenses, rate |-> rate,
                             assumptions |-> loaded, ready |-> sum.ready,
                             review |-> sum.review, excluded |-> sum.excluded]
    BY <2>1, Zenon DEF Answer
  <2> DEFINE sum == DeductibleLoop([k \in DOMAIN order |-> invoices[order[k]]])
  <2>3. counted = {i \in InvoiceIds : IsCounted(invoices[i])} /\ exact = SumFunction(Worth(invoices))
    BY Zenon DEF Worth, IsCounted
  <2>4. invoices \in [InvoiceIds -> InvoiceValues]
    BY <1>1 DEF SavingsInv, SavingsTypeOK
  <2> HIDE DEF counted, exact
  <2>5. /\ sum.expenses \in Nat /\ sum.expenses = exact
        /\ sum.ready = Cardinality(counted)
        /\ sum.ready + sum.review + sum.excluded = Cardinality(InvoiceIds)
    BY <2>3, <2>4, LoopCounts
  <2> HIDE DEF sum
  <2>6. /\ response'.expenses \in Rounded(sum.expenses, 100)
        /\ response'.ready = sum.ready /\ response'.review = sum.review
        /\ response'.excluded = sum.excluded
    BY <2>2 DEF sum
  <2>7. -50 <= error /\ error <= 50
    BY <2>5, <2>6, RoundedIsNear
  <2> QED
    BY <2>5, <2>6, <2>7
<1>2. SavingsInv /\ [Next]_vars => [Exact]_vars
  BY <1>1
<1> QED
  BY <1>2, SavingsInvariant, PTL DEF Spec, ExpensesMatchRows
=============================================================================
