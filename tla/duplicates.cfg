\* Every call ends, so the system stops: no deadlock check.
SPECIFICATION HistorySpec
CONSTANTS
  i3 = i3
  alice = alice
  bob = bob
  Invoices = {i1, i2, i3}
  Users = {alice, bob}
  Owner <- TwoOwners
  DemoUser = {}
  Keys = {k1, k2}
  NoKey = NoKey
  Workers = {w1}
  NoWorker = NoWorker
  NoInvoice = NoInvoice
  Requests = {r1}
  Ops = {"delete", "patch"}
  Faults = {}
  StallBudget = 1
SYMMETRY AliceSymmetric
INVARIANTS
  UniqueCompleted
  
CHECK_DEADLOCK FALSE
