SPECIFICATION Spec
CONSTANTS
  alice = alice
  Invoices = {i1, i2}
  Users = {alice}
  Owner <- OneOwner
  DemoUser = {}
  Keys = {k1}
  NoKey = NoKey
  Workers = {w1}
  NoWorker = NoWorker
  NoInvoice = NoInvoice
  Requests = {r1}
  Ops = {"patch"}
  Faults = {}
  StallBudget = 0
INVARIANT
  DuplicatesAreMarked
CHECK_DEADLOCK FALSE
