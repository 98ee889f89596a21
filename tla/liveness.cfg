\* Every call ends, so the system stops: no deadlock check.
SPECIFICATION RetrySpec
CONSTANTS
  alice = alice
  Invoices = {i1}
  Users = {alice}
  Owner <- OneOwner
  DemoUser = {}
  Keys = {k1}
  NoKey = NoKey
  Workers = {w1, w2}
  NoWorker = NoWorker
  NoInvoice = NoInvoice
  Requests = {r1, r2}
  Ops = {"delete"}
  Faults = {"storage", "redis", "crash"}
  StallBudget = 1
PROPERTIES
  AcceptedIsSettled
  DeleteConverges
CHECK_DEADLOCK FALSE
