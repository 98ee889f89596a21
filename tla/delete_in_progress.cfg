SPECIFICATION Spec
CONSTANTS
  alice = alice
  Invoices = {i1}
  Users = {alice}
  Owner <- OneOwner
  DemoUser = {}
  Keys = {k1}
  NoKey = NoKey
  Workers = {w1}
  NoWorker = NoWorker
  NoInvoice = NoInvoice
  Requests = {r1}
  Ops = {"delete"}
  Faults = {}
  StallBudget = 0
INVARIANT
  DeleteInEveryStatus
CHECK_DEADLOCK FALSE
