\* Every call ends, so the system stops: no deadlock check.
SPECIFICATION Spec
CONSTANTS
  alice = alice
  Invoices = {i1, i2}
  Users = {alice}
  Owner <- OneOwner
  DemoUser = {alice}
  Keys = {k1}
  NoKey = NoKey
  Workers = {w1, w2}
  NoWorker = NoWorker
  NoInvoice = NoInvoice
  Requests = {r1, r2, r3}
  Ops = {"delete", "patch", "getFile"}
  Faults = {"storage", "database", "redis", "crash"}
  StallBudget = 0
SYMMETRY AllSymmetric
INVARIANTS
  TypeOK
  NoOrphanObject
  NoDanglingRow
  FileMissingOnlyAfterDelete
PROPERTIES
  ImplementsLifecycle
CHECK_DEADLOCK FALSE
