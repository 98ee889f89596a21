\* Every call ends, so the system stops: no deadlock check.
SPECIFICATION Spec
CONSTANTS
  alice = alice
  Invoices = {i1}
  Users = {alice}
  Owner <- OneOwner
  DemoUser = {}
  Keys = {k1}
  NoKey = NoKey
  Workers = {w1, w2}
  NoWorker = NoWorker
  NoInvoice = NoInvoice
  Requests = {r1, r2, r3}
  Ops = {"delete", "patch"}
  Faults = {"storage", "database", "redis", "lostReply", "crash"}
  StallBudget = 2
SYMMETRY AllSymmetric
INVARIANTS
  InProgressHasDriver
  DeletedLeavesNothing
PROPERTIES
  TerminalIsFinal
  EditsSurvive
  EditsAfterOcr
CHECK_DEADLOCK FALSE
