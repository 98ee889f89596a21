SPECIFICATION Spec
CONSTANTS
  s1 = s1
  old = old
  Receipts = {s1, old}
  NoReceipt = NoReceipt
  Legacy = {old}
  FileType <- TwoTypes
  Readers = {q1, q2}
  Deleters = {d1, d2}
  Settings <- EverySetting
  Faults = {"storage", "database", "redis", "lostReply", "diskLoss"}
  RestartBudget = 2
SYMMETRY RequestSymmetry
INVARIANTS
  StorageTypeOK
  ServedAsUploaded
  LeftoversAreExplained
  DeleteIsNotBlocked
PROPERTIES
  MissingIsExplained
  ImplementsService
CHECK_DEADLOCK FALSE
