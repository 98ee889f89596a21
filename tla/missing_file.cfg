SPECIFICATION Spec
CONSTANTS
  s1 = s1
  old = old
  Receipts = {s1}
  NoReceipt = NoReceipt
  Legacy = {}
  FileType <- TwoTypes
  Readers = {q1}
  Deleters = {d1}
  Settings <- S3Setting
  Faults = {}
  RestartBudget = 0
INVARIANT
  MissingFileIs404
CHECK_DEADLOCK FALSE
