SPECIFICATION AccessSpec
CONSTANTS
  Emails = {e1}
  NoEmail = NoEmail
  Accounts = {a1, a2}
  NoAccount = NoAccount
  Tokens = {t1, t2}
  NoToken = NoToken
  Browsers = {b1, b2}
  Calls = {c1}
  DemoEmails = {e1}
  Faults = {}
  Asks = {q1}
  NoClaims = NoClaims
SYMMETRY AccessSymmetry
INVARIANTS
  AccessTypeOK
  AdminListIsAuthorised
  RemovedIsLockedOut
  ActsAsSignedIn
CHECK_DEADLOCK FALSE
