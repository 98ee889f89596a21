\* The bounds on tokens and accounts run out, so the system stops: no deadlock check.
SPECIFICATION Spec
CONSTANTS
  Emails = {mail}
  NoEmail = NoEmail
  Accounts = {a1, a2}
  NoAccount = NoAccount
  Tokens = {t1, t2, t3}
  NoToken = NoToken
  Browsers = {b1}
  Calls = {c1, c2}
  DemoEmails = {mail}
  Faults = {"database", "lostReply", "network", "crash"}
SYMMETRY AuthSymmetry
INVARIANTS
  AuthTypeOK
  OneAccountPerEmail
  RotationIsExclusive
  CookieIsLive
PROPERTIES
  DeadSessionStaysDead
CHECK_DEADLOCK FALSE
