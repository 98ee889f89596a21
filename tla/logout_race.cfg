\* The bounds on tokens and accounts run out, so the system stops: no deadlock check.
SPECIFICATION Spec
CONSTANTS
  Emails = {mail}
  NoEmail = NoEmail
  Accounts = {a1}
  NoAccount = NoAccount
  Tokens = {t1, t2}
  NoToken = NoToken
  Browsers = {b1}
  Calls = {c1, c2}
  DemoEmails = {}
  Faults = {}
INVARIANT LogoutEndsSession
CHECK_DEADLOCK FALSE
