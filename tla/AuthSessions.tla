---------------------------- MODULE AuthSessions ----------------------------
(***************************************************************************)
(* src/auth: registration, sign-in, refresh-token rotation and sign-out, as *)
(* calls in flight over the tables users and refresh_tokens and over the    *)
(* cookie jars of the browsers.  A browser may have several calls under way *)
(* (tabs, retries), each presents the cookie of the moment it is sent, and  *)
(* replies arrive in any order.  A call that ends with an error before it   *)
(* changed anything (wrong password, no cookie, email taken) is left out.   *)
(***************************************************************************)
EXTENDS FiniteSets

CONSTANTS
  Emails,        \* after trim() and toLowerCase()
  NoEmail,
  Accounts,      \* bound: the account ids that can be drawn
  NoAccount,
  Tokens,        \* bound: the refresh tokens that can be drawn
  NoToken,
  Browsers,
  Calls,         \* bound: calls in flight at a time
  DemoEmails,    \* accounts scripts/cleanup-demo-user.ts removes
  Faults         \* which faults happen

\* "database": a statement fails; "lostReply": it takes effect and fails;
\* "network": the reply does not reach the browser; "crash": the process dies.
ASSUME FaultAssumption == Faults \subseteq {"database", "lostReply", "network", "crash"}
ASSUME NoneAssumption ==
  NoEmail \notin Emails /\ NoAccount \notin Accounts /\ NoToken \notin Tokens

VARIABLES
  emailOf,      \* users: the email of the account, NoEmail when there is none
  known,        \* account ids drawn so far
  holder,       \* refresh_tokens: the account of the row of token t, or NoAccount
  expired,      \* tokens whose expiresAt has passed
  session,      \* the token the sign-in of t began with (NoToken: t not drawn)
  cookie,       \* cookie[b]: the refresh cookie of browser b
  pc, browser, account, email, presented, issued,   \* the calls in flight
  signedOut,    \* history: sessions whose token was presented to logout
  disturbed     \* history: browsers one of whose calls was cut off

tables   == <<emailOf, known, holder>>
callVars == <<pc, browser, account, email, presented, issued>>
vars == <<tables, expired, session, cookie, callVars, signedOut, disturbed>>

Pcs == {"idle", "create", "find", "redeem", "issue", "revoke", "replySet", "replyClear"}

AuthTypeOK ==
  /\ emailOf \in [Accounts -> Emails \cup {NoEmail}]
  /\ known \subseteq Accounts
  /\ holder \in [Tokens -> Accounts \cup {NoAccount}]
  /\ expired \subseteq Tokens
  /\ session \in [Tokens -> Tokens \cup {NoToken}]
  /\ cookie \in [Browsers -> Tokens \cup {NoToken}]
  /\ pc \in [Calls -> Pcs]
  /\ browser \in [Calls -> Browsers]
  /\ account \in [Calls -> Accounts \cup {NoAccount}]
  /\ email \in [Calls -> Emails \cup {NoEmail}]
  /\ presented \in [Calls -> Tokens \cup {NoToken}]
  /\ issued \in [Calls -> Tokens \cup {NoToken}]
  /\ signedOut \subseteq Tokens
  /\ disturbed \subseteq Browsers

Init ==
  /\ emailOf = [a \in Accounts |-> NoEmail]
  /\ known = {}
  /\ holder = [t \in Tokens |-> NoAccount]
  /\ expired = {}
  /\ session = [t \in Tokens |-> NoToken]
  /\ cookie = [b \in Browsers |-> NoToken]
  /\ pc = [c \in Calls |-> "idle"]
  /\ browser \in [Calls -> Browsers]
  /\ account = [c \in Calls |-> NoAccount]
  /\ email = [c \in Calls |-> NoEmail]
  /\ presented = [c \in Calls |-> NoToken]
  /\ issued = [c \in Calls |-> NoToken]
  /\ signedOut = {}
  /\ disturbed = {}

Exists(a) == emailOf[a] # NoEmail
IsLive(t) == holder[t] # NoAccount
Undrawn   == {t \in Tokens : session[t] = NoToken}

\* Call c starts at `to` for browser b, with the account, email or token it has.
Start(c, b, to, a, e, t) ==
  /\ pc[c] = "idle"
  /\ pc' = [pc EXCEPT ![c] = to]
  /\ browser' = [browser EXCEPT ![c] = b]
  /\ account' = [account EXCEPT ![c] = a]
  /\ email' = [email EXCEPT ![c] = e]
  /\ presented' = [presented EXCEPT ![c] = t]
  /\ issued' = [issued EXCEPT ![c] = NoToken]

StepTo(c, to) == pc' = [pc EXCEPT ![c] = to]

\* The call ends with an error that the code does not handle, or unheard.
Disturb(c) == StepTo(c, "idle") /\ disturbed' = disturbed \cup {browser[c]}

-----------------------------------------------------------------------------
(* register and login *)

\* register: findUnique finds no account with the email; bcrypt.hash follows.
RegisterFind(c, b, e) ==
  /\ \A a \in Accounts : emailOf[a] # e
  /\ Start(c, b, "create", NoAccount, e, NoToken)
  /\ UNCHANGED <<tables, expired, session, cookie, signedOut, disturbed>>

\* Mutated RegisterCreate: without the unique index on users.email.
RegisterCreate_NotUnique(c) ==
  /\ pc[c] = "create"
  /\ \E a \in Accounts \ known :
       /\ emailOf' = [emailOf EXCEPT ![a] = email[c]]
       /\ known' = known \cup {a}
       /\ account' = [account EXCEPT ![c] = a]
  /\ StepTo(c, "issue")
  /\ UNCHANGED <<holder, expired, session, cookie, browser, email, presented, issued,
                 signedOut, disturbed>>

\* user.create: users.email is unique, so the later of two registrations fails.
RegisterCreate(c) ==
  /\ pc[c] = "create"
  /\ \/ /\ \A a \in Accounts : emailOf[a] # email[c]
        /\ \E a \in Accounts \ known :
             /\ emailOf' = [emailOf EXCEPT ![a] = email[c]]
             /\ known' = known \cup {a}
             /\ account' = [account EXCEPT ![c] = a]
        /\ \/ StepTo(c, "issue")
           \/ "lostReply" \in Faults /\ StepTo(c, "idle")
     \/ /\ \/ \E a \in Accounts : emailOf[a] = email[c]
           \/ Faults \cap {"database", "crash"} # {}
        /\ StepTo(c, "idle")
        /\ UNCHANGED <<emailOf, known, account>>
  /\ UNCHANGED <<holder, expired, session, cookie, browser, email, presented, issued,
                 signedOut, disturbed>>

\* login: findUnique finds the account and the password is right.
LoginFind(c, b, a) ==
  /\ Exists(a)
  /\ Start(c, b, "issue", a, NoEmail, NoToken)
  /\ UNCHANGED <<tables, expired, session, cookie, signedOut, disturbed>>

\* Mutated Issue: the row refers to the email of the call, not to the account.
Issue_ByEmail(c) ==
  /\ pc[c] = "issue"
  /\ \E t \in Undrawn :
       /\ holder' = [holder EXCEPT ![t] = email[c]]
       /\ session' = [session EXCEPT ![t] = t]
       /\ issued' = [issued EXCEPT ![c] = t]
  /\ StepTo(c, "replySet")
  /\ UNCHANGED <<emailOf, known, expired, cookie, browser, account, email, presented,
                 signedOut, disturbed>>

\* issueTokensAndSetCookie: refreshToken.create for the account, which a foreign
\* key requires to exist.  A rotation continues the session of the old token.
Issue(c) ==
  /\ pc[c] = "issue"
  /\ \/ /\ Exists(account[c])
        /\ \E t \in Undrawn :
             /\ holder' = [holder EXCEPT ![t] = account[c]]
             /\ session' = [session EXCEPT ![t] =
                              IF presented[c] = NoToken THEN t ELSE session[presented[c]]]
             /\ issued' = [issued EXCEPT ![c] = t]
        /\ \/ StepTo(c, "replySet") /\ UNCHANGED disturbed
           \/ "lostReply" \in Faults /\ Disturb(c)
     \/ /\ ~Exists(account[c]) \/ Faults \cap {"database", "crash"} # {}
        /\ Disturb(c)
        /\ UNCHANGED <<holder, session, issued>>
  /\ UNCHANGED <<emailOf, known, expired, cookie, browser, account, email, presented,
                 signedOut>>

-----------------------------------------------------------------------------
(* refresh and logout *)

\* The browser sends POST /auth/refresh with the cookie it has now.
RefreshSend(c, b) ==
  /\ cookie[b] # NoToken
  /\ Start(c, b, "find", NoAccount, NoEmail, cookie[b])
  /\ UNCHANGED <<tables, expired, session, cookie, signedOut, disturbed>>

\* findUnique by hash.  An unknown or expired token answers 401, clears the
\* cookie, and the row of an expired one is deleted, errors ignored.
RefreshFind(c) ==
  LET t == presented[c]
  IN  /\ pc[c] = "find"
      /\ \/ /\ IsLive(t) /\ t \notin expired
            /\ account' = [account EXCEPT ![c] = holder[t]]
            /\ StepTo(c, "redeem")
            /\ UNCHANGED holder
         \/ /\ ~IsLive(t) \/ t \in expired
            /\ \/ holder' = [holder EXCEPT ![t] = NoAccount]
               \/ "database" \in Faults /\ UNCHANGED holder
            /\ StepTo(c, "replyClear")
            /\ UNCHANGED account
         \/ /\ Faults \cap {"database", "crash"} # {}
            /\ StepTo(c, "idle")
            /\ UNCHANGED <<holder, account>>
      /\ UNCHANGED <<emailOf, known, expired, session, cookie, browser, email, presented,
                     issued, signedOut, disturbed>>

\* Mutated Redeem: deleteMany, which is content with a row that is gone.
Redeem_DeleteMany(c) ==
  /\ pc[c] = "redeem"
  /\ holder' = [holder EXCEPT ![presented[c]] = NoAccount]
  /\ StepTo(c, "issue")
  /\ UNCHANGED <<emailOf, known, expired, session, cookie, browser, account, email,
                 presented, issued, signedOut, disturbed>>

\* Rotation, first half: refreshToken.delete by id.  It throws P2025 when the
\* row is gone, and then the call answers 500 and leaves the cookie alone.
Redeem(c) ==
  LET t == presented[c]
  IN  /\ pc[c] = "redeem"
      /\ \/ /\ IsLive(t)
            /\ holder' = [holder EXCEPT ![t] = NoAccount]
            /\ \/ StepTo(c, "issue") /\ UNCHANGED disturbed
               \/ "lostReply" \in Faults /\ Disturb(c)
         \/ /\ ~IsLive(t) \/ Faults \cap {"database", "crash"} # {}
            /\ StepTo(c, "idle")
            /\ UNCHANGED <<holder, disturbed>>
      /\ UNCHANGED <<emailOf, known, expired, session, cookie, browser, account, email,
                     presented, issued, signedOut>>

\* The browser sends POST /auth/logout, with a cookie or without.
LogoutSend(c, b) ==
  /\ Start(c, b, "revoke", NoAccount, NoEmail, cookie[b])
  /\ UNCHANGED <<tables, expired, session, cookie, signedOut, disturbed>>

\* Mutated Revoke: the token is revoked and the cookie is left in place.
Revoke_KeepCookie(c) ==
  LET t == presented[c]
  IN  /\ pc[c] = "revoke"
      /\ StepTo(c, "idle")
      /\ holder' = IF t = NoToken THEN holder ELSE [holder EXCEPT ![t] = NoAccount]
      /\ UNCHANGED <<emailOf, known, expired, session, cookie, browser, account, email,
                     presented, issued, signedOut, disturbed>>

\* deleteMany by hash, errors ignored; the reply clears the cookie in any case.
Revoke(c) ==
  LET t == presented[c]
  IN  /\ pc[c] = "revoke"
      /\ \/ /\ t # NoToken
            /\ holder' = [holder EXCEPT ![t] = NoAccount]
            /\ signedOut' = signedOut \cup {session[t]}
            /\ StepTo(c, "replyClear")
         \/ /\ t = NoToken \/ "database" \in Faults
            /\ StepTo(c, "replyClear")
            /\ UNCHANGED <<holder, signedOut>>
         \/ /\ "crash" \in Faults
            /\ StepTo(c, "idle")
            /\ UNCHANGED <<holder, signedOut>>
      /\ UNCHANGED <<emailOf, known, expired, session, cookie, browser, account, email,
                     presented, issued, disturbed>>

-----------------------------------------------------------------------------
(* The browsers, time, and the cleanup script. *)

\* The Set-Cookie header of a reply reaches the browser, or is lost.
SetRefreshCookie(c) ==
  /\ pc[c] = "replySet"
  /\ \/ /\ cookie' = [cookie EXCEPT ![browser[c]] = issued[c]]
        /\ StepTo(c, "idle")
        /\ UNCHANGED disturbed
     \/ "network" \in Faults /\ Disturb(c) /\ UNCHANGED cookie
  /\ UNCHANGED <<tables, expired, session, browser, account, email, presented, issued,
                 signedOut>>

ClearRefreshCookie(c) ==
  /\ pc[c] = "replyClear"
  /\ \/ /\ cookie' = [cookie EXCEPT ![browser[c]] = NoToken]
        /\ StepTo(c, "idle")
        /\ UNCHANGED disturbed
     \/ "network" \in Faults /\ Disturb(c) /\ UNCHANGED cookie
  /\ UNCHANGED <<tables, expired, session, browser, account, email, presented, issued,
                 signedOut>>

\* JWT_REFRESH_EXPIRES_IN passes for a drawn token.
Expire(t) ==
  /\ session[t] # NoToken
  /\ expired' = expired \cup {t}
  /\ UNCHANGED <<tables, session, cookie, callVars, signedOut, disturbed>>

\* The browser drops a cookie at its own "expires", by its own clock.
DropCookie(b) ==
  /\ cookie[b] \in expired
  /\ cookie' = [cookie EXCEPT ![b] = NoToken]
  /\ UNCHANGED <<tables, expired, session, callVars, signedOut, disturbed>>

\* The cleanup script deletes the demo account; the schema cascades to its tokens.
RemoveAccount(a) ==
  /\ emailOf[a] \in DemoEmails
  /\ emailOf' = [emailOf EXCEPT ![a] = NoEmail]
  /\ holder' = [t \in Tokens |-> IF holder[t] = a THEN NoAccount ELSE holder[t]]
  /\ disturbed' = Browsers
  /\ UNCHANGED <<known, expired, session, cookie, callVars, signedOut>>

CallStep(c) ==
  \/ RegisterCreate(c) \/ Issue(c) \/ RefreshFind(c) \/ Redeem(c) \/ Revoke(c)
  \/ SetRefreshCookie(c) \/ ClearRefreshCookie(c)

Next ==
  \/ \E c \in Calls, b \in Browsers :
       \/ \E e \in Emails : RegisterFind(c, b, e)
       \/ \E a \in Accounts : LoginFind(c, b, a)
       \/ RefreshSend(c, b)
       \/ LogoutSend(c, b)
  \/ \E c \in Calls : CallStep(c)
  \/ \E t \in Tokens : Expire(t)
  \/ \E b \in Browsers : DropCookie(b)
  \/ \E a \in Accounts : RemoveAccount(a)

Spec == Init /\ [][Next]_vars

-----------------------------------------------------------------------------
(* Properties. *)

\* Two registrations with one email never both succeed, although register
\* looks for the email long before it creates the account.
OneAccountPerEmail ==
  \A a, b \in Accounts : Exists(a) /\ emailOf[a] = emailOf[b] => a = b

\* Call c holds the right to continue session s: it has redeemed a token of s
\* and not yet drawn the next.
Rotates(c, s) == pc[c] = "issue" /\ presented[c] # NoToken /\ session[presented[c]] = s

\* Rotation does not multiply sessions: of the tokens of one sign-in at most one
\* is accepted, and none while a call is between its delete and its create
\* ("prevent reuse", refresh).
RotationIsExclusive ==
  \A s \in Tokens :
    /\ \A t, u \in Tokens : session[t] = s /\ session[u] = s /\ IsLive(t) /\ IsLive(u) => t = u
    /\ \A c, d \in Calls : Rotates(c, s) /\ Rotates(d, s) => c = d
    /\ \A c \in Calls, t \in Tokens : ~(Rotates(c, s) /\ session[t] = s /\ IsLive(t))

\* A session that has no token, and no call about to draw one, never gets one:
\* a call that was under way when it ended cannot revive it (refresh, logout).
Dead(s) ==
  /\ session[s] = s
  /\ \A t \in Tokens : session[t] = s => ~IsLive(t)
  /\ \A c \in Calls : ~Rotates(c, s)

DeadSessionStaysDead == [][\A s \in Tokens : Dead(s) => Dead(s)']_vars

\* The cookie of a browser is a token the server knows, unless a call of this
\* browser is about to replace it, or one was cut off (a fault, a lost reply,
\* the account removed).  In particular refreshing in two tabs at once never
\* leaves the browser with a used token.
CookieIsLive ==
  \A b \in Browsers \ disturbed :
    cookie[b] # NoToken =>
      \/ IsLive(cookie[b])
      \/ cookie[b] \in expired
      \/ \E c \in Calls :
           /\ browser[c] = b
           /\ \/ pc[c] \in {"issue", "replySet"} /\ presented[c] # NoToken
              \/ pc[c] = "replyClear"

\* "Revoke refresh + clear cookie" (README.md:362): when every call has been
\* answered, the session whose token was presented to POST /auth/logout is over.
LogoutEndsSession ==
  (\A c \in Calls : pc[c] = "idle") =>
    \A s \in signedOut : \A t \in Tokens : session[t] = s => ~IsLive(t)
=============================================================================
