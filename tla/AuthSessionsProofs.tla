------------------------- MODULE AuthSessionsProofs --------------------------
(***************************************************************************)
(* Theorems about AuthSessions, for every number of emails, accounts,       *)
(* tokens, browsers and calls in flight, and every set of faults.           *)
(***************************************************************************)
EXTENDS AuthSessions, TLAPS

-----------------------------------------------------------------------------
(* The invariant. *)

\* A live token has been drawn, so has every token a browser or a call holds,
\* and a session is named by its first token.
TokensAreDrawn ==
  /\ \A t \in Tokens : IsLive(t) => session[t] # NoToken
  /\ \A t \in Tokens : session[t] # NoToken => session[session[t]] = session[t]
  /\ \A b \in Browsers : cookie[b] # NoToken => session[cookie[b]] # NoToken
  /\ \A c \in Calls : presented[c] # NoToken => session[presented[c]] # NoToken
  /\ \A c \in Calls : issued[c] # NoToken => session[issued[c]] # NoToken

\* Where a call is tells whether it has presented a token or drawn one.
CallShape ==
  \A c \in Calls :
    /\ pc[c] \in {"find", "redeem"} => presented[c] # NoToken
    /\ pc[c] = "create" => presented[c] = NoToken
    /\ pc[c] = "replySet" => issued[c] # NoToken
    /\ pc[c] \in {"redeem", "issue"} => account[c] # NoAccount

SessionInv == AuthTypeOK /\ TokensAreDrawn /\ CallShape /\ RotationIsExclusive

\* Browser b, or a call of it, has had token t in hand.
Has(b, t) ==
  \/ cookie[b] = t
  \/ \E c \in Calls : browser[c] = b /\ t \in {presented[c], issued[c]}

\* No token is in the hands of two browsers.
OneBrowserPerToken ==
  \A t \in Tokens : \A a, b \in Browsers : Has(a, t) /\ Has(b, t) => a = b

\* A token under way to its browser has not been used, and is live unless the
\* account was removed.
TokenInTransit ==
  \A c \in Calls :
    pc[c] = "replySet" =>
      /\ IsLive(issued[c]) \/ browser[c] \in disturbed
      /\ \A b \in Browsers : cookie[b] # issued[c]
      /\ \A d \in Calls : presented[d] # issued[c]
      /\ \A d \in Calls \ {c} : issued[d] # issued[c]

CookieInv == SessionInv /\ OneBrowserPerToken /\ TokenInTransit /\ CookieIsLive

-----------------------------------------------------------------------------
(* The initial state. *)

LEMMA InitCookieInv == Init => CookieInv
<1> SUFFICES ASSUME Init PROVE CookieInv
  OBVIOUS
<1> USE NoneAssumption DEF Init
<1>1. AuthTypeOK
  BY DEF AuthTypeOK, Pcs
<1>2. TokensAreDrawn /\ CallShape
  BY DEF TokensAreDrawn, CallShape, IsLive
<1>3. RotationIsExclusive
  BY DEF RotationIsExclusive, Rotates, IsLive
<1>4. OneBrowserPerToken /\ TokenInTransit /\ CookieIsLive
  BY DEF OneBrowserPerToken, Has, TokenInTransit, CookieIsLive
<1> QED
  BY <1>1, <1>2, <1>3, <1>4 DEF CookieInv, SessionInv

-----------------------------------------------------------------------------
(* The steps. *)

\* Every step keeps the variables well typed.
LEMMA TypeStep ==
  ASSUME SessionInv, [Next]_vars
  PROVE  AuthTypeOK'
<1> USE DEF SessionInv, AuthTypeOK, CallShape, Pcs, tables, callVars
<1>1. ASSUME NEW c \in Calls, NEW b \in Browsers, NEW e \in Emails, RegisterFind(c, b, e)
      PROVE  AuthTypeOK'
  BY <1>1 DEF RegisterFind, Start
<1>2. ASSUME NEW c \in Calls, NEW b \in Browsers, NEW a \in Accounts, LoginFind(c, b, a)
      PROVE  AuthTypeOK'
  BY <1>2 DEF LoginFind, Start
<1>3. ASSUME NEW c \in Calls, NEW b \in Browsers, RefreshSend(c, b)
      PROVE  AuthTypeOK'
  BY <1>3 DEF RefreshSend, Start
<1>4. ASSUME NEW c \in Calls, NEW b \in Browsers, LogoutSend(c, b)
      PROVE  AuthTypeOK'
  BY <1>4 DEF LogoutSend, Start
<1>5. ASSUME NEW c \in Calls, RegisterCreate(c)
      PROVE  AuthTypeOK'
  BY <1>5 DEF RegisterCreate, StepTo
<1>6. ASSUME NEW c \in Calls, Issue(c)
      PROVE  AuthTypeOK'
  <2>1. CASE UNCHANGED <<holder, session, issued>>
    BY <1>6, <2>1 DEF Issue, StepTo, Disturb
  <2>2. ASSUME NEW t \in Undrawn,
               holder' = [holder EXCEPT ![t] = account[c]],
               session' = [session EXCEPT ![t] =
                             IF presented[c] = NoToken THEN t ELSE session[presented[c]]],
               issued' = [issued EXCEPT ![c] = t]
        PROVE  AuthTypeOK'
    <3>1. t \in Tokens
      BY <2>2 DEF Undrawn
    <3>2. (IF presented[c] = NoToken THEN t ELSE session[presented[c]])
            \in Tokens \cup {NoToken}
      BY <3>1
    <3>3. holder' \in [Tokens -> Accounts \cup {NoAccount}]
      BY <2>2
    <3>4. session' \in [Tokens -> Tokens \cup {NoToken}]
      BY <2>2, <3>2
    <3>5. issued' \in [Calls -> Tokens \cup {NoToken}]
      BY <2>2, <3>1
    <3> QED
      BY <1>6, <3>3, <3>4, <3>5 DEF Issue, StepTo, Disturb
  <2> QED
    BY <1>6, <2>1, <2>2 DEF Issue
<1>7. ASSUME NEW c \in Calls, RefreshFind(c)
      PROVE  AuthTypeOK'
  BY <1>7 DEF RefreshFind, StepTo
<1>8. ASSUME NEW c \in Calls, Redeem(c)
      PROVE  AuthTypeOK'
  BY <1>8 DEF Redeem, StepTo, Disturb
<1>9. ASSUME NEW c \in Calls, Revoke(c)
      PROVE  AuthTypeOK'
  <2>1. signedOut' \subseteq Tokens
    BY <1>9, NoneAssumption DEF Revoke, TokensAreDrawn
  <2>2. holder' \in [Tokens -> Accounts \cup {NoAccount}]
    BY <1>9 DEF Revoke
  <2> QED
    BY <1>9, <2>1, <2>2 DEF Revoke, StepTo
<1>10. ASSUME NEW c \in Calls, SetRefreshCookie(c)
      PROVE  AuthTypeOK'
  BY <1>10 DEF SetRefreshCookie, StepTo, Disturb
<1>11. ASSUME NEW c \in Calls, ClearRefreshCookie(c)
      PROVE  AuthTypeOK'
  BY <1>11 DEF ClearRefreshCookie, StepTo, Disturb
<1>12. ASSUME NEW t \in Tokens, Expire(t)
      PROVE  AuthTypeOK'
  BY <1>12 DEF Expire
<1>13. ASSUME NEW b \in Browsers, DropCookie(b)
      PROVE  AuthTypeOK'
  BY <1>13 DEF DropCookie
<1>14. ASSUME NEW a \in Accounts, RemoveAccount(a)
      PROVE  AuthTypeOK'
  BY <1>14 DEF RemoveAccount
<1>15. CASE UNCHANGED vars
  BY <1>15 DEF vars, tables, callVars
<1> QED
  BY <1>1, <1>2, <1>3, <1>4, <1>5, <1>6, <1>7, <1>8, <1>9, <1>10, <1>11, <1>12, <1>13,
     <1>14, <1>15 DEF Next, CallStep

\* Tokens are drawn by Issue alone, and only drawn ones are handed on.
LEMMA DrawnStep ==
  ASSUME SessionInv, [Next]_vars
  PROVE  TokensAreDrawn'
<1> USE DEF SessionInv, AuthTypeOK, TokensAreDrawn, CallShape, IsLive, tables, callVars
<1>1. ASSUME NEW c \in Calls, NEW b \in Browsers, NEW e \in Emails, RegisterFind(c, b, e)
      PROVE  TokensAreDrawn'
  BY NoneAssumption, <1>1 DEF RegisterFind, Start
<1>2. ASSUME NEW c \in Calls, NEW b \in Browsers, NEW a \in Accounts, LoginFind(c, b, a)
      PROVE  TokensAreDrawn'
  BY NoneAssumption, <1>2 DEF LoginFind, Start
<1>3. ASSUME NEW c \in Calls, NEW b \in Browsers, RefreshSend(c, b)
      PROVE  TokensAreDrawn'
  BY NoneAssumption, <1>3 DEF RefreshSend, Start
<1>4. ASSUME NEW c \in Calls, NEW b \in Browsers, LogoutSend(c, b)
      PROVE  TokensAreDrawn'
  BY NoneAssumption, <1>4 DEF LogoutSend, Start
<1>5. ASSUME NEW c \in Calls, RegisterCreate(c)
      PROVE  TokensAreDrawn'
  BY NoneAssumption, <1>5 DEF RegisterCreate, StepTo
<1>6. ASSUME NEW c \in Calls, Issue(c)
      PROVE  TokensAreDrawn'
  BY NoneAssumption, <1>6 DEF Issue, StepTo, Disturb, Undrawn
<1>7. ASSUME NEW c \in Calls, RefreshFind(c)
      PROVE  TokensAreDrawn'
  BY NoneAssumption, <1>7 DEF RefreshFind, StepTo
<1>8. ASSUME NEW c \in Calls, Redeem(c)
      PROVE  TokensAreDrawn'
  BY NoneAssumption, <1>8 DEF Redeem, StepTo, Disturb
<1>9. ASSUME NEW c \in Calls, Revoke(c)
      PROVE  TokensAreDrawn'
  BY NoneAssumption, <1>9 DEF Revoke, StepTo
<1>10. ASSUME NEW c \in Calls, SetRefreshCookie(c)
      PROVE  TokensAreDrawn'
  BY NoneAssumption, <1>10 DEF SetRefreshCookie, StepTo, Disturb
<1>11. ASSUME NEW c \in Calls, ClearRefreshCookie(c)
      PROVE  TokensAreDrawn'
  BY NoneAssumption, <1>11 DEF ClearRefreshCookie, StepTo, Disturb
<1>12. ASSUME NEW t \in Tokens, Expire(t)
      PROVE  TokensAreDrawn'
  BY NoneAssumption, <1>12 DEF Expire
<1>13. ASSUME NEW b \in Browsers, DropCookie(b)
      PROVE  TokensAreDrawn'
  BY NoneAssumption, <1>13 DEF DropCookie
<1>14. ASSUME NEW a \in Accounts, RemoveAccount(a)
      PROVE  TokensAreDrawn'
  BY NoneAssumption, <1>14 DEF RemoveAccount
<1>15. CASE UNCHANGED vars
  BY <1>15 DEF vars, tables, callVars
<1> QED
  BY <1>1, <1>2, <1>3, <1>4, <1>5, <1>6, <1>7, <1>8, <1>9, <1>10, <1>11, <1>12, <1>13,
     <1>14, <1>15 DEF Next, CallStep

\* No step brings a call to a point without what it needs there.
LEMMA ShapeStep ==
  ASSUME SessionInv, [Next]_vars
  PROVE  CallShape'
<1> USE DEF SessionInv, AuthTypeOK, CallShape, IsLive, Exists, tables, callVars
<1>1. ASSUME NEW c \in Calls, NEW b \in Browsers, NEW e \in Emails, RegisterFind(c, b, e)
      PROVE  CallShape'
  BY NoneAssumption, <1>1 DEF RegisterFind, Start
<1>2. ASSUME NEW c \in Calls, NEW b \in Browsers, NEW a \in Accounts, LoginFind(c, b, a)
      PROVE  CallShape'
  BY NoneAssumption, <1>2 DEF LoginFind, Start
<1>3. ASSUME NEW c \in Calls, NEW b \in Browsers, RefreshSend(c, b)
      PROVE  CallShape'
  BY NoneAssumption, <1>3 DEF RefreshSend, Start
<1>4. ASSUME NEW c \in Calls, NEW b \in Browsers, LogoutSend(c, b)
      PROVE  CallShape'
  BY NoneAssumption, <1>4 DEF LogoutSend, Start
<1>5. ASSUME NEW c \in Calls, RegisterCreate(c)
      PROVE  CallShape'
  BY NoneAssumption, <1>5 DEF RegisterCreate, StepTo
<1>6. ASSUME NEW c \in Calls, Issue(c)
      PROVE  CallShape'
  BY NoneAssumption, <1>6 DEF Issue, StepTo, Disturb, Undrawn
<1>7. ASSUME NEW c \in Calls, RefreshFind(c)
      PROVE  CallShape'
  BY NoneAssumption, <1>7 DEF RefreshFind, StepTo
<1>8. ASSUME NEW c \in Calls, Redeem(c)
      PROVE  CallShape'
  BY NoneAssumption, <1>8 DEF Redeem, StepTo, Disturb
<1>9. ASSUME NEW c \in Calls, Revoke(c)
      PROVE  CallShape'
  BY NoneAssumption, <1>9 DEF Revoke, StepTo
<1>10. ASSUME NEW c \in Calls, SetRefreshCookie(c)
      PROVE  CallShape'
  BY NoneAssumption, <1>10 DEF SetRefreshCookie, StepTo, Disturb
<1>11. ASSUME NEW c \in Calls, ClearRefreshCookie(c)
      PROVE  CallShape'
  BY NoneAssumption, <1>11 DEF ClearRefreshCookie, StepTo, Disturb
<1>12. ASSUME NEW t \in Tokens, Expire(t)
      PROVE  CallShape'
  BY NoneAssumption, <1>12 DEF Expire
<1>13. ASSUME NEW b \in Browsers, DropCookie(b)
      PROVE  CallShape'
  BY NoneAssumption, <1>13 DEF DropCookie
<1>14. ASSUME NEW a \in Accounts, RemoveAccount(a)
      PROVE  CallShape'
  BY NoneAssumption, <1>14 DEF RemoveAccount
<1>15. CASE UNCHANGED vars
  BY <1>15 DEF vars, tables, callVars
<1> QED
  BY <1>1, <1>2, <1>3, <1>4, <1>5, <1>6, <1>7, <1>8, <1>9, <1>10, <1>11, <1>12, <1>13,
     <1>14, <1>15 DEF Next, CallStep

\* Every step keeps a session in one hand.
LEMMA ExclusiveStep ==
  ASSUME SessionInv, [Next]_vars
  PROVE  RotationIsExclusive'
<1> USE DEF SessionInv, AuthTypeOK, TokensAreDrawn, CallShape, RotationIsExclusive, Rotates,
            IsLive, tables, callVars
<1>1. ASSUME NEW c \in Calls, NEW b \in Browsers, NEW e \in Emails, RegisterFind(c, b, e)
      PROVE  RotationIsExclusive'
  BY NoneAssumption, <1>1 DEF RegisterFind, Start
<1>2. ASSUME NEW c \in Calls, NEW b \in Browsers, NEW a \in Accounts, LoginFind(c, b, a)
      PROVE  RotationIsExclusive'
  BY NoneAssumption, <1>2 DEF LoginFind, Start
<1>3. ASSUME NEW c \in Calls, NEW b \in Browsers, RefreshSend(c, b)
      PROVE  RotationIsExclusive'
  BY NoneAssumption, <1>3 DEF RefreshSend, Start
<1>4. ASSUME NEW c \in Calls, NEW b \in Browsers, LogoutSend(c, b)
      PROVE  RotationIsExclusive'
  BY NoneAssumption, <1>4 DEF LogoutSend, Start
<1>5. ASSUME NEW c \in Calls, RegisterCreate(c)
      PROVE  RotationIsExclusive'
  BY NoneAssumption, <1>5 DEF RegisterCreate, StepTo
<1>6. ASSUME NEW c \in Calls, Issue(c)
      PROVE  RotationIsExclusive'
  <2>1. /\ pc'[c] # "issue"
        /\ \A d \in Calls \ {c} : pc'[d] = pc[d]
        /\ presented' = presented
    BY <1>6 DEF Issue, StepTo, Disturb
  <2>2. CASE UNCHANGED <<holder, session, issued>>
    BY <2>1, <2>2
  <2>3. ASSUME NEW t \in Undrawn,
               holder' = [holder EXCEPT ![t] = account[c]],
               session' = [session EXCEPT ![t] =
                             IF presented[c] = NoToken THEN t ELSE session[presented[c]]]
        PROVE  RotationIsExclusive'
    <3> DEFINE s0 == IF presented[c] = NoToken THEN t ELSE session[presented[c]]
    <3>1. t \in Tokens /\ session[t] = NoToken
      BY DEF Undrawn
    <3>2. session'[t] = s0
      BY <2>3, <3>1
    <3>3. \A u \in Tokens \ {t} : session'[u] = session[u] /\ holder'[u] = holder[u]
      BY <2>3
    <3>4. \A d \in Calls : presented[d] # t
      BY <3>1, NoneAssumption
    <3>5. ASSUME NEW d \in Calls, NEW s \in Tokens, Rotates(d, s)'
          PROVE  d # c /\ Rotates(d, s)
      BY <2>1, <3>3, <3>4, <3>5
    <3>6. /\ \A d \in Calls \ {c} : ~Rotates(d, s0)
          /\ \A u \in Tokens : IsLive(u) => session[u] # s0
      <4>1. CASE presented[c] = NoToken
        BY <3>1, <4>1, NoneAssumption
      <4>2. CASE presented[c] # NoToken
        <5>1. Rotates(c, s0) /\ s0 \in Tokens
          BY <1>6, <4>2, NoneAssumption DEF Issue
        <5> HIDE DEF s0, Rotates
        <5> QED
          BY <5>1
      <4> QED
        BY <4>1, <4>2
    <3>7. s0 # NoToken
      BY <3>1, NoneAssumption
    <3> HIDE DEF s0
    <3>8. ASSUME NEW s \in Tokens, NEW u \in Tokens, NEW v \in Tokens,
                 session'[u] = s, session'[v] = s, IsLive(u)', IsLive(v)'
          PROVE  u = v
      BY <3>2, <3>3, <3>6, <3>8
    <3>9. ASSUME NEW s \in Tokens, NEW d \in Calls, NEW e \in Calls,
                 Rotates(d, s)', Rotates(e, s)'
          PROVE  d = e
      BY <3>5, <3>9
    <3>10. ASSUME NEW s \in Tokens, NEW d \in Calls, NEW u \in Tokens,
                  Rotates(d, s)', session'[u] = s, IsLive(u)'
           PROVE  FALSE
      BY <3>2, <3>3, <3>5, <3>6, <3>10
    <3> HIDE DEF Rotates, IsLive
    <3> QED
      BY <3>8, <3>9, <3>10
  <2> QED
    BY <1>6, <2>2, <2>3 DEF Issue
<1>7. ASSUME NEW c \in Calls, RefreshFind(c)
      PROVE  RotationIsExclusive'
  <2>1. /\ session' = session /\ presented' = presented
        /\ pc'[c] # "issue" /\ \A d \in Calls \ {c} : pc'[d] = pc[d]
    BY <1>7 DEF RefreshFind, StepTo
  <2>2. \A u \in Tokens : IsLive(u)' => IsLive(u)
    BY <1>7 DEF RefreshFind
  <2>3. \A d \in Calls, s \in Tokens : Rotates(d, s)' => Rotates(d, s)
    BY <2>1
  <2> HIDE DEF IsLive, Rotates
  <2> QED
    BY <2>1, <2>2, <2>3
<1>8. ASSUME NEW c \in Calls, Redeem(c)
      PROVE  RotationIsExclusive'
  <2> DEFINE t == presented[c]
  <2>1. t \in Tokens
    BY <1>8 DEF Redeem
  <2>2. /\ session' = session /\ presented' = presented
        /\ \A d \in Calls \ {c} : pc'[d] = pc[d]
    BY <1>8 DEF Redeem, StepTo, Disturb
  <2>3. CASE IsLive(t) /\ holder' = [holder EXCEPT ![t] = NoAccount]
    <3>1. holder'[t] = NoAccount /\ \A u \in Tokens \ {t} : holder'[u] = holder[u]
      BY <2>1, <2>3
    <3>2. \A d \in Calls \ {c}, s \in Tokens : Rotates(d, s)' <=> Rotates(d, s)
      BY <2>2
    <3>3. \A s \in Tokens : Rotates(c, s)' => s = session[t]
      BY <2>2
    <3> QED
      BY <2>1, <2>2, <2>3, <3>1, <3>2, <3>3
  <2>4. CASE holder' = holder /\ pc'[c] = "idle"
    BY <2>2, <2>4
  <2> QED
    BY <1>8, <2>3, <2>4 DEF Redeem, StepTo, Disturb
<1>9. ASSUME NEW c \in Calls, Revoke(c)
      PROVE  RotationIsExclusive'
  <2>1. /\ session' = session /\ presented' = presented
        /\ pc'[c] # "issue" /\ \A d \in Calls \ {c} : pc'[d] = pc[d]
    BY <1>9 DEF Revoke, StepTo
  <2>2. \A u \in Tokens : IsLive(u)' => IsLive(u)
    BY <1>9 DEF Revoke
  <2>3. \A d \in Calls, s \in Tokens : Rotates(d, s)' => Rotates(d, s)
    BY <2>1
  <2> HIDE DEF IsLive, Rotates
  <2> QED
    BY <2>1, <2>2, <2>3
<1>10. ASSUME NEW c \in Calls, SetRefreshCookie(c)
      PROVE  RotationIsExclusive'
  BY NoneAssumption, <1>10 DEF SetRefreshCookie, StepTo, Disturb
<1>11. ASSUME NEW c \in Calls, ClearRefreshCookie(c)
      PROVE  RotationIsExclusive'
  BY NoneAssumption, <1>11 DEF ClearRefreshCookie, StepTo, Disturb
<1>12. ASSUME NEW t \in Tokens, Expire(t)
      PROVE  RotationIsExclusive'
  BY NoneAssumption, <1>12 DEF Expire
<1>13. ASSUME NEW b \in Browsers, DropCookie(b)
      PROVE  RotationIsExclusive'
  BY NoneAssumption, <1>13 DEF DropCookie
<1>14. ASSUME NEW a \in Accounts, RemoveAccount(a)
      PROVE  RotationIsExclusive'
  BY NoneAssumption, <1>14 DEF RemoveAccount
<1>15. CASE UNCHANGED vars
  BY <1>15 DEF vars, tables, callVars
<1> QED
  BY <1>1, <1>2, <1>3, <1>4, <1>5, <1>6, <1>7, <1>8, <1>9, <1>10, <1>11, <1>12, <1>13,
     <1>14, <1>15 DEF Next, CallStep

LEMMA SessionStep == SessionInv /\ [Next]_vars => SessionInv'
BY TypeStep, DrawnStep, ShapeStep, ExclusiveStep DEF SessionInv

\* users.email is unique: no step puts a second account under an email.
LEMMA UniqueStep ==
  ASSUME SessionInv, OneAccountPerEmail, [Next]_vars
  PROVE  OneAccountPerEmail'
<1> USE DEF OneAccountPerEmail, Exists, SessionInv, AuthTypeOK
<1>1. ASSUME NEW c \in Calls, RegisterCreate(c)
      PROVE  OneAccountPerEmail'
  BY <1>1 DEF RegisterCreate
<1>2. ASSUME NEW a \in Accounts, RemoveAccount(a)
      PROVE  OneAccountPerEmail'
  BY <1>2 DEF RemoveAccount
<1>3. CASE UNCHANGED emailOf
  BY <1>3
<1>4. \/ UNCHANGED emailOf
      \/ \E c \in Calls : RegisterCreate(c)
      \/ \E a \in Accounts : RemoveAccount(a)
  BY DEF Next, CallStep, vars, tables, RegisterFind, LoginFind, RefreshSend, LogoutSend, Issue,
         RefreshFind, Redeem, Revoke, SetRefreshCookie, ClearRefreshCookie, Expire, DropCookie
<1> QED
  BY <1>1, <1>2, <1>3, <1>4

\* A session that is over stays over: a token is drawn for a new session or for
\* one that a call is rotating, and no step makes an old token live again.
LEMMA DeadStep ==
  ASSUME SessionInv, [Next]_vars, NEW s \in Tokens, Dead(s)
  PROVE  Dead(s)'
<1> USE DEF SessionInv, AuthTypeOK, TokensAreDrawn, CallShape, Dead, Rotates, IsLive,
            tables, callVars
<1>1. ASSUME NEW c \in Calls, NEW b \in Browsers, NEW e \in Emails, RegisterFind(c, b, e)
      PROVE  Dead(s)'
  BY NoneAssumption, <1>1 DEF RegisterFind, Start
<1>2. ASSUME NEW c \in Calls, NEW b \in Browsers, NEW a \in Accounts, LoginFind(c, b, a)
      PROVE  Dead(s)'
  BY NoneAssumption, <1>2 DEF LoginFind, Start
<1>3. ASSUME NEW c \in Calls, NEW b \in Browsers, RefreshSend(c, b)
      PROVE  Dead(s)'
  BY NoneAssumption, <1>3 DEF RefreshSend, Start
<1>4. ASSUME NEW c \in Calls, NEW b \in Browsers, LogoutSend(c, b)
      PROVE  Dead(s)'
  BY NoneAssumption, <1>4 DEF LogoutSend, Start
<1>5. ASSUME NEW c \in Calls, RegisterCreate(c)
      PROVE  Dead(s)'
  BY NoneAssumption, <1>5 DEF RegisterCreate, StepTo
<1>6. ASSUME NEW c \in Calls, Issue(c)
      PROVE  Dead(s)'
  BY NoneAssumption, <1>6 DEF Issue, StepTo, Disturb, Undrawn
<1>7. ASSUME NEW c \in Calls, RefreshFind(c)
      PROVE  Dead(s)'
  BY NoneAssumption, <1>7 DEF RefreshFind, StepTo
<1>8. ASSUME NEW c \in Calls, Redeem(c)
      PROVE  Dead(s)'
  BY NoneAssumption, <1>8 DEF Redeem, StepTo, Disturb
<1>9. ASSUME NEW c \in Calls, Revoke(c)
      PROVE  Dead(s)'
  BY NoneAssumption, <1>9 DEF Revoke, StepTo
<1>10. ASSUME NEW c \in Calls, SetRefreshCookie(c)
      PROVE  Dead(s)'
  BY NoneAssumption, <1>10 DEF SetRefreshCookie, StepTo, Disturb
<1>11. ASSUME NEW c \in Calls, ClearRefreshCookie(c)
      PROVE  Dead(s)'
  BY NoneAssumption, <1>11 DEF ClearRefreshCookie, StepTo, Disturb
<1>12. ASSUME NEW t \in Tokens, Expire(t)
      PROVE  Dead(s)'
  BY NoneAssumption, <1>12 DEF Expire
<1>13. ASSUME NEW b \in Browsers, DropCookie(b)
      PROVE  Dead(s)'
  BY NoneAssumption, <1>13 DEF DropCookie
<1>14. ASSUME NEW a \in Accounts, RemoveAccount(a)
      PROVE  Dead(s)'
  BY NoneAssumption, <1>14 DEF RemoveAccount
<1>15. CASE UNCHANGED vars
  BY <1>15 DEF vars, tables, callVars
<1> QED
  BY <1>1, <1>2, <1>3, <1>4, <1>5, <1>6, <1>7, <1>8, <1>9, <1>10, <1>11, <1>12, <1>13,
     <1>14, <1>15 DEF Next, CallStep

-----------------------------------------------------------------------------
(* The cookies. *)

\* A token goes from a call to its browser and from a browser to its calls.
LEMMA OneBrowserStep ==
  ASSUME CookieInv, [Next]_vars
  PROVE  OneBrowserPerToken'
<1> USE DEF CookieInv, SessionInv, AuthTypeOK, TokensAreDrawn, CallShape,
            OneBrowserPerToken, Has, tables, callVars
<1>1. ASSUME NEW c \in Calls, NEW b \in Browsers, NEW e \in Emails, RegisterFind(c, b, e)
      PROVE  OneBrowserPerToken'
  BY NoneAssumption, <1>1 DEF RegisterFind, Start
<1>2. ASSUME NEW c \in Calls, NEW b \in Browsers, NEW a \in Accounts, LoginFind(c, b, a)
      PROVE  OneBrowserPerToken'
  BY NoneAssumption, <1>2 DEF LoginFind, Start
<1>3. ASSUME NEW c \in Calls, NEW b \in Browsers, RefreshSend(c, b)
      PROVE  OneBrowserPerToken'
  BY NoneAssumption, <1>3 DEF RefreshSend, Start
<1>4. ASSUME NEW c \in Calls, NEW b \in Browsers, LogoutSend(c, b)
      PROVE  OneBrowserPerToken'
  BY NoneAssumption, <1>4 DEF LogoutSend, Start
<1>5. ASSUME NEW c \in Calls, RegisterCreate(c)
      PROVE  OneBrowserPerToken'
  BY NoneAssumption, <1>5 DEF RegisterCreate, StepTo
<1>6. ASSUME NEW c \in Calls, Issue(c)
      PROVE  OneBrowserPerToken'
  BY NoneAssumption, <1>6 DEF Issue, StepTo, Disturb, Undrawn
<1>7. ASSUME NEW c \in Calls, RefreshFind(c)
      PROVE  OneBrowserPerToken'
  BY NoneAssumption, <1>7 DEF RefreshFind, StepTo
<1>8. ASSUME NEW c \in Calls, Redeem(c)
      PROVE  OneBrowserPerToken'
  BY NoneAssumption, <1>8 DEF Redeem, StepTo, Disturb
<1>9. ASSUME NEW c \in Calls, Revoke(c)
      PROVE  OneBrowserPerToken'
  BY NoneAssumption, <1>9 DEF Revoke, StepTo
<1>10. ASSUME NEW c \in Calls, SetRefreshCookie(c)
      PROVE  OneBrowserPerToken'
  BY NoneAssumption, <1>10 DEF SetRefreshCookie, StepTo, Disturb
<1>11. ASSUME NEW c \in Calls, ClearRefreshCookie(c)
      PROVE  OneBrowserPerToken'
  <2>1. \A b \in Browsers, t \in Tokens : Has(b, t)' => Has(b, t)
    BY <1>11, NoneAssumption DEF ClearRefreshCookie
  <2> HIDE DEF Has
  <2> QED
    BY <2>1
<1>12. ASSUME NEW t \in Tokens, Expire(t)
      PROVE  OneBrowserPerToken'
  BY NoneAssumption, <1>12 DEF Expire
<1>13. ASSUME NEW b \in Browsers, DropCookie(b)
      PROVE  OneBrowserPerToken'
  BY NoneAssumption, <1>13 DEF DropCookie
<1>14. ASSUME NEW a \in Accounts, RemoveAccount(a)
      PROVE  OneBrowserPerToken'
  BY NoneAssumption, <1>14 DEF RemoveAccount
<1>15. CASE UNCHANGED vars
  BY <1>15 DEF vars, tables, callVars
<1> QED
  BY <1>1, <1>2, <1>3, <1>4, <1>5, <1>6, <1>7, <1>8, <1>9, <1>10, <1>11, <1>12, <1>13,
     <1>14, <1>15 DEF Next, CallStep

\* Nobody uses a token before its browser has it.
LEMMA TransitStep ==
  ASSUME CookieInv, [Next]_vars
  PROVE  TokenInTransit'
<1> USE DEF CookieInv, SessionInv, AuthTypeOK, TokensAreDrawn, CallShape,
            OneBrowserPerToken, Has, TokenInTransit, IsLive, tables, callVars
<1>1. ASSUME NEW c \in Calls, NEW b \in Browsers, NEW e \in Emails, RegisterFind(c, b, e)
      PROVE  TokenInTransit'
  BY NoneAssumption, <1>1 DEF RegisterFind, Start
<1>2. ASSUME NEW c \in Calls, NEW b \in Browsers, NEW a \in Accounts, LoginFind(c, b, a)
      PROVE  TokenInTransit'
  BY NoneAssumption, <1>2 DEF LoginFind, Start
<1>3. ASSUME NEW c \in Calls, NEW b \in Browsers, RefreshSend(c, b)
      PROVE  TokenInTransit'
  BY NoneAssumption, <1>3 DEF RefreshSend, Start
<1>4. ASSUME NEW c \in Calls, NEW b \in Browsers, LogoutSend(c, b)
      PROVE  TokenInTransit'
  BY NoneAssumption, <1>4 DEF LogoutSend, Start
<1>5. ASSUME NEW c \in Calls, RegisterCreate(c)
      PROVE  TokenInTransit'
  BY NoneAssumption, <1>5 DEF RegisterCreate, StepTo
<1>6. ASSUME NEW c \in Calls, Issue(c)
      PROVE  TokenInTransit'
  <2>1. /\ UNCHANGED <<cookie, browser, presented>>
        /\ \A d \in Calls \ {c} : pc'[d] = pc[d]
        /\ disturbed \subseteq disturbed'
    BY <1>6 DEF Issue, StepTo, Disturb
  <2>2. CASE pc'[c] = "idle" /\ UNCHANGED <<holder, issued>>
    BY <2>1, <2>2
  <2>3. ASSUME NEW t \in Undrawn,
               holder' = [holder EXCEPT ![t] = account[c]],
               issued' = [issued EXCEPT ![c] = t]
        PROVE  TokenInTransit'
    <3>1. /\ t \in Tokens
          /\ \A b \in Browsers : cookie[b] # t
          /\ \A d \in Calls : presented[d] # t /\ issued[d] # t
      BY NoneAssumption DEF Undrawn
    <3>2. holder'[t] # NoAccount /\ \A u \in Tokens \ {t} : holder'[u] = holder[u]
      BY <1>6, <2>3, <3>1 DEF Issue
    <3>3. issued'[c] = t /\ \A d \in Calls \ {c} : issued'[d] = issued[d]
      BY <2>3
    <3> QED
      BY <2>1, <3>1, <3>2, <3>3
  <2> QED
    BY <1>6, <2>2, <2>3 DEF Issue, StepTo, Disturb
<1>7. ASSUME NEW c \in Calls, RefreshFind(c)
      PROVE  TokenInTransit'
  BY NoneAssumption, <1>7 DEF RefreshFind, StepTo
<1>8. ASSUME NEW c \in Calls, Redeem(c)
      PROVE  TokenInTransit'
  BY NoneAssumption, <1>8 DEF Redeem, StepTo, Disturb
<1>9. ASSUME NEW c \in Calls, Revoke(c)
      PROVE  TokenInTransit'
  BY NoneAssumption, <1>9 DEF Revoke, StepTo
<1>10. ASSUME NEW c \in Calls, SetRefreshCookie(c)
      PROVE  TokenInTransit'
  BY NoneAssumption, <1>10 DEF SetRefreshCookie, StepTo, Disturb
<1>11. ASSUME NEW c \in Calls, ClearRefreshCookie(c)
      PROVE  TokenInTransit'
  BY NoneAssumption, <1>11 DEF ClearRefreshCookie, StepTo, Disturb
<1>12. ASSUME NEW t \in Tokens, Expire(t)
      PROVE  TokenInTransit'
  BY NoneAssumption, <1>12 DEF Expire
<1>13. ASSUME NEW b \in Browsers, DropCookie(b)
      PROVE  TokenInTransit'
  BY NoneAssumption, <1>13 DEF DropCookie
<1>14. ASSUME NEW a \in Accounts, RemoveAccount(a)
      PROVE  TokenInTransit'
  BY NoneAssumption, <1>14 DEF RemoveAccount
<1>15. CASE UNCHANGED vars
  BY <1>15 DEF vars, tables, callVars
<1> QED
  BY <1>1, <1>2, <1>3, <1>4, <1>5, <1>6, <1>7, <1>8, <1>9, <1>10, <1>11, <1>12, <1>13,
     <1>14, <1>15 DEF Next, CallStep

\* A cookie dies only by a call of its own browser that will replace it.
LEMMA CookieStep ==
  ASSUME CookieInv, [Next]_vars
  PROVE  CookieIsLive'
<1> USE DEF CookieInv, SessionInv, AuthTypeOK, TokensAreDrawn, CallShape,
            OneBrowserPerToken, Has, TokenInTransit, CookieIsLive, IsLive, tables, callVars
<1>1. ASSUME NEW c \in Calls, NEW b \in Browsers, NEW e \in Emails, RegisterFind(c, b, e)
      PROVE  CookieIsLive'
  BY NoneAssumption, <1>1 DEF RegisterFind, Start
<1>2. ASSUME NEW c \in Calls, NEW b \in Browsers, NEW a \in Accounts, LoginFind(c, b, a)
      PROVE  CookieIsLive'
  BY NoneAssumption, <1>2 DEF LoginFind, Start
<1>3. ASSUME NEW c \in Calls, NEW b \in Browsers, RefreshSend(c, b)
      PROVE  CookieIsLive'
  BY NoneAssumption, <1>3 DEF RefreshSend, Start
<1>4. ASSUME NEW c \in Calls, NEW b \in Browsers, LogoutSend(c, b)
      PROVE  CookieIsLive'
  BY NoneAssumption, <1>4 DEF LogoutSend, Start
<1>5. ASSUME NEW c \in Calls, RegisterCreate(c)
      PROVE  CookieIsLive'
  BY NoneAssumption, <1>5 DEF RegisterCreate, StepTo
<1>6. ASSUME NEW c \in Calls, Issue(c)
      PROVE  CookieIsLive'
  BY NoneAssumption, <1>6 DEF Issue, StepTo, Disturb, Undrawn
<1>7. ASSUME NEW c \in Calls, RefreshFind(c)
      PROVE  CookieIsLive'
  BY NoneAssumption, <1>7 DEF RefreshFind, StepTo
<1>8. ASSUME NEW c \in Calls, Redeem(c)
      PROVE  CookieIsLive'
  BY NoneAssumption, <1>8 DEF Redeem, StepTo, Disturb
<1>9. ASSUME NEW c \in Calls, Revoke(c)
      PROVE  CookieIsLive'
  BY NoneAssumption, <1>9 DEF Revoke, StepTo
<1>10. ASSUME NEW c \in Calls, SetRefreshCookie(c)
      PROVE  CookieIsLive'
  BY NoneAssumption, <1>10 DEF SetRefreshCookie, StepTo, Disturb
<1>11. ASSUME NEW c \in Calls, ClearRefreshCookie(c)
      PROVE  CookieIsLive'
  <2>1. /\ UNCHANGED <<holder, expired, browser, presented>>
        /\ \A d \in Calls \ {c} : pc'[d] = pc[d]
        /\ disturbed \subseteq disturbed'
        /\ \A b \in Browsers \ {browser[c]} : cookie'[b] = cookie[b]
    BY <1>11 DEF ClearRefreshCookie, StepTo, Disturb
  <2>2. browser[c] \in disturbed' \/ cookie'[browser[c]] = NoToken
    BY <1>11 DEF ClearRefreshCookie, Disturb
  <2> HIDE DEF CookieInv
  <2> SUFFICES ASSUME NEW b \in Browsers, b \notin disturbed', cookie'[b] # NoToken
               PROVE  \/ IsLive(cookie[b])
                      \/ cookie[b] \in expired
                      \/ \E d \in Calls \ {c} :
                           /\ browser[d] = b
                           /\ \/ pc[d] \in {"issue", "replySet"} /\ presented[d] # NoToken
                              \/ pc[d] = "replyClear"
    BY <2>1, <2>2
  <2>3. b # browser[c] /\ cookie[b] = cookie'[b] /\ b \notin disturbed
    BY <2>1, <2>2
  <2>4. b \in Browsers \ disturbed /\ cookie[b] # NoToken
    BY <2>3
  <2>5. CookieIsLive
    BY DEF CookieInv
  <2> QED
    BY <2>3, <2>4, <2>5
<1>12. ASSUME NEW t \in Tokens, Expire(t)
      PROVE  CookieIsLive'
  BY NoneAssumption, <1>12 DEF Expire
<1>13. ASSUME NEW b \in Browsers, DropCookie(b)
      PROVE  CookieIsLive'
  BY NoneAssumption, <1>13 DEF DropCookie
<1>14. ASSUME NEW a \in Accounts, RemoveAccount(a)
      PROVE  CookieIsLive'
  BY NoneAssumption, <1>14 DEF RemoveAccount
<1>15. CASE UNCHANGED vars
  BY <1>15 DEF vars, tables, callVars
<1> QED
  BY <1>1, <1>2, <1>3, <1>4, <1>5, <1>6, <1>7, <1>8, <1>9, <1>10, <1>11, <1>12, <1>13,
     <1>14, <1>15 DEF Next, CallStep

LEMMA CookieInvStep == CookieInv /\ [Next]_vars => CookieInv'
BY SessionStep, OneBrowserStep, TransitStep, CookieStep DEF CookieInv

-----------------------------------------------------------------------------
(* The theorems. *)

LEMMA Invariance == Spec => []CookieInv
<1>1. Init => CookieInv
  BY InitCookieInv
<1>2. CookieInv /\ [Next]_vars => CookieInv'
  BY CookieInvStep
<1> QED
  BY <1>1, <1>2, PTL DEF Spec

\* The tables, the cookies and the calls keep their types (all handlers).
THEOREM AuthTypeCorrect == Spec => []AuthTypeOK
<1>1. CookieInv => AuthTypeOK
  BY DEF CookieInv, SessionInv
<1> QED
  BY <1>1, Invariance, PTL

\* Of two registrations with one email at most one succeeds (register).
THEOREM UniqueAccounts == Spec => []OneAccountPerEmail
<1>1. Init => OneAccountPerEmail
  BY DEF Init, OneAccountPerEmail, Exists
<1>2. CookieInv /\ OneAccountPerEmail /\ [Next]_vars => OneAccountPerEmail'
  BY UniqueStep DEF CookieInv
<1> QED
  BY <1>1, <1>2, Invariance, PTL DEF Spec

\* Rotation never leaves a session with two tokens, nor two calls with the right
\* to continue it (refresh).
THEOREM ExclusiveRotation == Spec => []RotationIsExclusive
<1>1. CookieInv => RotationIsExclusive
  BY DEF CookieInv, SessionInv
<1> QED
  BY <1>1, Invariance, PTL

\* No call revives a session that is over (refresh, logout).
THEOREM DeadSessions == Spec => DeadSessionStaysDead
<1>1. CookieInv /\ [Next]_vars => [\A s \in Tokens : Dead(s) => Dead(s)']_vars
  BY DeadStep DEF CookieInv
<1> QED
  BY <1>1, Invariance, PTL DEF Spec, DeadSessionStaysDead

\* A browser none of whose calls was cut off is never left with a used token
\* (refresh in several tabs, logout).
THEOREM CookiesAreLive == Spec => []CookieIsLive
<1>1. CookieInv => CookieIsLive
  BY DEF CookieInv
<1> QED
  BY <1>1, Invariance, PTL
=============================================================================
