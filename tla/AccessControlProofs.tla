------------------------ MODULE AccessControlProofs -------------------------
(***************************************************************************)
(* Theorems about AccessControl, for every number of accounts, tokens,      *)
(* browsers, calls and requests, and every set of faults.                   *)
(***************************************************************************)
EXTENDS AccessControl, AuthSessionsProofs

-----------------------------------------------------------------------------
(* The invariant. *)

\* An account that exists, or owns a token, has been drawn: it is in known.
DrawnAccounts ==
  /\ \A a \in Accounts : Exists(a) => a \in known
  /\ \A t \in Tokens : IsLive(t) => holder[t] \in known

\* What a call signs names the account of the call.
SignedClaims ==
  \A c \in Calls : pc[c] \in {"redeem", "issue", "replySet"} =>
    /\ claims[c] \in Claims
    /\ claims[c].sub = account[c]
    /\ account[c] \in known

\* The token of a browser names an account delivered to it.
DeliveredBearers ==
  \A b \in Browsers : bearer[b] # NoClaims =>
    bearer[b].sub \in known /\ bearer[b].sub \in deliveredTo[b]

\* A request in progress: its token names a delivered account, and the histories
\* cover what the account is now or what the guard has seen.
AskOK(q) ==
  /\ ask[q].pc # "idle" =>
       /\ ask[q].token \in Claims
       /\ ask[q].token.sub \in known
       /\ ask[q].token.sub \in deliveredTo[ask[q].from]
  /\ ask[q].pc = "guard" =>
       /\ Exists(ask[q].token.sub) => ask[q].wasLive
       /\ IsAdmin(ask[q].token.sub) => ask[q].wasAdmin
  /\ ask[q].pc \in {"handler", "served"} =>
       /\ ask[q].user = ask[q].token.sub
       /\ ask[q].wasLive
       /\ ask[q].route = "listUsers" => ask[q].wasAdmin

AskInv == \A q \in Asks : AskOK(q)

AccessInv ==
  AccessTypeOK /\ DrawnAccounts /\ SignedClaims /\ DeliveredBearers /\ AskInv

-----------------------------------------------------------------------------
(* What a step of the sessions does to the accounts and to the calls. *)

\* Accounts are drawn once: one that was drawn and is gone never comes back.
AccountsOnce ==
  /\ known \subseteq known'
  /\ \A a \in Accounts : Exists(a)' => a \in known' /\ (a \in known => Exists(a))

\* A call keeps the account it has read until its reply.
AccountsKept ==
  \A c \in Calls :
    /\ HasRead(c) => account'[c] \in Accounts /\ account'[c] \in known'
    /\ pc'[c] \in {"redeem", "issue", "replySet"} /\ ~HasRead(c) =>
         pc[c] \in {"redeem", "issue", "replySet"} /\ account'[c] = account[c]

LEMMA AccountStep ==
  ASSUME SessionInv, DrawnAccounts, Next
  PROVE  AccountsOnce /\ AccountsKept /\ DrawnAccounts'
<1> USE NoneAssumption
    DEF SessionInv, AuthTypeOK, Pcs, CallShape, DrawnAccounts, AccountsOnce, AccountsKept, Exists, IsLive, HasRead,
        tables, callVars
<1>1. ASSUME NEW c \in Calls, NEW b \in Browsers, NEW e \in Emails, RegisterFind(c, b, e)
      PROVE  AccountsOnce /\ AccountsKept /\ DrawnAccounts'
  BY <1>1 DEF RegisterFind, Start
<1>2. ASSUME NEW c \in Calls, NEW b \in Browsers, NEW a \in Accounts, LoginFind(c, b, a)
      PROVE  AccountsOnce /\ AccountsKept /\ DrawnAccounts'
  BY <1>2 DEF LoginFind, Start
<1>3. ASSUME NEW c \in Calls, NEW b \in Browsers, RefreshSend(c, b)
      PROVE  AccountsOnce /\ AccountsKept /\ DrawnAccounts'
  BY <1>3 DEF RefreshSend, Start
<1>4. ASSUME NEW c \in Calls, NEW b \in Browsers, LogoutSend(c, b)
      PROVE  AccountsOnce /\ AccountsKept /\ DrawnAccounts'
  BY <1>4 DEF LogoutSend, Start
<1>5. ASSUME NEW c \in Calls, RegisterCreate(c)
      PROVE  AccountsOnce /\ AccountsKept /\ DrawnAccounts'
  BY <1>5 DEF RegisterCreate, StepTo
<1>6. ASSUME NEW c \in Calls, Issue(c)
      PROVE  AccountsOnce /\ AccountsKept /\ DrawnAccounts'
  BY <1>6 DEF Issue, StepTo, Disturb, Undrawn
<1>7. ASSUME NEW c \in Calls, RefreshFind(c)
      PROVE  AccountsOnce /\ AccountsKept /\ DrawnAccounts'
  BY <1>7 DEF RefreshFind, StepTo
<1>8. ASSUME NEW c \in Calls, Redeem(c)
      PROVE  AccountsOnce /\ AccountsKept /\ DrawnAccounts'
  BY <1>8 DEF Redeem, StepTo, Disturb
<1>9. ASSUME NEW c \in Calls, Revoke(c)
      PROVE  AccountsOnce /\ AccountsKept /\ DrawnAccounts'
  BY <1>9 DEF Revoke, StepTo
<1>10. ASSUME NEW c \in Calls, SetRefreshCookie(c) \/ ClearRefreshCookie(c)
       PROVE  AccountsOnce /\ AccountsKept /\ DrawnAccounts'
  BY <1>10 DEF SetRefreshCookie, ClearRefreshCookie, StepTo, Disturb
<1>11. ASSUME NEW a \in Accounts, RemoveAccount(a)
       PROVE  AccountsOnce /\ AccountsKept /\ DrawnAccounts'
  BY <1>11 DEF RemoveAccount
<1>12. ASSUME NEW t \in Tokens, Expire(t)
       PROVE  AccountsOnce /\ AccountsKept /\ DrawnAccounts'
  BY <1>12 DEF Expire
<1>13. ASSUME NEW b \in Browsers, DropCookie(b)
       PROVE  AccountsOnce /\ AccountsKept /\ DrawnAccounts'
  BY <1>13 DEF DropCookie
<1> QED
  BY <1>1, <1>2, <1>3, <1>4, <1>5, <1>6, <1>7, <1>8, <1>9, <1>10, <1>11, <1>12, <1>13
     DEF Next, CallStep

-----------------------------------------------------------------------------
(* The steps. *)

LEMMA InitAccessInv == AccessInit => AccessInv
<1> SUFFICES ASSUME AccessInit PROVE AccessInv
  OBVIOUS
<1> USE NoneAssumption, ClaimsAssumption DEF AccessInit, Init
<1>1. AccessTypeOK
  BY DEF AccessTypeOK, Roles
<1>2. DrawnAccounts /\ SignedClaims /\ DeliveredBearers
  BY DEF DrawnAccounts, SignedClaims, DeliveredBearers, Exists, IsLive
<1>3. AskInv
  BY DEF AskInv, AskOK
<1> QED
  BY <1>1, <1>2, <1>3 DEF AccessInv

LEMMA SignInKeeps ==
  ASSUME SessionInv, SessionInv', AccessInv, SignInStep
  PROVE  AccessInv'
<1>0. AccountsOnce /\ AccountsKept /\ DrawnAccounts'
  BY AccountStep DEF AccessInv, SignInStep
<1>1. ASSUME NEW c \in Calls, HasRead(c)
      PROVE  ClaimsOf(c) \in Claims /\ ClaimsOf(c).sub = account'[c]
  BY <1>0, <1>1 DEF ClaimsOf, Claims, AccountsKept, AccessInv, AccessTypeOK, SessionInv,
                    AuthTypeOK
<1>2. claims' \in [Calls -> Claims \cup {NoClaims}]
  BY <1>1 DEF SignInStep, AccessInv, AccessTypeOK
<1>3. SignedClaims'
  BY <1>0, <1>1 DEF SignInStep, AccessInv, SignedClaims, AccountsKept, AccountsOnce, HasRead
<1>4. ASSUME NEW c \in Calls, Delivered(c)
      PROVE  /\ claims[c] \in Claims /\ claims[c].sub = account[c]
             /\ account[c] \in known /\ account[c] \in Accounts /\ browser[c] \in Browsers
  BY <1>4 DEF Delivered, AccessInv, SignedClaims, Claims, SessionInv, AuthTypeOK
<1>5. /\ bearer' \in [Browsers -> Claims \cup {NoClaims}]
      /\ deliveredTo' \in [Browsers -> SUBSET Accounts]
      /\ \A b \in Browsers : deliveredTo[b] \subseteq deliveredTo'[b]
      /\ DeliveredBearers'
  <2>1. CASE UNCHANGED <<bearer, deliveredTo>>
    BY <1>0, <2>1 DEF AccessInv, AccessTypeOK, DeliveredBearers, AccountsOnce
  <2>2. ASSUME NEW c \in Calls, Delivered(c),
               bearer' = [bearer EXCEPT ![browser[c]] = claims[c]],
               deliveredTo' = [deliveredTo EXCEPT ![browser[c]] = @ \cup {account[c]}]
        PROVE  /\ bearer' \in [Browsers -> Claims \cup {NoClaims}]
               /\ deliveredTo' \in [Browsers -> SUBSET Accounts]
               /\ \A b \in Browsers : deliveredTo[b] \subseteq deliveredTo'[b]
               /\ DeliveredBearers'
    BY <1>0, <1>4, <2>2 DEF AccessInv, AccessTypeOK, DeliveredBearers, AccountsOnce
  <2> QED
    BY <2>1, <2>2 DEF SignInStep
<1>6. AccessTypeOK'
  BY <1>2, <1>5 DEF SignInStep, AccessInv, AccessTypeOK
<1>7. AskInv'
  <2> SUFFICES ASSUME NEW q \in Asks, ask[q].pc # "idle"
               PROVE  /\ ask[q].token \in Claims
                      /\ ask[q].token.sub \in known'
                      /\ ask[q].token.sub \in deliveredTo'[ask[q].from]
                      /\ ask[q].pc = "guard" =>
                           /\ Exists(ask[q].token.sub)' => ask[q].wasLive
                           /\ IsAdmin(ask[q].token.sub)' => ask[q].wasAdmin
    BY DEF SignInStep, AccessInv, AskInv, AskOK
  <2>1. ask[q].token \in Claims /\ ask[q].token.sub \in known
    BY DEF AccessInv, AskInv, AskOK
  <2>2. ask[q].token.sub \in Accounts /\ ask[q].from \in Browsers
    BY <2>1 DEF Claims, AccessInv, AccessTypeOK, AskRecords
  <2>3. ask[q].token.sub \in known' /\ ask[q].token.sub \in deliveredTo'[ask[q].from]
    BY <1>0, <1>5, <2>1, <2>2 DEF AccessInv, AskInv, AskOK, AccountsOnce
  <2>4. Exists(ask[q].token.sub)' => Exists(ask[q].token.sub)
    BY <1>0, <2>1, <2>2 DEF AccountsOnce, SignInStep
  <2>5. IsAdmin(ask[q].token.sub)' => IsAdmin(ask[q].token.sub)
    BY <2>4 DEF IsAdmin, SignInStep
  <2> QED
    BY <2>1, <2>3, <2>4, <2>5 DEF AccessInv, AskInv, AskOK
<1> QED
  BY <1>0, <1>3, <1>5, <1>6, <1>7 DEF AccessInv

LEMMA ChangeRoleKeeps ==
  ASSUME SessionInv, AccessInv, NEW a \in Accounts, NEW r \in Roles, ChangeRole(a, r)
  PROVE  AccessInv'
<1> USE DEF AccessInv, ChangeRole
<1>1. DrawnAccounts' /\ SignedClaims' /\ DeliveredBearers'
  BY DEF DrawnAccounts, SignedClaims, DeliveredBearers, Exists, IsLive, vars, tables, callVars
<1>2. AccessTypeOK'
  <2>1. role' \in [Accounts -> Roles]
    BY DEF AccessTypeOK
  <2>2. \A q \in Asks : [ask[q] EXCEPT !.wasAdmin = TRUE] \in AskRecords
    BY DEF AccessTypeOK, AskRecords
  <2> QED
    BY <2>1, <2>2 DEF AccessTypeOK
<1>3. UNCHANGED <<emailOf, known, deliveredTo>>
  BY DEF vars, tables
<1>4. ASSUME NEW q \in Asks PROVE AskOK(q)'
  <2>1. ask[q] \in AskRecords /\ AskOK(q)
    BY DEF AccessTypeOK, AskInv
  <2>2. CASE ask[q].pc \in {"guard", "handler"} /\ ask[q].token.sub = a /\ r = "ADMIN"
    <3>1. ask'[q] = [ask[q] EXCEPT !.wasAdmin = TRUE]
      BY <2>2
    <3> HIDE DEF AccessInv, ChangeRole
    <3> QED
      BY <1>3, <2>1, <2>2, <3>1 DEF AskOK, AskRecords, Exists
  <2>3. CASE ~(ask[q].pc \in {"guard", "handler"} /\ ask[q].token.sub = a /\ r = "ADMIN")
    <3>1. ask'[q] = ask[q]
      BY <2>3
    <3>2. ask[q].pc = "guard" =>
            (IsAdmin(ask[q].token.sub)' => IsAdmin(ask[q].token.sub))
      BY <1>3, <2>1, <2>3 DEF IsAdmin, Exists, AccessTypeOK, AskOK, Claims
    <3> HIDE DEF AccessInv, ChangeRole
    <3> QED
      BY <1>3, <2>1, <3>1, <3>2 DEF AskOK, Exists
  <2> QED
    BY <2>2, <2>3
<1>5. AskInv'
  BY <1>4 DEF AskInv
<1> QED
  BY <1>1, <1>2, <1>5

LEMMA SendKeeps ==
  ASSUME SessionInv, AccessInv, NEW q \in Asks, NEW b \in Browsers, NEW route \in Routes,
         Send(q, b, route)
  PROVE  AccessInv'
<1> USE DEF AccessInv, Send
<1>1. DrawnAccounts' /\ SignedClaims' /\ DeliveredBearers'
  BY DEF DrawnAccounts, SignedClaims, DeliveredBearers, Exists, IsLive, vars, tables, callVars
<1>2. bearer[b] \in Claims
  BY DEF AccessTypeOK
<1>3. ask'[q] \in AskRecords
  <2>1. Exists(bearer[b].sub) \in BOOLEAN /\ IsAdmin(bearer[b].sub) \in BOOLEAN
    BY DEF Exists, IsAdmin
  <2> QED
    BY <1>2, <2>1 DEF AskRecords, AccessTypeOK
<1>4. AccessTypeOK'
  BY <1>3 DEF AccessTypeOK
<1>5. ASSUME NEW p \in Asks, p # q PROVE ask'[p] = ask[p]
  BY <1>5
<1>6. /\ ask'[q].pc = "guard" /\ ask'[q].token = bearer[b] /\ ask'[q].from = b
      /\ Exists(bearer[b].sub) => ask'[q].wasLive
      /\ IsAdmin(bearer[b].sub) => ask'[q].wasAdmin
  BY DEF AccessTypeOK
<1>7. UNCHANGED <<emailOf, known, role, deliveredTo>>
  BY DEF vars, tables
<1>8. ASSUME NEW p \in Asks, p # q PROVE AskOK(p)'
  BY <1>5, <1>7, <1>8 DEF AskInv, AskOK, Exists, IsAdmin
<1>9. AskOK(q)'
  BY <1>2, <1>6, <1>7 DEF AskOK, DeliveredBearers, Exists, IsAdmin
<1>10. AskInv'
  BY <1>8, <1>9 DEF AskInv
<1> QED
  BY <1>1, <1>4, <1>10

\* AskTo leaves the other fields of the record alone.
LEMMA RecordUpdate ==
  ASSUME NEW x \in AskRecords, NEW a \in Accounts \cup {NoAccount},
         NEW to \in {"idle", "guard", "handler", "served", "unauthorized", "forbidden"}
  PROVE  [x EXCEPT !.pc = to, !.user = a] \in AskRecords
BY DEF AskRecords

LEMMA GuardKeeps ==
  ASSUME SessionInv, AccessInv, NEW q \in Asks, Guard(q)
  PROVE  AccessInv'
<1>1. UNCHANGED <<emailOf, known, holder, pc, account, role, claims, bearer, deliveredTo>>
  BY DEF Guard, vars, tables, callVars
<1>2. DrawnAccounts' /\ SignedClaims' /\ DeliveredBearers'
  BY <1>1 DEF AccessInv, DrawnAccounts, SignedClaims, DeliveredBearers, Exists, IsLive
<1>3. ask[q] \in AskRecords /\ ask[q].token \in Claims /\ ask[q].pc = "guard" /\ AskOK(q)
  BY DEF Guard, AccessInv, AccessTypeOK, AskInv, AskOK
<1>4. PICK to \in {"handler", "forbidden", "unauthorized"}, a \in Accounts \cup {NoAccount} :
        /\ ask' = [ask EXCEPT ![q].pc = to, ![q].user = a]
        /\ to = "handler" =>
             /\ a = ask[q].token.sub /\ Exists(a)
             /\ ask[q].route = "listUsers" => role[a] = "ADMIN"
  BY <1>3 DEF Guard, AskTo, Validate, MayEnter, Claims
<1>5. ask'[q] = [ask[q] EXCEPT !.pc = to, !.user = a] /\ \A p \in Asks \ {q} : ask'[p] = ask[p]
  BY <1>4 DEF AccessInv, AccessTypeOK
<1>6. /\ ask'[q].pc = to /\ ask'[q].user = a /\ ask'[q].token = ask[q].token
      /\ ask'[q].from = ask[q].from /\ ask'[q].route = ask[q].route
      /\ ask'[q].wasLive = ask[q].wasLive /\ ask'[q].wasAdmin = ask[q].wasAdmin
  BY <1>3, <1>5 DEF AskRecords
<1>7. ask'[q] \in AskRecords
  <2>1. to \in {"idle", "guard", "handler", "served", "unauthorized", "forbidden"}
    BY <1>4
  <2>2. [ask[q] EXCEPT !.pc = to, !.user = a] \in AskRecords
    BY <1>3, <2>1, RecordUpdate, Zenon
  <2> QED
    BY <1>5, <2>2, Zenon
<1>8. AccessTypeOK'
  BY <1>1, <1>4, <1>7 DEF AccessInv, AccessTypeOK
<1>9. ASSUME NEW p \in Asks, p # q PROVE AskOK(p)'
  BY <1>1, <1>5, <1>9 DEF AccessInv, AskInv, AskOK, Exists, IsAdmin
<1>10. AskOK(q)'
  BY <1>1, <1>3, <1>4, <1>6 DEF AskOK, Exists, IsAdmin
<1>11. AskInv'
  BY <1>9, <1>10 DEF AskInv
<1> QED
  BY <1>2, <1>8, <1>11 DEF AccessInv

LEMMA HandleKeeps ==
  ASSUME SessionInv, AccessInv, NEW q \in Asks, Handle(q)
  PROVE  AccessInv'
<1>1. UNCHANGED <<emailOf, known, holder, pc, account, role, claims, bearer, deliveredTo>>
  BY DEF Handle, vars, tables, callVars
<1>2. DrawnAccounts' /\ SignedClaims' /\ DeliveredBearers'
  BY <1>1 DEF AccessInv, DrawnAccounts, SignedClaims, DeliveredBearers, Exists, IsLive
<1>3. ask[q] \in AskRecords /\ ask[q].pc = "handler" /\ AskOK(q)
  BY DEF Handle, AccessInv, AccessTypeOK, AskInv
<1>4. PICK to \in {"served", "unauthorized"}, a \in Accounts \cup {NoAccount} :
        ask' = [ask EXCEPT ![q].pc = to, ![q].user = a] /\ a = ask[q].user
  <2>1. ask[q].user \in Accounts \cup {NoAccount}
    BY <1>3 DEF AskRecords
  <2> QED
    BY <2>1 DEF Handle, AskTo
<1>5. ask'[q] = [ask[q] EXCEPT !.pc = to, !.user = a] /\ \A p \in Asks \ {q} : ask'[p] = ask[p]
  BY <1>4 DEF AccessInv, AccessTypeOK
<1>6. /\ ask'[q].pc = to /\ ask'[q].user = a /\ ask'[q].token = ask[q].token
      /\ ask'[q].from = ask[q].from /\ ask'[q].route = ask[q].route
      /\ ask'[q].wasLive = ask[q].wasLive /\ ask'[q].wasAdmin = ask[q].wasAdmin
  BY <1>3, <1>5 DEF AskRecords
<1>7. ask'[q] \in AskRecords
  <2>1. to \in {"idle", "guard", "handler", "served", "unauthorized", "forbidden"}
    BY <1>4
  <2>2. [ask[q] EXCEPT !.pc = to, !.user = a] \in AskRecords
    BY <1>3, <2>1, RecordUpdate, Zenon
  <2> QED
    BY <1>5, <2>2, Zenon
<1>8. AccessTypeOK'
  BY <1>1, <1>4, <1>7 DEF AccessInv, AccessTypeOK
<1>9. ASSUME NEW p \in Asks, p # q PROVE AskOK(p)'
  BY <1>1, <1>5, <1>9 DEF AccessInv, AskInv, AskOK, Exists, IsAdmin
<1>10. AskOK(q)'
  BY <1>1, <1>3, <1>4, <1>6 DEF AskOK, Exists, IsAdmin
<1>11. AskInv'
  BY <1>9, <1>10 DEF AskInv
<1> QED
  BY <1>2, <1>8, <1>11 DEF AccessInv

LEMMA AccessStep ==
  SessionInv /\ SessionInv' /\ AccessInv /\ [AccessNext]_<<vars, accessVars>> => AccessInv'
<1> SUFFICES ASSUME SessionInv, SessionInv', AccessInv, [AccessNext]_<<vars, accessVars>>
             PROVE  AccessInv'
  OBVIOUS
<1>1. CASE UNCHANGED <<vars, accessVars>>
  BY <1>1 DEF vars, tables, callVars, accessVars, AccessInv, AccessTypeOK, DrawnAccounts,
              SignedClaims, DeliveredBearers, AskInv, AskOK, Exists, IsAdmin, IsLive
<1> QED
  BY <1>1, SignInKeeps, ChangeRoleKeeps, SendKeeps, GuardKeeps, HandleKeeps DEF AccessNext

-----------------------------------------------------------------------------
(* The theorems. *)

\* The sessions under the guards are those of AuthSessions: its theorems hold.
LEMMA AccessSessions == AccessSpec => Spec
<1>1. AccessInit => Init
  BY DEF AccessInit
<1>2. [AccessNext]_<<vars, accessVars>> => [Next]_vars
  BY DEF AccessNext, SignInStep, ChangeRole, Send, Guard, Handle
<1> QED
  BY <1>1, <1>2, PTL DEF AccessSpec, Spec

LEMMA AccessInvariance == AccessSpec => []AccessInv
<1>1. AccessSpec => []SessionInv
  BY AccessSessions, Invariance, PTL DEF CookieInv
<1> QED
  BY <1>1, InitAccessInv, AccessStep, PTL DEF AccessSpec

\* The type invariant of the access tokens and the guarded requests.
THEOREM AccessTypeCorrect == AccessSpec => []AccessTypeOK
<1>1. AccessInv => AccessTypeOK
  BY DEF AccessInv
<1> QED
  BY <1>1, AccessInvariance, PTL

\* The list of users goes only to accounts that are ADMIN during the request
\* (RolesGuard with the role JwtStrategy.validate has read).
THEOREM AdminsOnly == AccessSpec => []AdminListIsAuthorised
<1>1. AccessInv => AdminListIsAuthorised
  BY DEF AccessInv, AskInv, AskOK, AdminListIsAuthorised
<1> QED
  BY <1>1, AccessInvariance, PTL

\* A removed account is not served again (JwtStrategy.validate).
THEOREM RemovedAccountsAreOut == AccessSpec => []RemovedIsLockedOut
<1>1. AccessInv => RemovedIsLockedOut
  BY DEF AccessInv, AskInv, AskOK, RemovedIsLockedOut
<1> QED
  BY <1>1, AccessInvariance, PTL

\* Requests act as an account the browser signed in as, never as its successor
\* in the same email (JwtStrategy.validate looks for the id).
THEOREM RequestsActAsSignedIn == AccessSpec => []ActsAsSignedIn
<1>1. AccessInv => ActsAsSignedIn
  BY DEF AccessInv, AskInv, AskOK, ActsAsSignedIn
<1> QED
  BY <1>1, AccessInvariance, PTL
=============================================================================
