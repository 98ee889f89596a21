---------------------------- MODULE AccessControl ----------------------------
(***************************************************************************)
(* The guards of src/auth and the routes behind them, over the sessions of  *)
(* AuthSessions: every register, login and refresh also signs an access     *)
(* token with the account as it was read then; the browser sends it with    *)
(* each request, and JwtStrategy looks the account up again.  Accounts are  *)
(* removed, and roles changed in the database, at any time.  Requests       *)
(* without a token, or with one that fails verification, are left out.      *)
(***************************************************************************)
EXTENDS AuthSessions

CONSTANTS
  Asks,          \* bound: the guarded requests, each sent once
  NoClaims

VARIABLES
  role,          \* users.role
  claims,        \* the payload call c signs: sub, email, role
  bearer,        \* the access token browser b holds, as its payload
  ask,           \* the guarded requests
  deliveredTo    \* history: accounts whose sign-in or rotation reached b

accessVars == <<role, claims, bearer, ask, deliveredTo>>

Roles  == {"USER", "ADMIN"}
Routes == {"me", "listUsers"}
Claims == [sub : Accounts, email : Emails \cup {NoEmail}, role : Roles]

ASSUME ClaimsAssumption == NoClaims \notin Claims

\* wasLive: the account existed when the request was sent; wasAdmin: it was an
\* ADMIN then or at a moment since (histories).
AskRecords ==
  [pc : {"idle", "guard", "handler", "served", "unauthorized", "forbidden"},
   route : Routes, from : Browsers, token : Claims \cup {NoClaims},
   user : Accounts \cup {NoAccount}, wasLive : BOOLEAN, wasAdmin : BOOLEAN]

AccessTypeOK ==
  /\ role \in [Accounts -> Roles]
  /\ claims \in [Calls -> Claims \cup {NoClaims}]
  /\ bearer \in [Browsers -> Claims \cup {NoClaims}]
  /\ ask \in [Asks -> AskRecords]
  /\ deliveredTo \in [Browsers -> SUBSET Accounts]

AccessInit ==
  /\ Init
  /\ role = [a \in Accounts |-> "USER"]
  /\ claims = [c \in Calls |-> NoClaims]
  /\ bearer = [b \in Browsers |-> NoClaims]
  /\ ask \in [Asks -> {x \in AskRecords :
                         /\ x.pc = "idle" /\ x.token = NoClaims /\ x.user = NoAccount
                         /\ ~x.wasLive /\ ~x.wasAdmin /\ x.route = "me"}]
  /\ deliveredTo = [b \in Browsers |-> {}]

IsAdmin(a) == Exists(a) /\ role[a] = "ADMIN"

-----------------------------------------------------------------------------
(* Access tokens. *)

\* The account register, login or refresh has just read: what sign will get.
HasRead(c) == pc[c] \notin {"redeem", "issue"} /\ pc'[c] \in {"redeem", "issue"}

\* The reply with the cookie, whose body is the access token, has arrived.
Delivered(c) ==
  pc[c] = "replySet" /\ pc'[c] = "idle" /\ cookie'[browser[c]] = issued[c]

\* Mutated ClaimsOf: the payload of a registration is built before the account.
ClaimsOf_BeforeCreate(c) == [sub |-> account[c], email |-> email[c], role |-> "USER"]

ClaimsOf(c) ==
  LET a == account'[c] IN [sub |-> a, email |-> emailOf'[a], role |-> role[a]]

\* A step of AuthSessions, with the access tokens it reads, signs and delivers.
SignInStep ==
  /\ Next
  /\ claims' = [c \in Calls |-> IF HasRead(c) THEN ClaimsOf(c)
                                ELSE IF pc'[c] = "idle" THEN NoClaims ELSE claims[c]]
  /\ \/ \E c \in Calls :
          /\ Delivered(c)
          /\ bearer' = [bearer EXCEPT ![browser[c]] = claims[c]]
          /\ deliveredTo' = [deliveredTo EXCEPT ![browser[c]] = @ \cup {account[c]}]
     \/ /\ \A c \in Calls : ~Delivered(c)
        /\ UNCHANGED <<bearer, deliveredTo>>
  /\ UNCHANGED <<role, ask>>

\* No route changes a role: an operator does, in the database.
ChangeRole(a, r) ==
  /\ Exists(a) /\ role[a] # r
  /\ role' = [role EXCEPT ![a] = r]
  /\ ask' = [q \in Asks |->
       IF ask[q].pc \in {"guard", "handler"} /\ ask[q].token.sub = a /\ r = "ADMIN"
         THEN [ask[q] EXCEPT !.wasAdmin = TRUE] ELSE ask[q]]
  /\ UNCHANGED <<vars, claims, bearer, deliveredTo>>

-----------------------------------------------------------------------------
(* Guarded requests. *)

AskTo(q, to, a) == ask' = [ask EXCEPT ![q].pc = to, ![q].user = a]

\* The browser sends a request with the access token it has.
Send(q, b, route) ==
  /\ ask[q].pc = "idle"
  /\ bearer[b] # NoClaims
  /\ ask' = [ask EXCEPT ![q] =
       [pc |-> "guard", route |-> route, from |-> b, token |-> bearer[b],
        user |-> NoAccount, wasLive |-> Exists(bearer[b].sub),
        wasAdmin |-> IsAdmin(bearer[b].sub)]]
  /\ UNCHANGED <<vars, role, claims, bearer, deliveredTo>>

\* Mutated Validate: the payload is believed.
Validate_NoLookup(token) == {[user |-> token.sub, role |-> token.role]}

\* Mutated Validate: the account is looked up, but its role is the token's.
Validate_TokenRole(token) ==
  {[user |-> a, role |-> token.role] : a \in {x \in {token.sub} : Exists(x)}}

\* Mutated Validate: the account is looked up by its email.
Validate_ByEmail(token) ==
  {[user |-> a, role |-> role[a]] : a \in {x \in Accounts : emailOf[x] = token.email}}

\* JwtStrategy.validate: the account with the id of the token, if there is one.
Validate(token) ==
  {[user |-> a, role |-> role[a]] : a \in {x \in {token.sub} : Exists(x)}}

\* RolesGuard: only the admin controller has @Roles.
MayEnter(route, r) == route = "listUsers" => r = "ADMIN"

\* JwtAuthGuard, then RolesGuard, which asks nobody.  A token may have expired,
\* and a lookup that fails ends the request no less.
Guard(q) ==
  /\ ask[q].pc = "guard"
  /\ \/ \E u \in Validate(ask[q].token) :
          AskTo(q, IF MayEnter(ask[q].route, u.role) THEN "handler" ELSE "forbidden", u.user)
     \/ AskTo(q, "unauthorized", NoAccount)
  /\ UNCHANGED <<vars, role, claims, bearer, deliveredTo>>

\* getMe reads the account once more; listUsers reads all of them.
Handle(q) ==
  /\ ask[q].pc = "handler"
  /\ AskTo(q, IF ask[q].route = "me" /\ ~Exists(ask[q].user) THEN "unauthorized" ELSE "served",
           ask[q].user)
  /\ UNCHANGED <<vars, role, claims, bearer, deliveredTo>>

AccessNext ==
  \/ SignInStep
  \/ \E a \in Accounts, r \in Roles : ChangeRole(a, r)
  \/ \E q \in Asks, b \in Browsers, route \in Routes : Send(q, b, route)
  \/ \E q \in Asks : Guard(q) \/ Handle(q)

AccessSpec == AccessInit /\ [][AccessNext]_<<vars, accessVars>>

-----------------------------------------------------------------------------
(* Properties. *)

\* The list of all users goes only to an account that was an ADMIN at some moment
\* while the request was under way: a token signed before a demotion does not
\* carry the old role (README.md:150, jwt.strategy.ts:12).
AdminListIsAuthorised ==
  \A q \in Asks : ask[q].pc = "served" /\ ask[q].route = "listUsers" => ask[q].wasAdmin

\* A request sent after the account was removed is never served, although the
\* token is valid until it expires (JwtStrategy.validate).
RemovedIsLockedOut == \A q \in Asks : ask[q].pc = "served" => ask[q].wasLive

\* A request acts as an account this browser has signed in as, even when that
\* account is removed and another registers with its email.
ActsAsSignedIn ==
  \A q \in Asks : ask[q].pc = "served" => ask[q].user \in deliveredTo[ask[q].from]
=============================================================================
