--------------------------- MODULE AccountsProofs ---------------------------
(***************************************************************************)
(* What holds of Accounts for any number of accounts, any requests served  *)
(* at once and any limits: a session's window, and that an administrator   *)
(* remains.                                                                *)
(***************************************************************************)
EXTENDS Accounts, FiniteSetTheorems, WellFoundedInduction, TLAPS

-----------------------------------------------------------------------------
(* The window of the session a browser holds.  The cookie's own time of    *)
(* login is the true one; its time of last activity lags behind the last   *)
(* request by at most what a renewal may skip, and is never before the     *)
(* login, so a cookie the browser no longer keeps is past its login's      *)
(* limit too.                                                              *)

Cookie == Token \cup {NoToken}

InWindow(t, a, q) == /\ t \in Cookie /\ a \in 0..ABSOLUTE + 1 /\ q \in 0..ABSOLUTE + 1
                     /\ t.iat = a /\ t.ts <= t.iat
                     /\ q <= t.ts /\ t.ts <= q + REFRESH_AFTER

SessionInv == /\ token \in [Browsers -> Cookie]
              /\ age \in [Browsers -> 0..ABSOLUTE + 1] /\ quiet \in [Browsers -> 0..ABSOLUTE + 1]
              /\ signed \in [Browsers -> Users \cup {None}]
              /\ \A b \in Browsers : InWindow(token[b], age[b], quiet[b])

\* The fields of a cookie, or of none.
LEMMA CookieFields ==
  ASSUME NEW t \in Cookie
  PROVE  /\ t.iat \in 0..ABSOLUTE + 1 /\ t.ts \in 0..ABSOLUTE + 1
         /\ t # NoToken => t \in Token /\ t.uid \in Users /\ t.ts \in 0..ABSOLUTE
  BY AccountsAssumption DEF Cookie, Token, NoToken

\* A cookie that is gone is as old as can be, and so is its login.
LEMMA GoneInWindow == InWindow(NoToken, ABSOLUTE + 1, ABSOLUTE + 1)
  BY AccountsAssumption DEF InWindow, NoToken, Cookie

\* One unit of time, counted up to the limits, moves both ages alike.
LEMMA AgedInWindow ==
  ASSUME NEW t, NEW a, NEW q, InWindow(t, a, q)
  PROVE  InWindow(Aged(t), Older(a, ABSOLUTE), Older(q, ABSOLUTE))
<1>1. /\ t \in Cookie /\ t.iat \in 0..ABSOLUTE + 1 /\ t.ts \in 0..ABSOLUTE + 1
      /\ a \in 0..ABSOLUTE + 1 /\ q \in 0..ABSOLUTE + 1
      /\ t.iat = a /\ t.ts <= t.iat /\ q <= t.ts /\ t.ts <= q + REFRESH_AFTER
  BY CookieFields DEF InWindow
<1>2. CASE t.ts >= ABSOLUTE
  <2>1. Aged(t) = NoToken /\ NoToken.iat = ABSOLUTE + 1 /\ NoToken.ts = ABSOLUTE + 1
    BY <1>2 DEF Aged, NoToken
  <2>2. Older(a, ABSOLUTE) = ABSOLUTE + 1
    BY <1>1, <1>2, AccountsAssumption DEF Older, Least
  <2>3. /\ Older(q, ABSOLUTE) \in 0..ABSOLUTE + 1
        /\ ABSOLUTE + 1 <= Older(q, ABSOLUTE) + REFRESH_AFTER
    BY <1>1, <1>2, AccountsAssumption DEF Older, Least
  <2> QED
    BY <2>1, <2>2, <2>3, AccountsAssumption DEF InWindow, Cookie
<1>3. CASE ~(t.ts >= ABSOLUTE)
  <2> DEFINE new == [t EXCEPT !.iat = Older(@, ABSOLUTE), !.ts = @ + 1]
  <2>1. t # NoToken /\ t \in Token
    BY <1>1, <1>3, CookieFields, AccountsAssumption DEF NoToken
  <2>2. /\ Older(t.iat, ABSOLUTE) \in 0..ABSOLUTE + 1 /\ t.ts + 1 \in 0..ABSOLUTE
        /\ t.ts + 1 <= Older(t.iat, ABSOLUTE)
    BY <1>1, <1>3, AccountsAssumption DEF Older, Least
  <2>3. new \in Token /\ new.iat = Older(a, ABSOLUTE) /\ new.ts = t.ts + 1
    BY <1>1, <2>1, <2>2 DEF Token
  <2>4. /\ Older(q, ABSOLUTE) \in 0..ABSOLUTE + 1
        /\ Older(q, ABSOLUTE) <= t.ts + 1 /\ t.ts + 1 <= Older(q, ABSOLUTE) + REFRESH_AFTER
    BY <1>1, <1>3, AccountsAssumption DEF Older, Least
  <2>5. Aged(t) = new
    BY <1>3 DEF Aged
  <2> HIDE DEF new
  <2> QED
    BY <1>1, <2>2, <2>3, <2>4, <2>5 DEF InWindow, Cookie
<1> QED
  BY <1>2, <1>3

\* A request resets the quiet time; the cookie may keep an age no larger than
\* what a renewal skips.
LEMMA RenewedInWindow ==
  ASSUME NEW t, NEW a, NEW q, InWindow(t, a, q), t # NoToken
  PROVE  InWindow(Renewed(t), a, 0)
<1>1. t \in Token /\ t.iat \in 0..ABSOLUTE + 1 /\ t.ts \in 0..ABSOLUTE /\ t.iat = a /\ t.ts <= t.iat
  BY CookieFields DEF InWindow
<1>2. CASE t.ts > REFRESH_AFTER
  <2>1. [t EXCEPT !.ts = 0] \in Token /\ [t EXCEPT !.ts = 0].iat = a /\ [t EXCEPT !.ts = 0].ts = 0
    BY <1>1, AccountsAssumption DEF Token
  <2> QED
    BY <1>1, <1>2, <2>1, AccountsAssumption DEF InWindow, Renewed, Cookie
<1>3. CASE ~(t.ts > REFRESH_AFTER)
  BY <1>1, <1>3, AccountsAssumption DEF InWindow, Renewed, Cookie
<1> QED
  BY <1>2, <1>3

\* What becomes of one browser's cookie leaves the others as they are.
LEMMA OneBrowser ==
  ASSUME SessionInv, NEW b \in Browsers, NEW t, NEW a, NEW q, InWindow(t, a, q),
         token' = [token EXCEPT ![b] = t], age' = [age EXCEPT ![b] = a],
         quiet' = [quiet EXCEPT ![b] = q], signed' \in [Browsers -> Users \cup {None}]
  PROVE  SessionInv'
<1>1. t \in Cookie /\ a \in 0..ABSOLUTE + 1 /\ q \in 0..ABSOLUTE + 1
  BY DEF InWindow
<1>2. \A c \in Browsers : InWindow(token'[c], age'[c], quiet'[c])
  BY DEF SessionInv
<1> QED
  BY <1>1, <1>2 DEF SessionInv

\* The middleware's renewal, of whoever asks; and a cookie dropped or deleted,
\* or set by a login.
LEMMA MiddlewareKeepsWindow ==
  ASSUME SessionInv, NEW b \in Browsers, signed' \in [Browsers -> Users \cup {None}],
         Middleware(b) \/ Forget(b) \/ (\E u \in Users : Receive(b, u))
  PROVE  SessionInv'
<1>1. CASE Standing(b) /\ Served(b)
  <2>1. InWindow(Renewed(token[b]), age[b], 0)
    BY <1>1, RenewedInWindow DEF SessionInv, Standing, Holds
  <2>2. age' = [age EXCEPT ![b] = age[b]]
    BY <1>1 DEF Served, SessionInv
  <2> QED
    BY <1>1, <2>1, <2>2, OneBrowser DEF Served
<1>2. CASE Forget(b)
  BY <1>2, GoneInWindow, OneBrowser DEF Forget
<1>3. ASSUME NEW u \in Users, Receive(b, u) PROVE SessionInv'
  <2>1. InWindow([uid |-> u, iat |-> 0, ts |-> 0], 0, 0)
    BY AccountsAssumption DEF InWindow, Cookie, Token
  <2> QED
    BY <1>3, <2>1, OneBrowser DEF Receive
<1> QED
  BY <1>1, <1>2, <1>3 DEF Middleware

LEMMA SessionInit == Init => SessionInv
  BY GoneInWindow DEF Init, SessionInv, InWindow

LEMMA SessionStep == SessionInv /\ [Next]_vars => SessionInv'
<1> SUFFICES ASSUME SessionInv, [Next]_vars PROVE SessionInv'
  OBVIOUS
<1>1. CASE UNCHANGED <<token, age, quiet, signed>>
  BY <1>1 DEF SessionInv
<1>2. CASE Tick
  <2>1. \A b \in Browsers : InWindow(token[b], age[b], quiet[b])'
    BY <1>2, AgedInWindow DEF Tick, SessionInv
  <2> QED
    BY <2>1, <1>2 DEF Tick, SessionInv, InWindow
<1>3. ASSUME NEW b \in Browsers, NEW u \in Users, Login(b, u) PROVE SessionInv'
  <2>1. signed' \in [Browsers -> Users \cup {None}]
    BY <1>3 DEF Login, SessionInv
  <2> QED
    BY <1>3, <2>1, MiddlewareKeepsWindow DEF Login
<1>4. ASSUME NEW b \in Browsers, Logout(b) PROVE SessionInv'
  <2>1. signed' \in [Browsers -> Users \cup {None}]
    BY <1>4 DEF Logout, SessionInv
  <2> QED
    BY <1>4, <2>1, MiddlewareKeepsWindow DEF Logout
<1>5. ASSUME NEW b \in Browsers, Visit(b) \/ LoginFails(b) PROVE SessionInv'
  BY <1>5, MiddlewareKeepsWindow DEF Visit, LoginFails, SessionInv
<1>6. ASSUME NEW q \in Requests, NEW b \in Browsers, NEW op, NEW on, Admit(q, b, op, on)
      PROVE  SessionInv'
  BY <1>6, MiddlewareKeepsWindow DEF Admit, SessionInv
<1>7. Start \/ (\E q \in Requests : Check(q) \/ Change(q) \/ \E role \in Roles : CreateUser(q, role))
        => UNCHANGED <<token, age, quiet, signed>>
  BY DEF Start, Check, Change, CreateUser
<1> QED
  BY <1>1, <1>2, <1>3, <1>4, <1>5, <1>6, <1>7 DEF Next, vars

\* sessions.py: the cookie a browser holds, whatever logins, logouts and
\* renewals the middleware's word over the handlers' left it with, stands only
\* within both limits of the login it stems from, and within them it stands,
\* whatever the limits are and however often it is renewed.
THEOREM SessionsKeepTheirWindow == Spec => []SessionWindow
<1>1. ASSUME SessionInv, NEW b \in Browsers
      PROVE  /\ Valid(b) => age[b] <= ABSOLUTE /\ quiet[b] <= IDLE
             /\ (age[b] <= ABSOLUTE /\ quiet[b] + REFRESH_AFTER <= IDLE) => Valid(b)
  <2>1. InWindow(token[b], age[b], quiet[b]) /\ token[b].iat \in 0..ABSOLUTE + 1 /\ token[b].ts \in 0..ABSOLUTE + 1
    BY <1>1, CookieFields DEF SessionInv
  <2> QED
    BY <2>1, AccountsAssumption DEF InWindow, Valid
<1>2. SessionInv => SessionWindow
  BY <1>1 DEF SessionWindow
<1> QED
  BY <1>2, SessionInit, SessionStep, PTL DEF Spec

-----------------------------------------------------------------------------
(* An administrator remains.  A decision taken on a row holds as long as   *)
(* the row does; unless two overlapped, no other change has come between.  *)

TypeInv == /\ created \subseteq Users /\ raced \in BOOLEAN
           /\ account \in [Users -> Account \cup {NoAccount}]
           /\ req \in [Requests -> Request]
           /\ \A u \in Users : Exists(u) => u \in created
           /\ \A q \in Requests :
                /\ req[q].pc = "admitted" => created # {} /\ (req[q].op = "create" \/ req[q].on \in Users)
                /\ Pending(q) => req[q].op # "create" /\ req[q].on \in Users

\* The row a decision was taken on is there, and whoever it removes is not
\* the last.
Sound(r) == /\ account[r.on] = r.row /\ Exists(r.on)
            /\ Removes(r) => \E v \in ActiveAdmins : v # r.on

AdminInv == /\ TypeInv
            /\ AdminRemains
            /\ raced \/ \A q \in Requests : Pending(q) => Sound(req[q])

\* A role in force excludes that the account was deleted.
LEMMA AdminsExist == \A u \in ActiveAdmins : u \in Users /\ Exists(u)
  BY DEF ActiveAdmins, Active

\* Whoever is not the last active administrator leaves another.
LEMMA NotTheLast ==
  ASSUME TypeInv, NEW on \in Users, ~LastActiveAdmin(account[on]),
         account[on].role = "admin", ~account[on].disabled
  PROVE  \E v \in ActiveAdmins : v # on
<1>1. IsFiniteSet(Users) /\ ActiveAdmins \subseteq Users
  BY AccountsAssumption DEF ActiveAdmins
<1>2. ASSUME ActiveAdmins \subseteq {on} PROVE FALSE
  <2>1. IsFiniteSet({on}) /\ Cardinality({on}) = 1
    BY FS_Singleton
  <2>2. Cardinality(ActiveAdmins) <= 1
    BY <1>2, <2>1, FS_Subset
  <2> QED
    BY <2>2 DEF LastActiveAdmin
<1> QED
  BY <1>2

\* A request that is over.
LEMMA FreeIsIdle == Free \in Request /\ Free.pc = "idle"
<1>1. NoAccount \in Account \cup {NoAccount}
  OBVIOUS
<1> QED
  BY <1>1 DEF Free, Request, Operations

LEMMA AdminInit == Init => AdminInv
<1> SUFFICES ASSUME Init PROVE AdminInv
  OBVIOUS
<1>1. \A q \in Requests : req[q].pc = "idle" /\ ~Pending(q)
  BY FreeIsIdle DEF Init, Pending
<1>2. req \in [Requests -> Request] /\ created \subseteq Users /\ raced \in BOOLEAN
  <2>1. req \in [Requests -> Request]
    BY FreeIsIdle DEF Init
  <2>2. created \subseteq Users
    BY DEF Init
  <2>3. raced \in BOOLEAN
    BY DEF Init
  <2> QED
    BY <2>1, <2>2, <2>3
<1>3. account \in [Users -> Account \cup {NoAccount}] /\ (\A u \in Users : ~Exists(u)) /\ created = {}
  BY DEF Init, Exists
<1> QED
  BY <1>1, <1>2, <1>3 DEF AdminInv, TypeInv, AdminRemains

\* An account is created: nothing that was decided is touched.
LEMMA InsertKeeps ==
  ASSUME TypeInv, NEW role \in Roles, Insert(role)
  PROVE  \E n \in Users :
         /\ created' = created \cup {n} /\ ~Exists(n)
         /\ account' \in [Users -> Account \cup {NoAccount}]
         /\ \A u \in Users : Exists(u)' => u \in created'
         /\ \A u \in Users : Exists(u) => account'[u] = account[u]
         /\ account'[n] = [role |-> role, disabled |-> FALSE]
<1>1. PICK n \in Users \ created :
        /\ created' = created \cup {n}
        /\ account' = [account EXCEPT ![n] = [role |-> role, disabled |-> FALSE]]
  BY DEF Insert
<1>2. [role |-> role, disabled |-> FALSE] \in Account
  BY DEF Account
<1> QED
  BY <1>1, <1>2 DEF TypeInv, Exists

\* The accounts that exist stay as they are: so do the administrators.
LEMMA AdminsStay ==
  ASSUME NEW v \in ActiveAdmins, account'[v] = account[v]
  PROVE  v \in ActiveAdmins'
  BY DEF ActiveAdmins, Active, Exists

LEMMA StartKeeps == AdminInv /\ Start => AdminInv'
<1> SUFFICES ASSUME AdminInv, Start PROVE AdminInv'
  OBVIOUS
<1>1. \A q \in Requests : req'[q].pc = "idle" /\ ~Pending(q)'
  BY FreeIsIdle DEF Start, Pending
<1>2. req' \in [Requests -> Request]
  BY FreeIsIdle DEF Start
<1>3. CASE Insert("admin")
  <2>1. Insert("admin") /\ "admin" \in Roles
    BY <1>3 DEF Roles
  <2>2. TypeInv
    BY DEF AdminInv
  <2>3. PICK n \in Users :
        /\ created' = created \cup {n}
        /\ account' \in [Users -> Account \cup {NoAccount}]
        /\ \A u \in Users : Exists(u)' => u \in created'
        /\ account'[n] = [role |-> "admin", disabled |-> FALSE]
    BY <2>1, <2>2, InsertKeeps
  <2>4. n \in ActiveAdmins'
    BY <2>3 DEF ActiveAdmins, Active, Exists, NoAccount
  <2>5. TypeInv'
    BY <1>1, <1>2, <2>2, <2>3 DEF TypeInv, Start
  <2>6. AdminRemains'
    BY <2>4 DEF AdminRemains
  <2> QED
    BY <1>1, <2>5, <2>6 DEF AdminInv
<1>4. CASE UNCHANGED <<created, account>>
  BY <1>1, <1>2, <1>4 DEF AdminInv, TypeInv, AdminRemains, Start, ActiveAdmins, Active, Exists
<1> QED
  BY <1>3, <1>4 DEF Start

LEMMA AdmitKeeps ==
  ASSUME SessionInv, AdminInv, NEW q \in Requests, NEW b \in Browsers, NEW op \in Operations,
         NEW on \in Users \cup {None}, Admit(q, b, op, on)
  PROVE  AdminInv'
<1> DEFINE u == token[b].uid
           r == [pc |-> "admitted", actor |-> u, op |-> op, on |-> on, row |-> NoAccount]
<1>1. u \in Users /\ Exists(u)
  BY CookieFields DEF Admit, Standing, Holds, Active, SessionInv
<1>2. r \in Request /\ req' = [req EXCEPT ![q] = r] /\ UNCHANGED <<created, account, raced>>
  <2>1. NoAccount \in Account \cup {NoAccount}
    OBVIOUS
  <2>2. r \in Request
    BY <1>1, <2>1 DEF Request
  <2> QED
    BY <2>2 DEF Admit
<1>3. created # {}
  BY <1>1 DEF AdminInv, TypeInv
<1>4. op = "create" \/ on \in Users
  BY DEF Admit, AdminInv, TypeInv
<1> QED
  BY <1>2, <1>3, <1>4
  DEF AdminInv, TypeInv, AdminRemains, Pending, Sound, Removes, ActiveAdmins, Active, Exists

LEMMA CreateKeeps ==
  ASSUME AdminInv, NEW q \in Requests, NEW role \in Roles, CreateUser(q, role)
  PROVE  AdminInv'
<1>1. Free \in Request /\ req' = [req EXCEPT ![q] = Free] /\ UNCHANGED raced
  BY FreeIsIdle DEF CreateUser
<1>2. Insert(role) /\ TypeInv /\ created # {}
  BY DEF CreateUser, AdminInv, TypeInv
<1>3. \A v \in ActiveAdmins : v \in ActiveAdmins'
  BY <1>2, InsertKeeps, AdminsExist, AdminsStay
<1>4. TypeInv'
  <2>1. \A p \in Requests : req'[p] = req[p] \/ req'[p].pc = "idle"
    BY <1>1, FreeIsIdle DEF AdminInv, TypeInv
  <2>2. req' \in [Requests -> Request] /\ created' # {} /\ created' \subseteq Users /\ raced' \in BOOLEAN
    <3>1. req' \in [Requests -> Request] /\ raced' \in BOOLEAN
      BY <1>1, <1>2 DEF TypeInv
    <3>2. created' # {} /\ created' \subseteq Users
      BY <1>2, InsertKeeps DEF TypeInv
    <3> QED
      BY <3>1, <3>2
  <2>3. /\ account' \in [Users -> Account \cup {NoAccount}]
        /\ \A u \in Users : Exists(u)' => u \in created'
    <3>1. TypeInv /\ Insert(role)
      BY <1>2
    <3>2. PICK n \in Users : /\ account' \in [Users -> Account \cup {NoAccount}]
                             /\ \A u \in Users : Exists(u)' => u \in created'
      BY <3>1, InsertKeeps
    <3> QED
      BY <3>2
  <2>4. \A p \in Requests :
          /\ req'[p].pc = "admitted" => req'[p].op = "create" \/ req'[p].on \in Users
          /\ Pending(p)' => req'[p].op # "create" /\ req'[p].on \in Users
    BY <1>2, <2>1 DEF TypeInv, Pending
  <2> QED
    BY <2>2, <2>3, <2>4 DEF TypeInv
<1>5. AdminRemains'
  BY <1>1, <1>2, <1>3 DEF AdminInv, AdminRemains
<1>6. ASSUME ~raced', NEW p \in Requests, Pending(p)' PROVE Sound(req[p])'
  <2>1. req'[p] = req[p] /\ Pending(p) /\ ~raced
    BY <1>1, <1>6 DEF Pending, Free, AdminInv, TypeInv
  <2>2. Sound(req[p]) /\ req[p].on \in Users
    BY <2>1 DEF AdminInv, TypeInv
  <2>3. account'[req[p].on] = account[req[p].on]
    BY <1>2, <2>2, InsertKeeps DEF Sound
  <2> QED
    BY <2>1, <2>2, <2>3, <1>3 DEF Sound, Removes, Exists
<1> QED
  BY <1>4, <1>5, <1>6 DEF AdminInv

LEMMA CheckKeeps ==
  ASSUME AdminInv, NEW q \in Requests, Check(q)
  PROVE  AdminInv'
<1> DEFINE on == req[q].on
           r == [pc |-> "checked", actor |-> None, op |-> req[q].op, on |-> on, row |-> account[on]]
<1>1. UNCHANGED <<created, account, raced>> /\ on \in Users /\ req[q].op # "create" /\ req[q] \in Request
  BY DEF Check, AdminInv, TypeInv
<1>2. CASE req' = [req EXCEPT ![q] = Free]
  BY <1>1, <1>2, FreeIsIdle
  DEF AdminInv, TypeInv, AdminRemains, Pending, Sound, Removes, ActiveAdmins, Active, Exists
<1>3. CASE /\ req' = [req EXCEPT ![q] = r]
           /\ Exists(on) /\ ~(Removes(r) /\ LastActiveAdmin(account[on]))
  <2>1. r \in Request
    BY <1>1, AccountsAssumption DEF Request, AdminInv, TypeInv
  <2>2. Sound(r)
    BY <1>1, <1>3, NotTheLast DEF Sound, Removes, AdminInv
  <2> QED
    BY <1>1, <1>3, <2>1, <2>2
    DEF AdminInv, TypeInv, AdminRemains, Pending, Sound, Removes, ActiveAdmins, Active, Exists
<1> QED
  BY <1>2, <1>3 DEF Check

LEMMA ChangeKeeps ==
  ASSUME AdminInv, NEW q \in Requests, Change(q)
  PROVE  AdminInv'
<1> DEFINE r == req[q]
<1>1. r \in Request /\ r.op # "create" /\ r.on \in Users /\ Pending(q)
  BY DEF Change, AdminInv, TypeInv
<1>2. Free \in Request /\ req' = [req EXCEPT ![q] = Free] /\ UNCHANGED created
  BY FreeIsIdle DEF Change
<1>3. /\ account' \in [Users -> Account \cup {NoAccount}]
      /\ \A u \in Users \ {r.on} : account'[u] = account[u]
      /\ account'[r.on] # NoAccount => Exists(r.on)
  <2>1. CASE ~Exists(r.on)
    <3>1. account' = account
      BY <2>1 DEF Change
    <3>2. account \in [Users -> Account \cup {NoAccount}]
      BY DEF AdminInv, TypeInv
    <3>3. account'[r.on] = NoAccount
      BY <2>1, <3>1 DEF Exists
    <3> QED
      BY <3>1, <3>2, <3>3
  <2>2. CASE Exists(r.on)
    <3>1. account[r.on] \in Account /\ account' = Changed(r)
      BY <1>1, <2>2 DEF Change, AdminInv, TypeInv, Exists
    <3>2. r.op \in {"toggle", "delete", "promote", "demote"} /\ r.row.disabled \in BOOLEAN
      <4>1. r.op \in Operations /\ r.row \in Account \cup {NoAccount}
        BY <1>1 DEF Request
      <4>2. ASSUME NEW row \in Account \cup {NoAccount} PROVE row.disabled \in BOOLEAN
        <5>1. CASE row \in Account
          BY <5>1 DEF Account
        <5>2. CASE row = NoAccount
          BY <5>2 DEF NoAccount
        <5> QED
          BY <5>1, <5>2
      <4> QED
        BY <1>1, <4>1, <4>2 DEF Operations
    <3>3. \A d \in BOOLEAN : [account[r.on] EXCEPT !.disabled = d] \in Account
      BY <3>1 DEF Account
    <3>4. \A role \in Roles : [account[r.on] EXCEPT !.role = role] \in Account
      BY <3>1 DEF Account
    <3>5. /\ account \in [Users -> Account \cup {NoAccount}]
          /\ \/ account' = [account EXCEPT ![r.on] = [account[r.on] EXCEPT !.disabled = ~r.row.disabled]]
             \/ account' = [account EXCEPT ![r.on] = NoAccount]
             \/ account' = account
             \/ \E role \in Roles : account' = [account EXCEPT ![r.on] = [account[r.on] EXCEPT !.role = role]]
      BY <3>1, <3>2 DEF Changed, AdminInv, TypeInv, Roles
    <3> QED
      BY <1>1, <2>2, <3>2, <3>3, <3>4, <3>5
  <2> QED
    BY <2>1, <2>2
<1>4. TypeInv'
  BY <1>1, <1>2, <1>3 DEF AdminInv, TypeInv, Pending, Free, Exists, Change
<1> DEFINE others == \E p \in Requests \ {q} : Pending(p)
<1>5. raced' = ((raced \/ (account' # account /\ others)) /\ (others \/ ActiveAdmins' = {}))
  BY DEF Change
<1>6. \A p \in Requests : Pending(p)' => p # q /\ Pending(p) /\ req'[p] = req[p]
  BY <1>2, FreeIsIdle DEF Pending, AdminInv, TypeInv
<1>7. (\E p \in Requests : Pending(p)') => others
  BY <1>6
<1>8. ASSUME ~raced' PROVE (created' = {} \/ ActiveAdmins' # {})
                           /\ \A p \in Requests : Pending(p)' => Sound(req[p])'
  <2>1. CASE ~others /\ ActiveAdmins' # {}
    BY <1>7, <2>1
  <2>2. CASE ~raced /\ ~(account' # account /\ others)
    <3>1. Sound(r) /\ (created = {} \/ ActiveAdmins # {})
      BY <1>1, <2>2 DEF AdminInv, AdminRemains
    <3>2. CASE account' = account
      BY <1>2, <1>6, <2>2, <3>1, <3>2 DEF AdminInv, Sound, Removes, ActiveAdmins, Active, Exists
    <3>3. CASE account' # account /\ ~others
      <4>1. ASSUME created # {} PROVE \E v \in ActiveAdmins : v # r.on
        <5>1. CASE Removes(r)
          BY <3>1, <5>1 DEF Sound
        <5>2. CASE ~(account[r.on].role = "admin" /\ ~account[r.on].disabled)
          BY <3>1, <4>1, <5>2 DEF ActiveAdmins, Active
        <5>3. CASE r.op = "promote" /\ account[r.on].role = "admin"
          BY <3>1, <3>3, <5>3 DEF Change, Changed, Sound
        <5> QED
          BY <1>1, <3>1, <5>1, <5>2, <5>3 DEF Removes, Sound, Request, Operations
      <4>2. created' = {} \/ ActiveAdmins' # {}
        BY <1>2, <1>3, <4>1, AdminsStay, AdminsExist
      <4> QED
        BY <1>7, <3>3, <4>2
    <3> QED
      BY <2>2, <3>2, <3>3
  <2> QED
    BY <1>5, <1>8, <2>1, <2>2
<1> QED
  BY <1>4, <1>8 DEF AdminInv, AdminRemains

LEMMA AdminStep == SessionInv /\ AdminInv /\ [Next]_vars => AdminInv'
<1> SUFFICES ASSUME SessionInv, AdminInv, [Next]_vars PROVE AdminInv'
  OBVIOUS
<1>1. CASE UNCHANGED <<created, account, req, raced>>
  BY <1>1 DEF AdminInv, TypeInv, AdminRemains, Pending, Sound, Removes, ActiveAdmins, Active, Exists
<1>2. Tick \/ (\E b \in Browsers : LoginFails(b) \/ Logout(b) \/ Visit(b) \/ \E u \in Users : Login(b, u))
        => UNCHANGED <<created, account, req, raced>>
  BY DEF Tick, LoginFails, Login, Logout, Visit
<1>3. UNCHANGED vars => UNCHANGED <<created, account, req, raced>>
  BY DEF vars
<1> QED
  BY <1>1, <1>2, <1>3, StartKeeps, AdmitKeeps, CreateKeeps, CheckKeeps, ChangeKeeps DEF Next

\* app.py: with any number of accounts and of requests served at once, an
\* active administrator remains unless two decisions overlapped.
THEOREM AnAdminRemains == Spec => []AdminRemains
<1>1. AdminInv => AdminRemains
  BY DEF AdminInv
<1> QED
  BY <1>1, SessionInit, SessionStep, AdminInit, AdminStep, PTL DEF Spec

-----------------------------------------------------------------------------
(* The lockout, and the types.                                             *)

\* A nonempty set of naturals has a least member.
LEMMA LeastMember ==
  ASSUME NEW S \in SUBSET Nat, S # {}
  PROVE  \E i \in S : \A j \in S : i <= j
<1> DEFINE R == {ss \in Nat \X Nat : ss[1] < ss[2]}
<1>1. IsWellFoundedOn(R, Nat)
  BY NatLessThanWellFounded DEF OpToRel
<1>2. PICK i \in S : \A j \in S : ~ (<<j, i>> \in R)
  <2> HIDE DEF R
  <2> QED BY <1>1, WFMin
<1>3. \A j \in S : i <= j
  <2> TAKE j \in S
  <2>1. <<j, i>> \in Nat \X Nat /\ <<j, i>>[1] = j /\ <<j, i>>[2] = i
    OBVIOUS
  <2>2. ~(<<j, i>>[1] < <<j, i>>[2])
    BY <1>2, <2>1, Zenon
  <2> QED BY <2>1, <2>2
<1> QED BY <1>3

\* Induction, for a set.
LEMMA AllNaturals ==
  ASSUME NEW X, 0 \in X, \A n \in Nat : n \in X => n + 1 \in X
  PROVE  \A n \in Nat : n \in X
<1> SUFFICES ASSUME Nat \ X # {} PROVE FALSE
  OBVIOUS
<1>1. PICK m \in Nat \ X : \A j \in Nat \ X : m <= j
  BY LeastMember
<1>2. m # 0 /\ m - 1 \in Nat /\ m - 1 \in X
  BY <1>1
<1> QED
  BY <1>1, <1>2

\* Some function doubles, as far as the failures are counted.
LEMMA DoublingExists ==
  \E d \in [0..MaxExtra -> Nat] :
    d = [k \in 0..MaxExtra |-> IF k = 0 THEN BASE_LOCK ELSE 2 * d[k - 1]]
<1> DEFINE Doubles(m) == \E d \in [0..m -> Nat] :
                           d[0] = BASE_LOCK /\ \A k \in 1..m : d[k] = 2 * d[k - 1]
           X == {m \in Nat : Doubles(m)}
<1>1. 0 \in X
  <2> DEFINE d == [k \in 0..0 |-> BASE_LOCK]
  <2>1. d \in [0..0 -> Nat] /\ d[0] = BASE_LOCK /\ \A k \in 1..0 : d[k] = 2 * d[k - 1]
    BY AccountsAssumption
  <2> HIDE DEF d
  <2> QED
    BY <2>1
<1>2. ASSUME NEW m \in Nat, m \in X PROVE m + 1 \in X
  <2>1. PICK d \in [0..m -> Nat] : d[0] = BASE_LOCK /\ \A k \in 1..m : d[k] = 2 * d[k - 1]
    BY <1>2
  <2> DEFINE new == [k \in 0..(m + 1) |-> IF k = m + 1 THEN 2 * d[m] ELSE d[k]]
  <2>2. new \in [0..(m + 1) -> Nat] /\ new[0] = BASE_LOCK
    BY <2>1
  <2>3. ASSUME NEW k \in 1..(m + 1) PROVE new[k] = 2 * new[k - 1]
    <3>1. k - 1 \in 0..m /\ new[k - 1] = d[k - 1]
      OBVIOUS
    <3> QED
      BY <2>1, <3>1
  <2> HIDE DEF new
  <2>4. Doubles(m + 1)
    BY <2>2, <2>3
  <2> HIDE DEF Doubles
  <2> QED
    BY <2>4, m + 1 \in Nat
<1>3. MaxExtra \in X
  <2> HIDE DEF X
  <2> QED
    BY <1>1, <1>2, AllNaturals, AccountsAssumption
<1>4. PICK d \in [0..MaxExtra -> Nat] : d[0] = BASE_LOCK /\ \A k \in 1..MaxExtra : d[k] = 2 * d[k - 1]
  BY <1>3
<1>5. \A k \in 0..MaxExtra : d[k] = IF k = 0 THEN BASE_LOCK ELSE 2 * d[k - 1]
  BY <1>4, AccountsAssumption
<1> QED
  BY <1>4, <1>5

\* Two functions that double alike are the same, so what CHOOSE takes counts
\* in natural numbers.
LEMMA DoubledType == Doubled \in [0..MaxExtra -> Nat]
<1> DEFINE Doubling(d) == d = [k \in 0..MaxExtra |-> IF k = 0 THEN BASE_LOCK ELSE 2 * d[k - 1]]
           X == {k \in Nat : k <= MaxExtra => Doubled[k] \in Nat}
<1>1. Doubling(Doubled)
  BY DoublingExists DEF Doubled
<1>2. /\ Doubled = [k \in 0..MaxExtra |-> Doubled[k]]
      /\ \A k \in 0..MaxExtra : Doubled[k] = IF k = 0 THEN BASE_LOCK ELSE 2 * Doubled[k - 1]
  BY <1>1
<1> HIDE DEF Doubling
<1>3. 0 \in X
  <2>1. 0 \in 0..MaxExtra
    BY AccountsAssumption
  <2>2. Doubled[0] = BASE_LOCK
    BY <1>2, <2>1
  <2> QED
    BY <2>2, AccountsAssumption
<1>4. ASSUME NEW k \in Nat, k \in X PROVE k + 1 \in X
  <2> SUFFICES ASSUME k + 1 <= MaxExtra PROVE Doubled[k + 1] \in Nat
    OBVIOUS
  <2>1. k + 1 \in 0..MaxExtra /\ k + 1 # 0 /\ (k + 1) - 1 = k /\ Doubled[k] \in Nat
    BY <1>4, AccountsAssumption
  <2>2. Doubled[k + 1] = 2 * Doubled[(k + 1) - 1]
    BY <1>2, <2>1
  <2> QED
    BY <2>1, <2>2
<1>5. \A k \in Nat : k \in X
  <2> HIDE DEF X
  <2> QED
    BY <1>3, <1>4, AllNaturals
<1> QED
  BY <1>2, <1>5

LockoutInv == fails \in 0..FREE_ATTEMPTS + MaxExtra /\ lock \in 0..MAX_LOCK

\* A lockout is a number of seconds within its limit.
LEMMA LockoutBounded ==
  ASSUME NEW n \in FREE_ATTEMPTS..(FREE_ATTEMPTS + MaxExtra)
  PROVE  Lockout(n) \in 0..MAX_LOCK
<1>1. n - FREE_ATTEMPTS \in 0..MaxExtra
  BY AccountsAssumption
<1>2. Doubled[n - FREE_ATTEMPTS] \in Nat
  BY <1>1, DoubledType
<1> QED
  BY <1>2, AccountsAssumption DEF Lockout, Least

LEMMA LockoutInit == Init => LockoutInv
  BY AccountsAssumption DEF Init, LockoutInv

LEMMA LockoutStep == LockoutInv /\ [Next]_vars => LockoutInv'
<1> SUFFICES ASSUME LockoutInv, [Next]_vars PROVE LockoutInv'
  OBVIOUS
<1>1. CASE UNCHANGED <<fails, lock>>
  BY <1>1 DEF LockoutInv
<1>2. CASE Start
  BY <1>2, AccountsAssumption DEF Start, LockoutInv
<1>3. CASE Tick
  BY <1>3, AccountsAssumption DEF Tick, LockoutInv
<1>4. ASSUME NEW b \in Browsers, LoginFails(b) PROVE LockoutInv'
  <2>1. fails' \in 0..FREE_ATTEMPTS + MaxExtra
    BY <1>4, AccountsAssumption DEF LoginFails, LockoutInv, Least
  <2>2. CASE fails' >= FREE_ATTEMPTS
    <3>1. fails' \in FREE_ATTEMPTS..(FREE_ATTEMPTS + MaxExtra) /\ lock' = Lockout(fails')
      BY <1>4, <2>1, <2>2, AccountsAssumption DEF LoginFails
    <3> QED
      BY <2>1, <3>1, LockoutBounded DEF LockoutInv
  <2>3. CASE ~(fails' >= FREE_ATTEMPTS)
    BY <1>4, <2>1, <2>3, AccountsAssumption DEF LoginFails, LockoutInv
  <2> QED
    BY <2>2, <2>3
<1>5. ASSUME NEW b \in Browsers, NEW u \in Users, Login(b, u) PROVE LockoutInv'
  BY <1>5, AccountsAssumption DEF Login, LockoutInv
<1>6. /\ (\E b \in Browsers : Logout(b) \/ Visit(b)) => UNCHANGED <<fails, lock>>
      /\ \A q \in Requests :
           /\ \A b \in Browsers, on \in Users \cup {None}, op \in Operations :
                Admit(q, b, op, on) => UNCHANGED <<fails, lock>>
           /\ \A role \in Roles : CreateUser(q, role) => UNCHANGED <<fails, lock>>
           /\ Check(q) \/ Change(q) => UNCHANGED <<fails, lock>>
  BY DEF Logout, Visit, Admit, CreateUser, Check, Change
<1>7. UNCHANGED vars => UNCHANGED <<fails, lock>>
  BY DEF vars
<1> QED
  BY <1>1, <1>2, <1>3, <1>4, <1>5, <1>6, <1>7 DEF Next

\* sessions.py:108: with any limits a lockout never passes MAX_LOCK, however
\* many failures are counted; a cookie's ages stay within what is told apart,
\* and an account that exists has an id that was given.
THEOREM TypeCorrect == Spec => []TypeOK
<1>1. SessionInv /\ AdminInv /\ LockoutInv => TypeOK
  BY DEF SessionInv, Cookie, AdminInv, TypeInv, LockoutInv, TypeOK
<1> QED
  BY <1>1, SessionInit, SessionStep, AdminInit, AdminStep, LockoutInit, LockoutStep, PTL DEF Spec
=============================================================================
