------------------------------- MODULE Accounts -------------------------------
(***************************************************************************)
(* Accounts and sessions of the web application (web/app.py,               *)
(* web/sessions.py).  A session is a signed cookie: it carries its account, *)
(* the time of the login and the time of the last activity it was renewed  *)
(* for, and nothing about it is stored.  Every request passes the          *)
(* middleware, which reads the cookie that came in before the handler runs *)
(* and sets or drops one after it: over a cookie the handler has just set  *)
(* or deleted, the middleware has the last word.  An administrator's       *)
(* request is admitted there; then its handler reads the account it is     *)
(* about and checks it, and commits the change -- each in its turn, so     *)
(* requests interleave.  (The audit row that follows, by a commit of its   *)
(* own, is read by nothing here.)                                          *)
(*                                                                         *)
(* Time is counted in ages that stop growing past the last limit they are  *)
(* compared with.                                                          *)
(***************************************************************************)
EXTENDS Naturals, FiniteSets

CONSTANTS
  Users, None,     \* users.id, never given twice, and none
  Browsers,        \* each holds one cookie at most
  Requests,        \* administrators' requests served at once
  ABSOLUTE,        \* SESSION_ABSOLUTE_SECONDS
  IDLE,            \* SESSION_IDLE_SECONDS
  REFRESH_AFTER,   \* SESSION_REFRESH_AFTER_SECONDS
  FREE_ATTEMPTS, BASE_LOCK, MAX_LOCK,  \* LoginBackoff
  MaxExtra         \* bound: failures counted past the free ones

ASSUME AccountsAssumption ==
  /\ IsFiniteSet(Users) /\ None \notin Users /\ IsFiniteSet(Requests)
  /\ ABSOLUTE \in Nat /\ IDLE \in 0..ABSOLUTE /\ REFRESH_AFTER \in 0..IDLE
  /\ FREE_ATTEMPTS \in Nat \ {0} /\ BASE_LOCK \in Nat \ {0} /\ MAX_LOCK \in Nat /\ MaxExtra \in Nat
  /\ BASE_LOCK <= MAX_LOCK

VARIABLES
  created,   \* the ids given so far
  account,   \* the users table
  token,     \* the cookie each browser holds
  age,       \* history: time since the login the held cookie stems from
  quiet,     \* history: time since the last request it was sent with
  signed,    \* history: whom the last login or logout on the browser was to leave signed in
  fails, lock, \* LoginBackoff: failures so far, and what is left of the lockout
  req,       \* the administrators' requests
  raced      \* history: an account was changed between the check and the commit of
             \* another change; forgotten when nothing is pending and no harm was done

vars == <<created, account, token, age, quiet, signed, fails, lock, req, raced>>

-----------------------------------------------------------------------------
Roles == {"user", "admin"}   \* analyst counts here as user
Account == [role : Roles, disabled : BOOLEAN]
NoAccount == [role |-> "none", disabled |-> TRUE]
\* As ages.  The browser keeps a cookie for ABSOLUTE after it was set, and it
\* is set with ts = now.
Token == [uid : Users, iat : 0..ABSOLUTE + 1, ts : 0..ABSOLUTE]
NoToken == [uid |-> None, iat |-> ABSOLUTE + 1, ts |-> ABSOLUTE + 1]

Operations == {"create", "toggle", "delete", "promote", "demote"}
Request == [pc : {"idle", "admitted", "checked"}, actor : Users \cup {None},
            op : Operations, on : Users \cup {None}, row : Account \cup {NoAccount}]
Free == [pc |-> "idle", actor |-> None, op |-> "create", on |-> None, row |-> NoAccount]

Exists(u) == account[u] # NoAccount
Active(u) == Exists(u) /\ ~account[u].disabled
ActiveAdmins == {u \in Users : Active(u) /\ account[u].role = "admin"}

Least(a, b) == IF a < b THEN a ELSE b
Older(n, limit) == Least(n + 1, limit + 1)

Holds(b) == token[b] # NoToken

\* verify_session: both expiries.
Valid(b) == token[b].iat <= ABSOLUTE /\ token[b].ts <= IDLE

Init == /\ created = {}
        /\ account = [u \in Users |-> NoAccount]
        /\ token = [b \in Browsers |-> NoToken]
        /\ age = [b \in Browsers |-> ABSOLUTE + 1] /\ quiet = [b \in Browsers |-> ABSOLUTE + 1]
        /\ signed = [b \in Browsers |-> None]
        /\ fails = 0 /\ lock = 0
        /\ req = [q \in Requests |-> Free]
        /\ raced = FALSE

Insert(role) == \E u \in Users \ created :
  /\ created' = created \cup {u}
  /\ account' = [account EXCEPT ![u] = [role |-> role, disabled |-> FALSE]]

\* The web process starts: requests in flight and the backoff are gone, the
\* cookies are not; an empty users table is seeded with one administrator if
\* the environment names one.
Start == /\ \/ (\A u \in Users : ~Exists(u)) /\ Insert("admin")
            \/ UNCHANGED <<created, account>>
         /\ fails' = 0 /\ lock' = 0
         /\ req' = [q \in Requests |-> Free]
         /\ UNCHANGED <<token, age, quiet, signed, raced>>

\* A cookie a unit of time later.
Aged(t) == IF t.ts >= ABSOLUTE THEN NoToken
           ELSE [t EXCEPT !.iat = Older(@, ABSOLUTE), !.ts = @ + 1]

Tick == /\ token' = [b \in Browsers |-> Aged(token[b])]
        /\ age' = [b \in Browsers |-> Older(age[b], ABSOLUTE)]
        /\ quiet' = [b \in Browsers |-> Older(quiet[b], ABSOLUTE)]
        /\ lock' = IF lock = 0 THEN 0 ELSE lock - 1
        /\ UNCHANGED <<created, account, signed, fails, req, raced>>

-----------------------------------------------------------------------------
(* What the middleware does about the cookie a request came with.          *)

\* It carries its user: the account is read again on every request.
Standing(b) == Holds(b) /\ Valid(b) /\ Active(token[b].uid)

Due(b) == token[b].ts > REFRESH_AFTER

\* (mutant) a renewed cookie counts from now
RenewedAfresh(t) == IF t.ts > REFRESH_AFTER THEN [t EXCEPT !.iat = 0, !.ts = 0] ELSE t

\* refresh_session: the login's time is kept, and the activity's is renewed
\* only when it is old enough.
Renewed(t) == IF t.ts > REFRESH_AFTER THEN [t EXCEPT !.ts = 0] ELSE t

Served(b) == /\ token' = [token EXCEPT ![b] = Renewed(@)]
             /\ quiet' = [quiet EXCEPT ![b] = 0]
             /\ UNCHANGED age

Forget(b) == /\ token' = [token EXCEPT ![b] = NoToken]
             /\ age' = [age EXCEPT ![b] = ABSOLUTE + 1]
             /\ quiet' = [quiet EXCEPT ![b] = ABSOLUTE + 1]

Receive(b, u) == /\ token' = [token EXCEPT ![b] = [uid |-> u, iat |-> 0, ts |-> 0]]
                 /\ age' = [age EXCEPT ![b] = 0]
                 /\ quiet' = [quiet EXCEPT ![b] = 0]

\* A cookie that no longer stands is dropped.
Middleware(b) == IF Standing(b) THEN Served(b) ELSE Forget(b)

\* It answers with a cookie, or the end of one, of its own: after the
\* handler, so that what the handler did about the cookie is undone.
Overrides(b) == Holds(b) /\ (Standing(b) => Due(b))

\* Any other request.
Visit(b) == /\ Holds(b)
            /\ Middleware(b)
            /\ UNCHANGED <<created, account, signed, fails, lock, req, raced>>

-----------------------------------------------------------------------------
(* Signing in and out.                                                     *)

\* Thirty seconds, doubled by every failure past the free ones.
Doubled[k \in 0..MaxExtra] == IF k = 0 THEN BASE_LOCK ELSE 2 * Doubled[k - 1]

\* (mutant) the doubling is not capped
LockoutUncapped(n) == Doubled[n - FREE_ATTEMPTS]

\* At most fifteen minutes.
Lockout(n) == Least(Doubled[n - FREE_ATTEMPTS], MAX_LOCK)

\* A wrong password, an unknown name or a disabled account.
LoginFails(b) == /\ lock = 0
                 /\ fails' = Least(fails + 1, FREE_ATTEMPTS + MaxExtra)
                 /\ lock' = IF fails' >= FREE_ATTEMPTS THEN Lockout(fails') ELSE 0
                 /\ Middleware(b)
                 /\ UNCHANGED <<created, account, signed, req, raced>>

\* login_submit sets a new cookie.
Login(b, u) == /\ lock = 0 /\ Active(u)
               /\ fails' = 0
               /\ IF Overrides(b) THEN Middleware(b) ELSE Receive(b, u)
               /\ signed' = [signed EXCEPT ![b] = u]
               /\ UNCHANGED <<created, account, lock, req, raced>>

\* logout deletes it; without a session the request is denied like any other.
Logout(b) == /\ Standing(b)
             /\ IF Overrides(b) THEN Middleware(b) ELSE Forget(b)
             /\ signed' = [signed EXCEPT ![b] = None]
             /\ UNCHANGED <<created, account, fails, lock, req, raced>>

-----------------------------------------------------------------------------
(* The administrators' requests.                                           *)

Admit(q, b, op, on) == /\ req[q].pc = "idle"
                       /\ Standing(b) /\ account[token[b].uid].role = "admin"
                       /\ Middleware(b)
                       /\ IF op = "create" THEN on = None ELSE on \in created
                       /\ req' = [req EXCEPT ![q] = [pc |-> "admitted", actor |-> token[b].uid, op |-> op,
                                                      on |-> on, row |-> NoAccount]]
                       /\ UNCHANGED <<created, account, signed, fails, lock, raced>>

\* What the handler would take away an active administrator with.
Removes(r) == /\ r.row.role = "admin" /\ ~r.row.disabled
              /\ r.op \in {"toggle", "delete", "demote"}

\* (mutant) the count includes the disabled
LastByRole(row) == row.role = "admin" /\ ~row.disabled
                   /\ Cardinality({u \in Users : account[u].role = "admin"}) <= 1

\* _is_last_active_admin.
LastActiveAdmin(row) == row.role = "admin" /\ ~row.disabled /\ Cardinality(ActiveAdmins) <= 1

\* The row as read; a refusal (not found, oneself, the last administrator)
\* ends the request.
Check(q) ==
  LET r == [pc |-> "checked", actor |-> None, op |-> req[q].op, on |-> req[q].on,
            row |-> account[req[q].on]]
      refused == \/ ~Exists(r.on)
                 \/ r.op \in {"toggle", "delete"} /\ r.on = req[q].actor
                 \/ Removes(r) /\ LastActiveAdmin(r.row)
  IN  /\ req[q].pc = "admitted" /\ req[q].op # "create"
      /\ req' = [req EXCEPT ![q] = IF refused THEN Free ELSE r]
      /\ UNCHANGED <<created, account, token, age, quiet, signed, fails, lock, raced>>

\* What the commit leaves: the columns that differ from the row as read are
\* written.
Changed(r) ==
  CASE r.op = "toggle"  -> [account EXCEPT ![r.on].disabled = ~r.row.disabled]
    [] r.op = "delete"  -> [account EXCEPT ![r.on] = NoAccount]
    [] r.op = "promote" -> IF r.row.role = "admin" THEN account
                           ELSE [account EXCEPT ![r.on].role = "admin"]
    [] r.op = "demote"  -> IF r.row.role = "user" THEN account
                           ELSE [account EXCEPT ![r.on].role = "user"]

\* A change decided on a row that may not stand any more.
Pending(q) == req[q].pc = "checked"

\* The commit; an update of a row deleted since raises, and nothing changes.
Change(q) ==
  LET r == req[q]
      others == \E p \in Requests \ {q} : Pending(p)
  IN  /\ Pending(q)
      /\ account' = IF Exists(r.on) THEN Changed(r) ELSE account
      /\ raced' = ((raced \/ (account' # account /\ others)) /\ (others \/ ActiveAdmins' = {}))
      /\ req' = [req EXCEPT ![q] = Free]
      /\ UNCHANGED <<created, token, age, quiet, signed, fails, lock>>

CreateUser(q, role) == /\ req[q].pc = "admitted" /\ req[q].op = "create"
                       /\ Insert(role)
                       /\ req' = [req EXCEPT ![q] = Free]
                       /\ UNCHANGED <<token, age, quiet, signed, fails, lock, raced>>

Next == \/ Start \/ Tick
        \/ \E b \in Browsers : \/ LoginFails(b) \/ Logout(b) \/ Visit(b)
                              \/ \E u \in Users : Login(b, u)
        \/ \E q \in Requests :
             \/ \E b \in Browsers, on \in Users \cup {None}, op \in Operations : Admit(q, b, op, on)
             \/ \E role \in Roles : CreateUser(q, role)
             \/ Check(q) \/ Change(q)

Spec == Init /\ [][Next]_vars

-----------------------------------------------------------------------------
TypeOK == /\ created \subseteq Users
          /\ account \in [Users -> Account \cup {NoAccount}]
          /\ \A u \in Users : Exists(u) => u \in created
          /\ token \in [Browsers -> Token \cup {NoToken}]
          /\ age \in [Browsers -> 0..ABSOLUTE + 1] /\ quiet \in [Browsers -> 0..ABSOLUTE + 1]
          /\ signed \in [Browsers -> Users \cup {None}]
          /\ fails \in 0..FREE_ATTEMPTS + MaxExtra /\ lock \in 0..MAX_LOCK
          /\ req \in [Requests -> Request] /\ raced \in BOOLEAN

\* sessions.py:14-21 and the middleware's renewal, which happens only now and
\* then, on logins and logouts too: the cookie a browser holds never outlives
\* the absolute limit after the login it stems from, however often it is
\* renewed, nor the idle limit after the last request; and time does not end it
\* before one of them, but for the renewal it may have missed.  (Whether a
\* login or a logout changes which cookie is held: AsSignedIn, LoginIsNew.)
SessionWindow ==
  \A b \in Browsers :
    /\ Valid(b) => age[b] <= ABSOLUTE /\ quiet[b] <= IDLE
    /\ (age[b] <= ABSOLUTE /\ quiet[b] + REFRESH_AFTER <= IDLE) => Valid(b)

\* _is_last_active_admin decides on what a handler read, and the commit follows
\* later: whatever else overlaps -- accounts created, other requests admitted
\* under a role since lost, administrators changing their own, a restart -- an
\* active administrator remains, unless two such decisions overlapped; and once
\* those are carried out and one remained, that holds again.
AdminRemains == raced \/ created = {} \/ ActiveAdmins # {}

\* tests/test_auth_web.py:177-187, "cookie was invalidated client-side": after a
\* logout no session stands in that browser.
AsSignedIn == \A b \in Browsers : Standing(b) => signed[b] # None

\* app.py:463, "A brand-new token on every login": whoever signs in holds a
\* cookie of that login.
LoginIsNew ==
  [][\A b \in Browsers : signed'[b] \notin {signed[b], None}
       => token'[b] = [uid |-> signed'[b], iat |-> 0, ts |-> 0]]_vars

\* docs/FAQ.md:283: the last active administrator is protected.
LastAdminProtected == created = {} \/ ActiveAdmins # {}
=============================================================================
