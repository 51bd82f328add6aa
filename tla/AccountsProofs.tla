--------------------------- MODULE AccountsProofs ---------------------------
(* Proofs about accounts, web sessions and the sign-in limiter, for every  *)
(* set of accounts, cookies and addresses, every finite set of requests,   *)
(* and all windows and limits.                                             *)
EXTENDS Accounts, FiniteSetTheorems, TLAPS

(* The locals of a request, by the step it is about to take. *)
Creating == [at : {"creating", "changing"}, user : Emails, pw : Passwords]
Allowed == [at : {"allowed"}, ip : IPs, user : Emails, pw : Passwords]
Verified == [at : {"verified"}, ip : IPs, user : Emails, hash : Passwords]
Refused == [at : {"refused"}, ip : IPs, user : Emails, hash : Passwords \cup {Nothing}]
Succeeded == [at : {"succeeded"}, ip : IPs, user : Emails]
Issuing == [at : {"issuing", "ending"}, user : Emails]
Stale == [at : {"stale"}, cookie : Cookies]
Admitted == [at : {"sliding", "admitted"}, cookie : Cookies, user : Emails, expires : Nat]
Local == {Free} \cup Creating \cup Allowed \cup Verified \cup Refused \cup Succeeded
            \cup Issuing \cup Stale \cup Admitted

Types ==
    /\ users \in [Emails -> Passwords \cup {Nothing}]
    /\ sessions \in [Cookies -> Row \cup {Nothing}]
    /\ counts \in [IPs -> Attempts \cup {Nothing}]
    /\ req \in [Requests -> Local]
    /\ now \in Nat
    /\ issued \subseteq Cookies
    /\ seen \in [Cookies -> Nat]
    /\ guesses \in [IPs -> [n : Nat, start : Nat]]

(* A row of the sessions table, and a request about to make one, belongs   *)
(* to an account.                                                          *)
Owned ==
    /\ \A k \in Cookies : sessions[k] # Nothing => users[sessions[k].user] # Nothing
    /\ \A r \in Requests : req[r].at \in {"verified", "succeeded", "issuing"} =>
            users[req[r].user] # Nothing

Ceiling(k) == Lesser(seen[k] + Idle, sessions[k].created + Absolute)

(* Only issued cookies have a row or a request that would write one, and   *)
(* what such a request is about to write respects both windows.            *)
Bounded ==
    /\ \A k \in Cookies : seen[k] <= now
    /\ \A k \in Cookies : sessions[k] # Nothing =>
            k \in issued /\ sessions[k].expires <= Ceiling(k)
    /\ \A r \in Requests : req[r].at = "sliding" =>
            /\ req[r].cookie \in issued
            /\ sessions[req[r].cookie] # Nothing => req[r].expires <= Ceiling(req[r].cookie)

(* The sign-in requests of address i that may still record a failure. *)
Pending(i) == {r \in Requests : req[r].at \in {"allowed", "verified", "refused"} /\ req[r].ip = i}

(* The limiter's window of an address counts its failures; while it runs,  *)
(* there is room for every request that is past Allow to fail as well.     *)
Counted ==
    \A i \in IPs :
        /\ counts[i] = Nothing => guesses[i].n = 0
        /\ counts[i] # Nothing =>
                /\ guesses[i].n = counts[i].count /\ guesses[i].n > 0
                /\ counts[i].until = guesses[i].start + Window
                /\ now <= counts[i].until =>
                      counts[i].count + Cardinality(Pending(i)) <= Limit - 1 + Cardinality(Requests)
        /\ guesses[i].n <= Limit - 1 + Cardinality(Requests)

IInv == Types /\ Owned /\ Bounded /\ Counted

-----------------------------------------------------------------------------
(* The step a request is at tells which locals it has. *)
LEMMA LocalsByStep ==
    ASSUME NEW q \in Local
    PROVE  /\ q.at \in {"creating", "changing"} => q \in Creating
           /\ q.at = "allowed" => q \in Allowed
           /\ q.at = "verified" => q \in Verified
           /\ q.at = "refused" => q \in Refused
           /\ q.at = "succeeded" => q \in Succeeded
           /\ q.at \in {"issuing", "ending"} => q \in Issuing
           /\ q.at = "stale" => q \in Stale
           /\ q.at \in {"sliding", "admitted"} => q \in Admitted
           /\ q.at \in {"idle", "creating", "allowed", "verified", "refused", "succeeded",
                        "issuing", "stale", "sliding", "admitted", "changing", "ending"}
BY DEF Local, Free, Creating, Allowed, Verified, Refused, Succeeded, Issuing, Stale, Admitted

(* A request that goes on changes its own locals and no other's. *)
LEMMA GotoFields ==
    ASSUME req \in [Requests -> Local], NEW r \in Requests, NEW locals, Goto(r, locals)
    PROVE  /\ req'[r] = locals
           /\ \A q \in Requests \ {r} : req'[q] = req[q]
           /\ locals \in Local => req' \in [Requests -> Local]
BY DEF Goto

(* Being done is going on to nothing. *)
LEMMA DoneFields ==
    ASSUME req \in [Requests -> Local], NEW r \in Requests, Done(r)
    PROVE  /\ req'[r].at = "idle"
           /\ \A q \in Requests \ {r} : req'[q] = req[q]
           /\ req' \in [Requests -> Local]
BY GotoFields DEF Done, Free, Local

LEMMA LesserIsBound ==
    ASSUME NEW a \in Nat, NEW b \in Nat
    PROVE  Lesser(a, b) \in Nat /\ Lesser(a, b) <= a /\ Lesser(a, b) <= b
BY DEF Lesser

-----------------------------------------------------------------------------
(* The state keeps its types. *)
LEMMA TypesStep == IInv /\ [Next]_vars => Types'
<1> SUFFICES ASSUME IInv, [Next]_vars PROVE Types'
  OBVIOUS
<1> USE AccountsAssumption DEF IInv, Types, At, history
<1> DEFINE StateTypes ==
        /\ users \in [Emails -> Passwords \cup {Nothing}]
        /\ sessions \in [Cookies -> Row \cup {Nothing}]
        /\ counts \in [IPs -> Attempts \cup {Nothing}]
        /\ now \in Nat
        /\ issued \subseteq Cookies
        /\ seen \in [Cookies -> Nat]
        /\ guesses \in [IPs -> [n : Nat, start : Nat]]
<1>1. ASSUME NEW r \in Requests, NEW e \in Emails, NEW p \in Passwords, PostSetup(r, e, p)
      PROVE  Types'
  <2>1. [at |-> "creating", user |-> e, pw |-> p] \in Local
    BY DEF Local, Creating
  <2> QED
    BY <1>1, <2>1, GotoFields DEF PostSetup
<1>2. ASSUME NEW r \in Requests, NEW i \in IPs, NEW e \in Emails, NEW p \in Passwords,
             PostLogin(r, i, e, p)
      PROVE  Types'
  <2>1. [at |-> "allowed", ip |-> i, user |-> e, pw |-> p] \in Local
    BY DEF Local, Allowed
  <2> QED
    BY <1>2, <2>1, GotoFields DEF PostLogin
<1>3. ASSUME NEW r \in Requests, Create(r)
      PROVE  Types'
  <2>1. req[r] \in Creating
    BY <1>3, LocalsByStep DEF Create
  <2>2. [at |-> "issuing", user |-> req[r].user] \in Local
    BY <2>1 DEF Local, Creating, Issuing
  <2>3. req' \in [Requests -> Local]
    BY <1>3, <2>2, GotoFields, DoneFields DEF Create
  <2>4. StateTypes'
    BY <1>3, <2>1 DEF Create, Creating
  <2> QED
    BY <2>3, <2>4
<1>4. ASSUME NEW r \in Requests, GetByEmail(r)
      PROVE  Types'
  <2>1. req[r] \in Allowed
    BY <1>4, LocalsByStep DEF GetByEmail
  <2> DEFINE e == req[r].user
             found(step) == [at |-> step, ip |-> req[r].ip, user |-> e, hash |-> users[e]]
  <2>2. users[e] = req[r].pw => found("verified") \in Local
    BY <2>1 DEF Local, Allowed, Verified
  <2>3. found("refused") \in Local
    BY <2>1 DEF Local, Allowed, Refused
  <2>4. \/ Goto(r, found("verified")) /\ users[e] = req[r].pw
        \/ Goto(r, found("refused"))
    BY <1>4 DEF GetByEmail
  <2>5. req' \in [Requests -> Local]
    BY <2>2, <2>3, <2>4, GotoFields
  <2> QED
    BY <1>4, <2>5 DEF GetByEmail
<1>5. ASSUME NEW r \in Requests, UpdateLogin(r)
      PROVE  Types'
  <2>1. req[r] \in Verified
    BY <1>5, LocalsByStep DEF UpdateLogin
  <2>2. [at |-> "succeeded", ip |-> req[r].ip, user |-> req[r].user] \in Local
    BY <2>1 DEF Local, Verified, Succeeded
  <2>3. req' \in [Requests -> Local]
    BY <1>5, <2>2, GotoFields DEF UpdateLogin
  <2>4. StateTypes'
    BY <1>5, <2>1 DEF UpdateLogin, Verified
  <2> QED
    BY <2>3, <2>4
<1>6. ASSUME NEW r \in Requests, RecordFailure(r)
      PROVE  Types'
  <2>1. req[r] \in Refused
    BY <1>6, LocalsByStep DEF RecordFailure
  <2>2. req' \in [Requests -> Local]
    BY <1>6, DoneFields DEF RecordFailure
  <2>3. counts' \in [IPs -> Attempts \cup {Nothing}]
    BY <1>6, <2>1 DEF RecordFailure, Refused, Attempts
  <2>4. guesses' \in [IPs -> [n : Nat, start : Nat]]
    BY <1>6, <2>1 DEF RecordFailure, Refused
  <2> QED
    BY <1>6, <2>2, <2>3, <2>4 DEF RecordFailure
<1>7. ASSUME NEW r \in Requests, RecordSuccess(r)
      PROVE  Types'
  <2>1. req[r] \in Succeeded
    BY <1>7, LocalsByStep DEF RecordSuccess
  <2>2. [at |-> "issuing", user |-> req[r].user] \in Local
    BY <2>1 DEF Local, Succeeded, Issuing
  <2>3. req' \in [Requests -> Local]
    BY <1>7, <2>2, GotoFields DEF RecordSuccess
  <2>4. StateTypes'
    BY <1>7, <2>1 DEF RecordSuccess, Succeeded
  <2> QED
    BY <2>3, <2>4
<1>8. ASSUME NEW r \in Requests, NEW k \in Cookies, Issue(r, k)
      PROVE  Types'
  <2>1. req[r] \in Issuing
    BY <1>8, LocalsByStep DEF Issue
  <2>2. req' \in [Requests -> Local]
    BY <1>8, DoneFields DEF Issue
  <2>3. StateTypes'
    BY <1>8, <2>1 DEF Issue, Issuing, Row, Lesser
  <2> QED
    BY <2>2, <2>3
<1>9. ASSUME NEW r \in Requests, NEW k \in Cookies, Validate(r, k)
      PROVE  Types'
  <2> DEFINE s == sessions[k]
             expiry == Lesser(now + Idle, s.created + Absolute)
             found(step) == [at |-> step, cookie |-> k, user |-> s.user, expires |-> expiry]
  <2>1. s \in Row
    BY <1>9 DEF Validate
  <2>2. expiry \in Nat
    <3>1. s.created \in Nat /\ now + Idle \in Nat
      BY <2>1 DEF Row
    <3>2. s.created + Absolute \in Nat
      BY <3>1
    <3> QED
      BY <3>1, <3>2, LesserIsBound
  <2>3. [at |-> "stale", cookie |-> k] \in Local
    BY DEF Local, Stale
  <2>4. found("sliding") \in Local /\ found("admitted") \in Local
    BY <2>1, <2>2 DEF Local, Admitted, Row
  <2>5. \/ Goto(r, [at |-> "stale", cookie |-> k])
        \/ Goto(r, found("sliding")) \/ Goto(r, found("admitted"))
    BY <1>9 DEF Validate
  <2>6. req' \in [Requests -> Local]
    BY <2>3, <2>4, <2>5, GotoFields
  <2>7. StateTypes'
    BY <1>9 DEF Validate
  <2> QED
    BY <2>6, <2>7
<1>10. ASSUME NEW r \in Requests, DeleteStale(r) \/ PostLogout(r)
       PROVE  Types'
  BY <1>10, DoneFields DEF DeleteStale, PostLogout
<1>11. ASSUME NEW r \in Requests, Touch(r)
       PROVE  Types'
  <2>1. req[r] \in Admitted
    BY <1>11, LocalsByStep DEF Touch
  <2>2. [req[r] EXCEPT !.at = "admitted"] \in Local
    BY <2>1 DEF Local, Admitted
  <2>3. req' \in [Requests -> Local]
    BY <1>11, <2>2, GotoFields, DoneFields DEF Touch
  <2>4. sessions' \in [Cookies -> Row \cup {Nothing}]
    BY <1>11, <2>1 DEF Touch, Admitted, Row
  <2> QED
    BY <1>11, <2>3, <2>4 DEF Touch
<1>12. ASSUME NEW r \in Requests, ServePage(r) \/ DeleteByUser(r) \/ Abort(r)
       PROVE  Types'
  BY <1>12, DoneFields DEF ServePage, DeleteByUser, Abort
<1>13. ASSUME NEW r \in Requests, NEW p \in Passwords, NEW q \in Passwords,
              PostChangePassword(r, p, q)
       PROVE  Types'
  <2>1. req[r] \in Admitted
    BY <1>13, LocalsByStep DEF PostChangePassword
  <2>2. [at |-> "changing", user |-> req[r].user, pw |-> q] \in Local
    BY <2>1 DEF Local, Admitted, Creating
  <2> QED
    BY <1>13, <2>2, GotoFields, DoneFields DEF PostChangePassword
<1>14. ASSUME NEW r \in Requests, UpdatePassword(r)
       PROVE  Types'
  <2>1. req[r] \in Creating
    BY <1>14, LocalsByStep DEF UpdatePassword
  <2>2. [at |-> "ending", user |-> req[r].user] \in Local
    BY <2>1 DEF Local, Creating, Issuing
  <2>3. req' \in [Requests -> Local]
    BY <1>14, <2>2, GotoFields DEF UpdatePassword
  <2>4. StateTypes'
    BY <1>14, <2>1 DEF UpdatePassword, Creating
  <2> QED
    BY <2>3, <2>4
<1>15. CASE PruneExpired \/ Tick \/ UNCHANGED vars
  BY <1>15 DEF PruneExpired, Tick, vars
<1>16. CASE Restart
  BY <1>16 DEF Restart, Local
<1> QED
  BY <1>1, <1>2, <1>3, <1>4, <1>5, <1>6, <1>7, <1>8, <1>9, <1>10, <1>11, <1>12, <1>13,
     <1>14, <1>15, <1>16 DEF Next

-----------------------------------------------------------------------------

(* What a step can do to the row of a cookie. *)
LEMMA RowChanges ==
    ASSUME Types, [Next]_vars, NEW k \in Cookies
    PROVE  \/ sessions'[k] \in {sessions[k], Nothing}
           \/ \E r \in Requests : Issue(r, k)
           \/ \E r \in Requests :
                /\ Touch(r) /\ req[r].cookie = k /\ sessions[k] # Nothing
                /\ sessions'[k] = [sessions[k] EXCEPT !.expires = req[r].expires]
<1> USE DEF Types, history
<1>1. ASSUME NEW r \in Requests, NEW q \in Cookies, Issue(r, q)
      PROVE  sessions'[k] = sessions[k] \/ Issue(r, k)
  BY <1>1 DEF Issue
<1>2. ASSUME NEW r \in Requests, Touch(r)
      PROVE  \/ sessions'[k] = sessions[k]
             \/ /\ req[r].cookie = k /\ sessions[k] # Nothing
                /\ sessions'[k] = [sessions[k] EXCEPT !.expires = req[r].expires]
  BY <1>2 DEF Touch
<1>3. ASSUME NEW r \in Requests, DeleteStale(r) \/ PostLogout(r) \/ DeleteByUser(r)
      PROVE  sessions'[k] \in {sessions[k], Nothing}
  BY <1>3 DEF DeleteStale, PostLogout, DeleteByUser
<1>4. CASE PruneExpired
  BY <1>4 DEF PruneExpired
<1>5. \/ sessions' = sessions \/ PruneExpired
      \/ \E r \in Requests :
            \/ Touch(r) \/ DeleteStale(r) \/ PostLogout(r) \/ DeleteByUser(r)
            \/ \E q \in Cookies : Issue(r, q)
  BY DEF Next, vars, PostSetup, PostLogin, Create, GetByEmail, UpdateLogin, RecordFailure,
         RecordSuccess, Validate, ServePage, PostChangePassword, UpdatePassword, Abort,
         Restart, Tick
<1> QED
  BY <1>1, <1>2, <1>3, <1>4, <1>5

(* What a step can do to a request that goes on. *)
LEMMA RequestChanges ==
    ASSUME Types, [Next]_vars, NEW r \in Requests
    PROVE  \/ req'[r] = req[r] \/ req'[r].at = "idle"
           \/ \E e \in Emails, p \in Passwords : PostSetup(r, e, p)
           \/ \E i \in IPs, e \in Emails, p \in Passwords : PostLogin(r, i, e, p)
           \/ Create(r) \/ GetByEmail(r) \/ UpdateLogin(r) \/ RecordSuccess(r)
           \/ \E k \in Cookies : Validate(r, k)
           \/ Touch(r) \/ UpdatePassword(r)
           \/ \E p, q \in Passwords : PostChangePassword(r, p, q)
<1> USE DEF Types, history
<1>1. ASSUME NEW q \in Requests \ {r}, NEW locals, Goto(q, locals) \/ Done(q)
      PROVE  req'[r] = req[r]
  BY <1>1, GotoFields, DoneFields
<1>2. ASSUME NEW q \in Requests \ {r},
             \/ \E e \in Emails, p \in Passwords : PostSetup(q, e, p)
             \/ \E i \in IPs, e \in Emails, p \in Passwords : PostLogin(q, i, e, p)
             \/ Create(q) \/ GetByEmail(q) \/ UpdateLogin(q)
             \/ RecordFailure(q) \/ RecordSuccess(q)
             \/ \E k \in Cookies : Issue(q, k) \/ Validate(q, k)
      PROVE  req'[r] = req[r]
  BY <1>1, <1>2 DEF PostSetup, PostLogin, Create, GetByEmail, UpdateLogin, RecordFailure,
         RecordSuccess, Issue, Validate
<1>3. ASSUME NEW q \in Requests \ {r},
             \/ DeleteStale(q) \/ Touch(q) \/ ServePage(q) \/ PostLogout(q)
             \/ \E p, o \in Passwords : PostChangePassword(q, p, o)
             \/ UpdatePassword(q) \/ DeleteByUser(q) \/ Abort(q)
      PROVE  req'[r] = req[r]
  BY <1>1, <1>3 DEF DeleteStale, Touch, ServePage, PostLogout, PostChangePassword,
         UpdatePassword, DeleteByUser, Abort
<1>4. CASE RecordFailure(r) \/ DeleteStale(r) \/ ServePage(r) \/ PostLogout(r) \/ DeleteByUser(r)
           \/ Abort(r) \/ \E k \in Cookies : Issue(r, k)
  BY <1>4, DoneFields DEF RecordFailure, DeleteStale, ServePage, PostLogout, DeleteByUser,
         Abort, Issue
<1>5. CASE PruneExpired \/ Restart \/ Tick \/ UNCHANGED vars
  BY <1>5 DEF PruneExpired, Restart, Tick, vars, Free
<1> QED
  BY <1>2, <1>3, <1>4, <1>5 DEF Next

(* Where each action that does not end its request leaves it. *)
LEMMA StepsOn ==
    ASSUME Types, NEW r \in Requests
    PROVE  /\ \A e \in Emails, p \in Passwords : PostSetup(r, e, p) => req'[r].at = "creating"
           /\ \A i \in IPs, e \in Emails, p \in Passwords :
                PostLogin(r, i, e, p) => req'[r].at = "allowed"
           /\ Create(r) => req'[r].at \in {"issuing", "idle"}
           /\ GetByEmail(r) => req'[r].at \in {"verified", "refused"}
           /\ UpdateLogin(r) => req'[r].at = "succeeded"
           /\ RecordSuccess(r) => req'[r].at = "issuing"
           /\ \A k \in Cookies :
                Validate(r, k) => req'[r].at \in {"stale", "sliding", "admitted"}
           /\ Touch(r) => req'[r].at \in {"admitted", "idle"}
           /\ \A p, q \in Passwords :
                PostChangePassword(r, p, q) => req'[r].at \in {"changing", "idle"}
           /\ UpdatePassword(r) => req'[r].at = "ending"
<1> USE DEF Types
<1>1. ASSUME NEW e \in Emails, NEW p \in Passwords, PostSetup(r, e, p)
      PROVE  req'[r].at = "creating"
  BY <1>1, GotoFields DEF PostSetup
<1>2. ASSUME NEW i \in IPs, NEW e \in Emails, NEW p \in Passwords, PostLogin(r, i, e, p)
      PROVE  req'[r].at = "allowed"
  BY <1>2, GotoFields DEF PostLogin
<1>3. Create(r) => req'[r].at \in {"issuing", "idle"}
  BY GotoFields, DoneFields DEF Create
<1>4. GetByEmail(r) => req'[r].at \in {"verified", "refused"}
  BY GotoFields DEF GetByEmail
<1>5. UpdateLogin(r) => req'[r].at = "succeeded"
  BY GotoFields DEF UpdateLogin
<1>6. RecordSuccess(r) => req'[r].at = "issuing"
  BY GotoFields DEF RecordSuccess
<1>7. ASSUME NEW k \in Cookies, Validate(r, k)
      PROVE  req'[r].at \in {"stale", "sliding", "admitted"}
  BY <1>7, GotoFields DEF Validate
<1>8. Touch(r) => req'[r].at \in {"admitted", "idle"}
  <2>1. Touch(r) => req[r] \in Admitted
    BY LocalsByStep DEF Touch, At
  <2> QED
    BY <2>1, GotoFields, DoneFields DEF Touch, Admitted
<1>9. ASSUME NEW p \in Passwords, NEW q \in Passwords, PostChangePassword(r, p, q)
      PROVE  req'[r].at \in {"changing", "idle"}
  BY <1>9, GotoFields, DoneFields DEF PostChangePassword
<1>10. UpdatePassword(r) => req'[r].at = "ending"
  BY GotoFields DEF UpdatePassword
<1> QED
  BY <1>1, <1>2, <1>3, <1>4, <1>5, <1>6, <1>7, <1>8, <1>9, <1>10

(* Rows keep their owners: an account, once made, is there for good. *)
LEMMA OwnedStep == IInv /\ [Next]_vars => Owned'
<1> SUFFICES ASSUME IInv, [Next]_vars PROVE Owned'
  OBVIOUS
<1> USE AccountsAssumption DEF IInv, Types, At, history
<1>1. \A e \in Emails : users[e] # Nothing => users'[e] # Nothing
  <2>1. ASSUME NEW r \in Requests, Create(r)
        PROVE  \A e \in Emails : users[e] # Nothing => users'[e] # Nothing
    BY <2>1 DEF Create
  <2>2. ASSUME NEW r \in Requests, UpdateLogin(r)
        PROVE  \A e \in Emails : users[e] # Nothing => users'[e] # Nothing
    <3>1. req[r] \in Verified
      BY <2>2, LocalsByStep DEF UpdateLogin
    <3> QED
      BY <2>2, <3>1 DEF UpdateLogin, Verified
  <2>3. ASSUME NEW r \in Requests, UpdatePassword(r)
        PROVE  \A e \in Emails : users[e] # Nothing => users'[e] # Nothing
    <3>1. req[r] \in Creating
      BY <2>3, LocalsByStep DEF UpdatePassword
    <3> QED
      BY <2>3, <3>1 DEF UpdatePassword, Creating
  <2>4. \/ users' = users
        \/ \E r \in Requests : Create(r) \/ UpdateLogin(r) \/ UpdatePassword(r)
    BY DEF Next, vars, PostSetup, PostLogin, GetByEmail, RecordFailure, RecordSuccess, Issue,
           Validate, DeleteStale, Touch, ServePage, PostLogout, PostChangePassword,
           DeleteByUser, Abort, PruneExpired, Restart, Tick
  <2> QED
    BY <2>1, <2>2, <2>3, <2>4
<1>2. ASSUME NEW r \in Requests, req'[r].at \in {"verified", "succeeded", "issuing"}
      PROVE  users'[req'[r].user] # Nothing
  <2>1. CASE req'[r] = req[r]
    <3>1. req[r].user \in Emails /\ users[req[r].user] # Nothing
      BY <1>2, <2>1, LocalsByStep DEF Owned, Verified, Succeeded, Issuing
    <3> QED
      BY <1>1, <2>1, <3>1
  <2>2. CASE Create(r)
    <3>1. req[r] \in Creating
      BY <2>2, LocalsByStep DEF Create
    <3> QED
      BY <1>2, <2>2, <3>1, GotoFields, DoneFields DEF Create, Creating
  <2>3. CASE GetByEmail(r)
    <3>1. req[r] \in Allowed
      BY <2>3, LocalsByStep DEF GetByEmail
    <3>2. req'[r].user = req[r].user /\ req'[r].at = "verified" => users[req[r].user] = req[r].pw
      BY <2>3, GotoFields DEF GetByEmail
    <3>3. users' = users /\ req'[r].at \in {"verified", "refused"}
      BY <2>3, GotoFields DEF GetByEmail
    <3> QED
      BY <1>2, <2>3, <3>1, <3>2, <3>3, GotoFields DEF GetByEmail, Allowed
  <2>4. CASE UpdateLogin(r)
    <3>1. req[r] \in Verified
      BY <2>4, LocalsByStep DEF UpdateLogin
    <3>2. req'[r].user = req[r].user
      BY <2>4, GotoFields DEF UpdateLogin
    <3>3. users[req[r].user] # Nothing
      BY <2>4 DEF UpdateLogin, Owned
    <3> QED
      BY <1>1, <3>1, <3>2, <3>3 DEF Verified
  <2>5. CASE RecordSuccess(r)
    <3>1. req[r] \in Succeeded
      BY <2>5, LocalsByStep DEF RecordSuccess
    <3>2. req'[r].user = req[r].user
      BY <2>5, GotoFields DEF RecordSuccess
    <3>3. users[req[r].user] # Nothing
      BY <2>5 DEF RecordSuccess, Owned
    <3> QED
      BY <1>1, <3>1, <3>2, <3>3 DEF Succeeded
  <2>6. ASSUME \/ \E e \in Emails, p \in Passwords : PostSetup(r, e, p)
               \/ \E i \in IPs, e \in Emails, p \in Passwords : PostLogin(r, i, e, p)
               \/ \E k \in Cookies : Validate(r, k)
               \/ Touch(r) \/ UpdatePassword(r)
               \/ \E p, q \in Passwords : PostChangePassword(r, p, q)
        PROVE  FALSE
    BY <1>2, <2>6, StepsOn
  <2> QED
    BY <1>2, <2>1, <2>2, <2>3, <2>4, <2>5, <2>6, RequestChanges
<1>3. ASSUME NEW k \in Cookies, sessions'[k] # Nothing
      PROVE  users'[sessions'[k].user] # Nothing
  <2>1. CASE sessions[k] # Nothing /\ sessions'[k].user = sessions[k].user
    BY <1>1, <2>1 DEF Owned, Row
  <2>2. ASSUME NEW r \in Requests, Issue(r, k)
        PROVE  users'[sessions'[k].user] # Nothing
    BY <2>2 DEF Issue, Owned
  <2>3. ASSUME NEW r \in Requests, Touch(r), req[r].cookie = k, sessions[k] # Nothing,
               sessions'[k] = [sessions[k] EXCEPT !.expires = req[r].expires]
        PROVE  sessions'[k].user = sessions[k].user
    BY <2>3 DEF Row
  <2> QED
    BY <1>3, <2>1, <2>2, <2>3, RowChanges
<1> QED
  BY <1>2, <1>3 DEF Owned

-----------------------------------------------------------------------------
(* The clock does not run back, and a cookie is issued once. *)
LEMMA HistoryGrows ==
    ASSUME Types, [Next]_vars
    PROVE  /\ now' \in Nat /\ now <= now'
           /\ issued \subseteq issued'
           /\ \A k \in Cookies : seen'[k] \in {seen[k], now}
<1> USE DEF Types, history
<1>1. CASE Tick
  BY <1>1 DEF Tick
<1>2. CASE \E r \in Requests, k \in Cookies : Issue(r, k) \/ Validate(r, k)
  BY <1>2 DEF Issue, Validate
<1>3. \/ UNCHANGED <<now, issued, seen>>
      \/ Tick \/ \E r \in Requests, k \in Cookies : Issue(r, k) \/ Validate(r, k)
  BY DEF Next, vars, PostSetup, PostLogin, Create, GetByEmail, UpdateLogin, RecordFailure,
         RecordSuccess, DeleteStale, Touch, ServePage, PostLogout, PostChangePassword,
         UpdatePassword, DeleteByUser, Abort, PruneExpired, Restart
<1> QED
  BY <1>1, <1>2, <1>3

(* A ceiling once computed only rises: seen follows the clock, and the     *)
(* creation of a row does not change.                                      *)
LEMMA CeilingRises ==
    ASSUME Types, Bounded, [Next]_vars, NEW k \in Cookies, sessions[k] # Nothing,
           sessions'[k] # Nothing, sessions'[k].created = sessions[k].created
    PROVE  /\ Ceiling(k) \in Nat /\ Ceiling(k)' \in Nat
           /\ Ceiling(k) <= Ceiling(k)'
<1> USE AccountsAssumption DEF Types, Bounded, history
<1>1. seen'[k] \in Nat /\ seen[k] <= seen'[k]
  BY HistoryGrows
<1>2. sessions[k].created \in Nat
  BY DEF Row
<1> QED
  BY <1>1, <1>2 DEF Ceiling, Lesser

(* The expiry of a row is at its ceiling, or below. *)
LEMMA BoundedStep == IInv /\ [Next]_vars => Bounded'
<1> SUFFICES ASSUME IInv, [Next]_vars PROVE Bounded'
  OBVIOUS
<1> USE AccountsAssumption DEF IInv, Types, At, history
<1>0. /\ now' \in Nat /\ now <= now'
      /\ issued \subseteq issued'
      /\ \A k \in Cookies : seen'[k] \in {seen[k], now}
  BY HistoryGrows
<1>1. ASSUME NEW k \in Cookies
      PROVE  seen'[k] <= now'
  BY <1>0 DEF Bounded
<1>2. ASSUME NEW k \in Cookies, sessions'[k] # Nothing
      PROVE  k \in issued' /\ sessions'[k].expires <= Ceiling(k)'
  <2>1. CASE sessions'[k] = sessions[k]
    <3>1. Ceiling(k) <= Ceiling(k)' /\ Ceiling(k) \in Nat /\ Ceiling(k)' \in Nat
      BY <1>2, <2>1, CeilingRises
    <3>2. sessions[k].expires \in Nat
      BY <1>2, <2>1 DEF Row
    <3> QED
      BY <1>0, <1>2, <2>1, <3>1, <3>2 DEF Bounded
  <2>2. ASSUME NEW r \in Requests, Issue(r, k)
        PROVE  k \in issued' /\ sessions'[k].expires <= Ceiling(k)'
    BY <2>2 DEF Issue, Ceiling, Lesser
  <2>3. ASSUME NEW r \in Requests, Touch(r), req[r].cookie = k, sessions[k] # Nothing,
               sessions'[k] = [sessions[k] EXCEPT !.expires = req[r].expires]
        PROVE  k \in issued' /\ sessions'[k].expires <= Ceiling(k)'
    <3>1. req[r] \in Admitted /\ req[r].at = "sliding"
      BY <2>3, LocalsByStep DEF Touch
    <3>2. sessions'[k].expires = req[r].expires /\ sessions'[k].created = sessions[k].created
      BY <2>3 DEF Row
    <3>3. req[r].expires <= Ceiling(k) /\ k \in issued
      BY <2>3, <3>1 DEF Bounded
    <3>4. Ceiling(k) <= Ceiling(k)' /\ Ceiling(k) \in Nat /\ Ceiling(k)' \in Nat
      BY <1>2, <2>3, <3>2, CeilingRises
    <3>5. req[r].expires \in Nat
      BY <3>1 DEF Admitted
    <3> QED
      BY <1>0, <3>2, <3>3, <3>4, <3>5
  <2> QED
    BY <1>2, <2>1, <2>2, <2>3, RowChanges
<1>3. ASSUME NEW r \in Requests, req'[r].at = "sliding",
             NEW k \in Cookies, req'[r].cookie = k
      PROVE  k \in issued' /\ (sessions'[k] # Nothing => req'[r].expires <= Ceiling(k)')
  <2>1. CASE req'[r] = req[r]
    <3>1. req[r] \in Admitted
      BY <1>3, <2>1, LocalsByStep
    <3>2. req[r].expires \in Nat
      BY <3>1 DEF Admitted
    <3>3. k \in issued /\ (sessions[k] # Nothing => req[r].expires <= Ceiling(k))
      BY <1>3, <2>1 DEF Bounded
    <3>4. ASSUME sessions'[k] # Nothing
          PROVE  sessions[k] # Nothing /\ sessions'[k].created = sessions[k].created
      <4>1. ASSUME NEW q \in Requests, Issue(q, k)
            PROVE  FALSE
        BY <3>3, <4>1 DEF Issue
      <4>2. \/ sessions'[k] = sessions[k]
            \/ \E q \in Requests : /\ sessions[k] # Nothing
                                   /\ sessions'[k] = [sessions[k] EXCEPT !.expires = req[q].expires]
        BY <3>4, <4>1, RowChanges
      <4> QED
        BY <3>4, <4>2 DEF Row
    <3>5. sessions'[k] # Nothing =>
            Ceiling(k) <= Ceiling(k)' /\ Ceiling(k) \in Nat /\ Ceiling(k)' \in Nat
      BY <3>4, CeilingRises
    <3>6. sessions'[k] # Nothing => req[r].expires <= Ceiling(k)'
      BY <3>2, <3>3, <3>4, <3>5
    <3> QED
      BY <1>0, <2>1, <3>3, <3>6
  <2>2. ASSUME NEW q \in Cookies, Validate(r, q)
        PROVE  k \in issued' /\ (sessions'[k] # Nothing => req'[r].expires <= Ceiling(k)')
    <3>1. /\ q = k /\ seen'[q] = now /\ sessions' = sessions /\ sessions[q] # Nothing
          /\ req'[r].expires = Lesser(now + Idle, sessions[q].created + Absolute)
      BY <1>3, <2>2, GotoFields DEF Validate
    <3>2. req'[r].expires = Ceiling(q)' /\ sessions[q].created \in Nat
      BY <3>1 DEF Ceiling, Row
    <3>3. Ceiling(q)' \in Nat
      BY <3>1, <3>2 DEF Ceiling, Lesser
    <3> QED
      BY <1>0, <3>1, <3>2, <3>3 DEF Bounded
  <2>3. ASSUME \/ \E e \in Emails, p \in Passwords : PostSetup(r, e, p)
               \/ \E i \in IPs, e \in Emails, p \in Passwords : PostLogin(r, i, e, p)
               \/ Create(r) \/ GetByEmail(r) \/ UpdateLogin(r) \/ RecordSuccess(r)
               \/ Touch(r) \/ UpdatePassword(r)
               \/ \E p, q \in Passwords : PostChangePassword(r, p, q)
        PROVE  FALSE
    BY <1>3, <2>3, StepsOn
  <2> QED
    BY <1>3, <2>1, <2>2, <2>3, RequestChanges
<1>4. ASSUME NEW r \in Requests, req'[r].at = "sliding"
      PROVE  req'[r].cookie \in Cookies
  <2>1. req'[r] \in Admitted
    BY <1>4, TypesStep, LocalsByStep
  <2> QED
    BY <2>1 DEF Admitted
<1> QED
  <2>1. \A r \in Requests : req'[r].at = "sliding" =>
            /\ req'[r].cookie \in issued'
            /\ sessions'[req'[r].cookie] # Nothing =>
                  req'[r].expires <= Lesser(seen'[req'[r].cookie] + Idle,
                                            sessions'[req'[r].cookie].created + Absolute)
    BY <1>3, <1>4 DEF Ceiling
  <2> QED
    BY <1>1, <1>2, <2>1 DEF Bounded, Ceiling

-----------------------------------------------------------------------------
LEMMA PendingFinite ==
    ASSUME NEW i \in IPs
    PROVE  /\ IsFiniteSet(Pending(i)) /\ IsFiniteSet(Pending(i)')
           /\ Cardinality(Pending(i)) \in Nat /\ Cardinality(Pending(i)') \in Nat
           /\ Cardinality(Requests) \in Nat
           /\ Cardinality(Pending(i)) <= Cardinality(Requests)
           /\ Cardinality(Pending(i)') <= Cardinality(Requests)
<1>1. Pending(i) \subseteq Requests /\ Pending(i)' \subseteq Requests
  BY DEF Pending
<1> QED
  BY <1>1, AccountsAssumption, FS_Subset, FS_CardinalityType

(* Only a request that passes Allow joins the pending ones. *)
LEMMA PendingShrinks ==
    ASSUME Types, [Next]_vars, NEW i \in IPs,
           \A r \in Requests, e \in Emails, p \in Passwords : ~PostLogin(r, i, e, p)
    PROVE  /\ Pending(i)' \subseteq Pending(i)
           /\ Cardinality(Pending(i)') <= Cardinality(Pending(i))
<1>1. ASSUME NEW r \in Requests, req'[r].at \in {"allowed", "verified", "refused"}, req'[r].ip = i
      PROVE  req[r].at \in {"allowed", "verified", "refused"} /\ req[r].ip = i
  <2>1. CASE req'[r] = req[r]
    BY <1>1, <2>1
  <2>2. CASE GetByEmail(r)
    BY <1>1, <2>2, GotoFields DEF GetByEmail, At, Types
  <2>3. ASSUME NEW j \in IPs, NEW e \in Emails, NEW p \in Passwords, PostLogin(r, j, e, p)
        PROVE  FALSE
    <3>1. req'[r].ip = j
      BY <2>3, GotoFields DEF PostLogin, Types
    <3> QED
      BY <1>1, <2>3, <3>1
  <2>4. ASSUME \/ \E e \in Emails, p \in Passwords : PostSetup(r, e, p)
               \/ Create(r) \/ UpdateLogin(r) \/ RecordSuccess(r)
               \/ \E k \in Cookies : Validate(r, k)
               \/ Touch(r) \/ UpdatePassword(r)
               \/ \E p, q \in Passwords : PostChangePassword(r, p, q)
        PROVE  FALSE
    BY <1>1, <2>4, StepsOn
  <2> QED
    BY <1>1, <2>1, <2>2, <2>3, <2>4, RequestChanges
<1>2. Pending(i)' \subseteq Pending(i)
  BY <1>1 DEF Pending
<1> QED
  BY <1>2, PendingFinite, FS_Subset

(* The limiter's books are kept for each address. *)
LEMMA CountedStep == IInv /\ [Next]_vars => Counted'
<1> SUFFICES ASSUME IInv, [Next]_vars, NEW i \in IPs PROVE Counted!(i)'
  BY DEF Counted
<1> USE AccountsAssumption, NothingAssumption DEF IInv, Types, At, history
<1> DEFINE window == counts[i]
<1>0. /\ guesses[i].n \in Nat /\ guesses[i].start \in Nat
      /\ window # Nothing => window.count \in Nat /\ window.until \in Nat
      /\ Limit \in Nat /\ Limit >= 1 /\ Window \in Nat /\ now \in Nat
  BY DEF Attempts
<1>1. ASSUME NEW r \in Requests, RecordFailure(r)
      PROVE  Counted!(i)'
  <2>1. req[r] \in Refused /\ req[r].ip \in IPs
    BY <1>1, LocalsByStep DEF RecordFailure, Refused
  <2>2. Pending(i)' \subseteq Pending(i) /\ Cardinality(Pending(i)') <= Cardinality(Pending(i))
    <3>1. ASSUME NEW q \in Requests, NEW e \in Emails, NEW p \in Passwords, PostLogin(q, i, e, p)
          PROVE  FALSE
      <4>1. req'[q].at = "allowed" /\ req[q].at = "idle"
        BY <3>1, StepsOn DEF PostLogin
      <4>2. req'[q].at = "idle"
        BY <1>1, <4>1, DoneFields DEF RecordFailure
      <4> QED
        BY <4>1, <4>2
    <3> QED
      BY <3>1, PendingShrinks
  <2>3. CASE req[r].ip = i
    <3>1. r \in Pending(i) /\ r \notin Pending(i)'
      BY <1>1, <2>3, DoneFields DEF RecordFailure, Pending
    <3>2. Cardinality(Pending(i)') <= Cardinality(Pending(i)) - 1
      <4>1. Pending(i)' \subseteq Pending(i) \ {r}
        BY <2>2, <3>1
      <4>2. /\ IsFiniteSet(Pending(i) \ {r})
            /\ Cardinality(Pending(i) \ {r}) = Cardinality(Pending(i)) - 1
        BY <3>1, PendingFinite, FS_RemoveElement
      <4> QED
        BY <4>1, <4>2, FS_Subset
    <3>3. CASE window = Nothing \/ now > window.until
      <4>1. counts'[i] = [count |-> 1, until |-> now + Window]
        BY <1>1, <2>3, <3>3 DEF RecordFailure
      <4>2. guesses'[i] = [n |-> 1, start |-> now]
        BY <1>0, <1>1, <2>3, <3>3 DEF RecordFailure, Counted
      <4>3. counts'[i] # Nothing
        BY <1>0, <4>1 DEF Attempts
      <4> QED
        BY <1>0, <3>2, <4>1, <4>2, <4>3, PendingFinite
    <3>4. CASE ~(window = Nothing \/ now > window.until)
      <4>1. counts'[i] = [count |-> window.count + 1, until |-> window.until]
        BY <1>1, <2>3, <3>4 DEF RecordFailure
      <4>2. guesses'[i] = [n |-> guesses[i].n + 1, start |-> guesses[i].start]
        BY <1>0, <1>1, <2>3, <3>4 DEF RecordFailure, Counted
      <4>3. counts'[i] # Nothing
        BY <1>0, <3>4, <4>1 DEF Attempts
      <4>4. /\ guesses[i].n = window.count
            /\ window.until = guesses[i].start + Window
            /\ window.count + Cardinality(Pending(i)) <= Limit - 1 + Cardinality(Requests)
        BY <1>0, <3>4 DEF Counted
      <4>5. Cardinality(Pending(i)') >= 0
        BY PendingFinite
      <4> QED
        BY <1>0, <3>2, <4>1, <4>2, <4>3, <4>4, <4>5, PendingFinite
    <3> QED
      BY <3>3, <3>4
  <2>4. CASE req[r].ip # i
    <3>1. counts'[i] = counts[i] /\ guesses'[i] = guesses[i] /\ now' = now
      BY <1>1, <2>1, <2>4 DEF RecordFailure
    <3> QED
      BY <1>0, <2>2, <3>1, PendingFinite DEF Counted
  <2> QED
    BY <2>3, <2>4
<1>2. ASSUME NEW r \in Requests, NEW e \in Emails, NEW p \in Passwords, PostLogin(r, i, e, p)
      PROVE  Counted!(i)'
  <2>1. counts' = counts /\ guesses' = guesses /\ now' = now
    BY <1>2 DEF PostLogin
  <2>2. window # Nothing /\ now <= window.until => window.count <= Limit - 1
    BY <1>0, <1>2 DEF PostLogin, Blocked
  <2> QED
    BY <1>0, <2>1, <2>2, PendingFinite DEF Counted
<1>3. CASE /\ counts'[i] = Nothing /\ guesses'[i].n = 0
  BY <1>0, <1>3, PendingFinite
<1>4. CASE /\ counts'[i] = counts[i] /\ guesses'[i] = guesses[i]
           /\ \A r \in Requests, e \in Emails, p \in Passwords : ~PostLogin(r, i, e, p)
  <2>1. Cardinality(Pending(i)') <= Cardinality(Pending(i)) /\ now <= now' /\ now' \in Nat
    BY <1>4, PendingShrinks, HistoryGrows
  <2> QED
    BY <1>0, <1>4, <2>1, PendingFinite DEF Counted
<1>5. ASSUME NEW r \in Requests, RecordSuccess(r)
      PROVE  \/ counts'[i] = Nothing /\ guesses'[i].n = 0
             \/ counts'[i] = counts[i] /\ guesses'[i] = guesses[i]
  BY <1>5 DEF RecordSuccess
<1>6. CASE Restart
  BY <1>3, <1>6 DEF Restart
<1>7. \/ counts' = counts /\ guesses' = guesses
      \/ Restart \/ \E r \in Requests : RecordFailure(r) \/ RecordSuccess(r)
  BY DEF Next, vars, PostSetup, PostLogin, Create, GetByEmail, UpdateLogin, Issue, Validate,
         DeleteStale, Touch, ServePage, PostLogout, PostChangePassword, UpdatePassword,
         DeleteByUser, Abort, PruneExpired, Tick
<1> QED
  BY <1>1, <1>2, <1>3, <1>4, <1>5, <1>6, <1>7

-----------------------------------------------------------------------------
(* The initial state satisfies the invariant. *)
LEMMA InitIInv == Init => IInv
<1> SUFFICES ASSUME Init PROVE IInv
  OBVIOUS
<1> USE AccountsAssumption DEF Init
<1>1. Types
  BY DEF Types, Local
<1>2. Owned /\ Bounded
  BY DEF Owned, Bounded, Free
<1>3. Counted
  BY PendingFinite DEF Counted
<1> QED
  BY <1>1, <1>2, <1>3 DEF IInv

(* The invariant holds in every reachable state. *)
LEMMA Invariance == Spec => []IInv
<1>1. IInv /\ [Next]_vars => IInv'
  BY TypesStep, OwnedStep, BoundedStep, CountedStep DEF IInv
<1> QED
  BY InitIInv, <1>1, PTL DEF Spec

(* The tables, the limiter and the requests keep their types, only issued  *)
(* cookies have rows, and every row belongs to an account: what the        *)
(* foreign key of sessions.user_id demands, the handlers never test.       *)
THEOREM TypeCorrect == Spec => []TypeOK
<1>1. IInv => TypeOK
  <2> SUFFICES ASSUME IInv PROVE TypeOK
    OBVIOUS
  <2>1. \A r \in Requests : req[r] \in Local
    BY DEF IInv, Types
  <2>2. {k \in Cookies : sessions[k] # Nothing} \subseteq issued
    BY DEF IInv, Bounded
  <2> QED
    BY <2>1, <2>2, LocalsByStep DEF IInv, Types, Owned, TypeOK
<1> QED
  BY <1>1, Invariance, PTL

(* However validations, expiry writes and deletions interleave, a stored   *)
(* session never outlives the idle window counted from its last validation *)
(* nor the ceiling counted from its creation (Sessions.Validate).          *)
THEOREM SessionsAreBounded == Spec => []SessionBounded
<1>1. IInv => SessionBounded
  BY DEF IInv, Bounded, Ceiling, SessionBounded
<1> QED
  BY <1>1, Invariance, PTL

(* An address gets at most Limit failures recorded in a window, and one    *)
(* more for each other request that was past Allow at the limit.           *)
THEOREM GuessesAreBounded == Spec => []GuessesBounded
<1>1. IInv => GuessesBounded
  BY DEF IInv, Counted, GuessesBounded
<1> QED
  BY <1>1, Invariance, PTL

(* A session that was signed out, ended by a password change, found        *)
(* expired or pruned never comes back, whatever requests had read its row  *)
(* before (Sessions.Revoke, Touch, DeleteByUser).                          *)
THEOREM EndedStayEnded == Spec => EndedStaysEnded
<1>1. IInv /\ [Next]_vars =>
        [\A k \in issued : sessions[k] = Nothing => sessions'[k] = Nothing]_vars
  <2> SUFFICES ASSUME IInv, [Next]_vars, NEW k \in issued, sessions[k] = Nothing
               PROVE  sessions'[k] = Nothing
    OBVIOUS
  <2>1. k \in Cookies /\ Types
    BY DEF IInv, Types
  <2>2. \A r \in Requests : ~Issue(r, k)
    BY DEF Issue
  <2> QED
    BY <2>1, <2>2, RowChanges
<1> QED
  BY <1>1, Invariance, PTL DEF Spec, EndedStaysEnded
=============================================================================
