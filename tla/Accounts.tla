------------------------------ MODULE Accounts ------------------------------
(***************************************************************************)
(* Accounts, web sessions and the sign-in limiter: internal/service/       *)
(* user.go and session.go over their SQLite repositories, AttemptLimiter   *)
(* of internal/httpx/auth.go, and the handlers of internal/webui/          *)
(* handlers_auth.go that call them.                                        *)
(*                                                                         *)
(* Every statement on the database and every call of the limiter is one    *)
(* step; nothing spans two of them, so web requests interleave between any *)
(* two.  A password hash is the password it was made from.  Users.Create   *)
(* and SetDisabled are left out, since nothing in the program calls them:  *)
(* every account is an administrator's, and none is disabled or deleted.   *)
(***************************************************************************)
EXTENDS Naturals, FiniteSets

CONSTANTS
    Emails, Passwords,  \* of accounts; the hash of a password is itself
    IPs,                \* client addresses
    Cookies,            \* session cookies, each issued at most once
    Requests,           \* concurrent web requests
    Nothing,            \* the absence of a row, of a counter, of a value
    Idle, Absolute,     \* ticks: the idle window and the ceiling of a session
    Limit, Window,      \* failures allowed per window, ticks of a window
    MaxTime             \* bound on the clock

ASSUME AccountsAssumption ==
    /\ {Idle, Absolute, Limit, Window} \subseteq Nat \ {0}
    /\ IsFiniteSet(Requests)
    /\ Nothing \notin Passwords

VARIABLES
    users,    \* users[e]: the stored password hash, or Nothing
    sessions, \* sessions[k]: the row of cookie k, or Nothing
    counts,   \* counts[i]: the attempt window of address i, or Nothing
    req,      \* req[r]: what request r is about to do, and its locals
    now,
    chosen,   \* history: the password last chosen for an account
    issued,   \* history: the cookies issued so far
    seen,     \* history: when a session was last found valid
    guesses   \* history: failures of an address since a window's start

vars == <<users, sessions, counts, req, now, chosen, issued, seen, guesses>>
history == <<chosen, issued, seen, guesses>>

Row == [user : Emails, created : Nat, expires : Nat]
Attempts == [count : Nat, until : Nat]
ASSUME NothingAssumption == Nothing \notin Row \cup Attempts

Free == [at |-> "idle"]

Lesser(a, b) == IF a < b THEN a ELSE b

At(r, step) == req[r].at = step
Goto(r, locals) == req' = [req EXCEPT ![r] = locals]
Done(r) == Goto(r, Free)

Init ==
    /\ users = [e \in Emails |-> Nothing]
    /\ sessions = [k \in Cookies |-> Nothing]
    /\ counts = [i \in IPs |-> Nothing]
    /\ req = [r \in Requests |-> Free]
    /\ now = 0
    /\ chosen = [e \in Emails |-> Nothing]
    /\ issued = {}
    /\ seen = [k \in Cookies |-> 0]
    /\ guesses = [i \in IPs |-> [n |-> 0, start |-> 0]]

-----------------------------------------------------------------------------
\* The first administrator: the table is counted, the password hashed, and
\* the row inserted unless the email is taken.
NeedsSetup == \A e \in Emails : users[e] = Nothing

PostSetup(r, e, p) ==
    /\ At(r, "idle") /\ NeedsSetup
    /\ Goto(r, [at |-> "creating", user |-> e, pw |-> p])
    /\ UNCHANGED <<users, sessions, counts, now, history>>

Create(r) ==
    /\ At(r, "creating")
    /\ LET e == req[r].user IN
       IF users[e] = Nothing
       THEN /\ users' = [users EXCEPT ![e] = req[r].pw]
            /\ chosen' = [chosen EXCEPT ![e] = req[r].pw]
            /\ Goto(r, [at |-> "issuing", user |-> e])
       ELSE Done(r) /\ UNCHANGED <<users, chosen>>
    /\ UNCHANGED <<sessions, counts, now, issued, seen, guesses>>

-----------------------------------------------------------------------------
\* Sign-in.  The limiter is asked first and told at the end; in between the
\* row is read, the password verified against the copy, and the whole copy
\* written back with a new last_login_at.
Blocked(i) == counts[i] # Nothing /\ now <= counts[i].until /\ counts[i].count >= Limit

PostLogin(r, i, e, p) ==
    /\ At(r, "idle") /\ ~Blocked(i)
    /\ Goto(r, [at |-> "allowed", ip |-> i, user |-> e, pw |-> p])
    /\ UNCHANGED <<users, sessions, counts, now, history>>

\* An unknown account is verified against a dummy hash, which no password has.
GetByEmail(r) ==
    /\ At(r, "allowed")
    /\ Goto(r, [at |-> IF users[req[r].user] = req[r].pw THEN "verified" ELSE "refused",
                ip |-> req[r].ip, user |-> req[r].user, hash |-> users[req[r].user]])
    /\ UNCHANGED <<users, sessions, counts, now, history>>

\* Recording the sign-in may fail, which does not deny it.
UpdateLogin(r) ==
    /\ At(r, "verified")
    /\ users' \in {users, [users EXCEPT ![req[r].user] = req[r].hash]}
    /\ Goto(r, [at |-> "succeeded", ip |-> req[r].ip, user |-> req[r].user])
    /\ UNCHANGED <<sessions, counts, now, history>>

\* Mutant of RecordFailure: every failure opens a new window.
RecordFailureReopens(r) ==
    /\ At(r, "refused")
    /\ LET i == req[r].ip IN
       /\ counts' = [counts EXCEPT ![i] = [count |-> 1, until |-> now + Window]]
       /\ guesses' = [guesses EXCEPT ![i] =
              IF @.n > 0 /\ now <= @.start + Window
              THEN [n |-> @.n + 1, start |-> @.start] ELSE [n |-> 1, start |-> now]]
    /\ Done(r)
    /\ UNCHANGED <<users, sessions, now, chosen, issued, seen>>

RecordFailure(r) ==
    /\ At(r, "refused")
    /\ LET i == req[r].ip IN
       /\ counts' = [counts EXCEPT ![i] =
              IF @ = Nothing \/ now > @.until
              THEN [count |-> 1, until |-> now + Window]
              ELSE [count |-> @.count + 1, until |-> @.until]]
       /\ guesses' = [guesses EXCEPT ![i] =
              IF @.n > 0 /\ now <= @.start + Window
              THEN [n |-> @.n + 1, start |-> @.start] ELSE [n |-> 1, start |-> now]]
    /\ Done(r)
    /\ UNCHANGED <<users, sessions, now, chosen, issued, seen>>

RecordSuccess(r) ==
    /\ At(r, "succeeded")
    /\ counts' = [counts EXCEPT ![req[r].ip] = Nothing]
    /\ guesses' = [guesses EXCEPT ![req[r].ip] = [n |-> 0, start |-> 0]]
    /\ Goto(r, [at |-> "issuing", user |-> req[r].user])
    /\ UNCHANGED <<users, sessions, now, chosen, issued, seen>>

\* A fresh random cookie; the first expiry is the sooner of the two windows.
Issue(r, k) ==
    /\ At(r, "issuing") /\ k \notin issued
    /\ sessions' = [sessions EXCEPT ![k] =
           [user |-> req[r].user, created |-> now, expires |-> now + Lesser(Idle, Absolute)]]
    /\ issued' = issued \cup {k}
    /\ seen' = [seen EXCEPT ![k] = now]
    /\ Done(r)
    /\ UNCHANGED <<users, counts, now, chosen, guesses>>

-----------------------------------------------------------------------------
\* Mutant of Validate: the idle window slides without a ceiling.
ValidateUncapped(r, k) ==
    /\ At(r, "idle") /\ sessions[k] # Nothing
    /\ LET s == sessions[k] IN
       IF now >= s.expires \/ now - s.created > Absolute
       THEN Goto(r, [at |-> "stale", cookie |-> k]) /\ UNCHANGED seen
       ELSE /\ Goto(r, [at |-> IF now + Idle > s.expires THEN "sliding" ELSE "admitted",
                        cookie |-> k, user |-> s.user, expires |-> now + Idle])
            /\ seen' = [seen EXCEPT ![k] = now]
    /\ UNCHANGED <<users, sessions, counts, now, chosen, issued, guesses>>

\* A request with a cookie: its row is read and found expired, or to be slid,
\* or good as it is.  The account is looked up as well, and always there.
Validate(r, k) ==
    /\ At(r, "idle") /\ sessions[k] # Nothing
    /\ LET s == sessions[k]
           newExpiry == Lesser(now + Idle, s.created + Absolute)
       IN
       IF now >= s.expires \/ now - s.created > Absolute
       THEN Goto(r, [at |-> "stale", cookie |-> k]) /\ UNCHANGED seen
       ELSE /\ Goto(r, [at |-> IF newExpiry > s.expires THEN "sliding" ELSE "admitted",
                        cookie |-> k, user |-> s.user, expires |-> newExpiry])
            /\ seen' = [seen EXCEPT ![k] = now]
    /\ UNCHANGED <<users, sessions, counts, now, chosen, issued, guesses>>

DeleteStale(r) ==
    /\ At(r, "stale")
    /\ sessions' = [sessions EXCEPT ![req[r].cookie] = Nothing]
    /\ Done(r)
    /\ UNCHANGED <<users, counts, now, history>>

\* Mutant of Touch: the row is written whether or not it is still there.
TouchUpserts(r) ==
    /\ At(r, "sliding")
    /\ sessions' = [sessions EXCEPT ![req[r].cookie] =
           [user |-> req[r].user, created |-> now, expires |-> req[r].expires]]
    /\ Goto(r, [req[r] EXCEPT !.at = "admitted"])
    /\ UNCHANGED <<users, counts, now, history>>

\* The request fails when its session was deleted since it was read.
Touch(r) ==
    /\ At(r, "sliding")
    /\ LET k == req[r].cookie IN
       IF sessions[k] = Nothing
       THEN Done(r) /\ UNCHANGED sessions
       ELSE /\ sessions' = [sessions EXCEPT ![k].expires = req[r].expires]
            /\ Goto(r, [req[r] EXCEPT !.at = "admitted"])
    /\ UNCHANGED <<users, counts, now, history>>

\* What an admitted request does: show a page, sign out, or change the
\* password, for which the row is read again.
ServePage(r) ==
    /\ At(r, "admitted")
    /\ Done(r)
    /\ UNCHANGED <<users, sessions, counts, now, history>>

PostLogout(r) ==
    /\ At(r, "admitted")
    /\ sessions' = [sessions EXCEPT ![req[r].cookie] = Nothing]
    /\ Done(r)
    /\ UNCHANGED <<users, counts, now, history>>

PostChangePassword(r, current, next) ==
    /\ At(r, "admitted")
    /\ IF users[req[r].user] = current
       THEN Goto(r, [at |-> "changing", user |-> req[r].user, pw |-> next])
       ELSE Done(r)
    /\ UNCHANGED <<users, sessions, counts, now, history>>

UpdatePassword(r) ==
    /\ At(r, "changing")
    /\ users' = [users EXCEPT ![req[r].user] = req[r].pw]
    /\ chosen' = [chosen EXCEPT ![req[r].user] = req[r].pw]
    /\ Goto(r, [at |-> "ending", user |-> req[r].user])
    /\ UNCHANGED <<sessions, counts, now, issued, seen, guesses>>

DeleteByUser(r) ==
    /\ At(r, "ending")
    /\ sessions' = [k \in Cookies |->
           IF sessions[k] # Nothing /\ sessions[k].user = req[r].user THEN Nothing ELSE sessions[k]]
    /\ Done(r)
    /\ UNCHANGED <<users, counts, now, history>>

-----------------------------------------------------------------------------
\* The prune loop.
PruneExpired ==
    /\ sessions' = [k \in Cookies |->
           IF sessions[k] # Nothing /\ sessions[k].expires <= now THEN Nothing ELSE sessions[k]]
    /\ UNCHANGED <<users, counts, req, now, history>>

\* A statement fails, or the client is gone: the handler returns where it is.
\* The last step of a password change can be what fails.
Abort(r) ==
    /\ ~At(r, "idle")
    /\ Done(r)
    /\ UNCHANGED <<users, sessions, counts, now, history>>

\* The process restarts: requests and the limiter's counters are lost.
Restart ==
    /\ counts' = [i \in IPs |-> Nothing]
    /\ req' = [r \in Requests |-> Free]
    /\ guesses' = [i \in IPs |-> [n |-> 0, start |-> 0]]
    /\ UNCHANGED <<users, sessions, now, chosen, issued, seen>>

Tick ==
    /\ now < MaxTime
    /\ now' = now + 1
    /\ UNCHANGED <<users, sessions, counts, req, history>>

Next ==
    \/ \E r \in Requests :
        \/ \E e \in Emails, p \in Passwords : PostSetup(r, e, p)
        \/ \E i \in IPs, e \in Emails, p \in Passwords : PostLogin(r, i, e, p)
        \/ Create(r) \/ GetByEmail(r) \/ UpdateLogin(r)
        \/ RecordFailure(r) \/ RecordSuccess(r)
        \/ \E k \in Cookies : Issue(r, k) \/ Validate(r, k)
        \/ DeleteStale(r) \/ Touch(r) \/ ServePage(r) \/ PostLogout(r)
        \/ \E p, q \in Passwords : PostChangePassword(r, p, q)
        \/ UpdatePassword(r) \/ DeleteByUser(r) \/ Abort(r)
    \/ PruneExpired \/ Restart \/ Tick

Spec == Init /\ [][Next]_vars

-----------------------------------------------------------------------------
\* Type correctness of the tables, the limiter and the history.  A session's
\* row always belongs to an account (the foreign key of sessions.user_id).
TypeOK ==
    /\ users \in [Emails -> Passwords \cup {Nothing}]
    /\ sessions \in [Cookies -> Row \cup {Nothing}]
    /\ counts \in [IPs -> Attempts \cup {Nothing}]
    /\ \A r \in Requests : req[r].at \in {"idle", "creating", "allowed", "verified", "refused",
           "succeeded", "issuing", "stale", "sliding", "admitted", "changing", "ending"}
    /\ now \in Nat
    /\ {k \in Cookies : sessions[k] # Nothing} \subseteq issued
    /\ \A k \in Cookies : sessions[k] # Nothing => users[sessions[k].user] # Nothing

\* However validations, expiry writes and deletions interleave, a stored
\* session never outlives the ceiling counted from its creation, nor the idle
\* window counted from the last time it was found valid (Sessions.Validate).
SessionBounded ==
    \A k \in Cookies : sessions[k] # Nothing =>
        sessions[k].expires <= Lesser(seen[k] + Idle, sessions[k].created + Absolute)

\* A session that was signed out, ended by a password change, found expired or
\* pruned is never there again, though requests that read it before may still
\* be about to extend it (Sessions.Revoke, Touch, DeleteByUser).
EndedStaysEnded ==
    [][\A k \in issued : sessions[k] = Nothing => sessions'[k] = Nothing]_vars

\* An address gets at most Limit failures recorded in a window, and one more
\* for each other request that was past Allow when the limit was reached
\* (AttemptLimiter is consulted before and told after the verification).
GuessesBounded ==
    \A i \in IPs : guesses[i].n <= Limit - 1 + Cardinality(Requests)

\* The stored password is the one last chosen: no other handler brings an
\* earlier one back (Users.Authenticate writes a copy of the whole row).
StoredIsLastChosen == users = chosen
=============================================================================
