------------------------------- MODULE Sessions -------------------------------
(***************************************************************************)
(* Signing in (http/app.ts, http/sessions.ts, http/ratelimit.ts): the      *)
(* sessions of one account, which the command line adds, removes and gives *)
(* a new password while the server runs (cli.ts), and the pause after      *)
(* failed attempts.  Checking a password takes time, and other requests    *)
(* and commands go on meanwhile.                                           *)
(***************************************************************************)
EXTENDS Naturals, FiniteSets

CONSTANTS
    Logins,          \* sign-in requests that may overlap
    MaxSession,      \* bound: sessions ever opened
    MaxPassword,     \* bound: passwords the account ever had
    IdleMs, Lifetime, \* idleMs and absoluteMs
    MaxFailures,     \* maxFailures
    Window, Lockout, \* windowMs and lockoutMs
    MaxStreak,       \* the doublings of a lockout, 5 in ratelimit.ts
    Horizon,         \* bound: the clock
    None

ASSUME SessionsAssumption ==
    /\ MaxSession \in Nat /\ MaxPassword \in Nat /\ Horizon \in Nat
    /\ IdleMs \in Nat /\ Lifetime \in Nat
    /\ MaxFailures \in Nat \ {0} /\ Window \in Nat /\ Lockout \in Nat
    /\ MaxStreak \in Nat

VARIABLES
    time,        \* Date.now()
    user,        \* the row of users: [password, changedAt], or None
    passwords,   \* passwords given so far
    session,     \* table sessions: [createdAt, seenAt] of each id, or None
    opened,      \* ids handed out so far
    login,       \* what each request found before its password is checked
    bucket,      \* the limiter's entry for the account, or None
    over,        \* sessions that have ended: signed out, refused or dropped
    answered     \* the session the last request was answered under, or None

sessionVars ==
    <<time, user, passwords, session, opened, login, bucket, over, answered>>

Sids == 1..MaxSession
Known == {s \in Sids : session[s] # None}

SessionsInit ==
    /\ time = Window + 1
    /\ user = [password |-> 1, changedAt |-> 1]
    /\ passwords = 1
    /\ session = [s \in Sids |-> None]
    /\ opened = 0
    /\ login = [l \in Logins |-> None]
    /\ bucket = None
    /\ over = {}
    /\ answered = None

SessionTick ==
    /\ time < Horizon
    /\ time' = time + 1
    /\ answered' = None
    /\ UNCHANGED <<user, passwords, session, opened, login, bucket, over>>

(***************************************************************************)
(* The limiter.                                                            *)
(***************************************************************************)
Locked == bucket # None /\ bucket.lockedUntil > time

Least(a, b) == IF a <= b THEN a ELSE b

\* recordFailure
LoginFailed(b) ==
    LET old    == IF b = None THEN [failures |-> 0, firstAt |-> 0, lockedUntil |-> 0] ELSE b
        past   == time - old.firstAt > Window
        count  == IF past THEN 1 ELSE old.failures + 1
        streak == Least(count - MaxFailures, MaxStreak)
    IN  [failures |-> count,
         firstAt |-> IF past THEN time ELSE old.firstAt,
         lockedUntil |-> IF count >= MaxFailures THEN time + Lockout * 2 ^ streak
                         ELSE old.lockedUntil]

\* Neither idle too long nor too old.
Live(s) == time - session[s].seenAt <= IdleMs /\ time - session[s].createdAt <= Lifetime

\* Mutant: a pause longer than the window is forgotten with it.
SweptByWindow(b) == IF b # None /\ time - b.firstAt > Window THEN None ELSE b

Swept(b) ==
    IF b # None /\ b.lockedUntil < time /\ time - b.firstAt > Window THEN None ELSE b

\* Once a minute, both.
Sweep ==
    LET gone == {s \in Known : ~Live(s)}
    IN  /\ session' = [s \in Sids |-> IF s \in gone THEN None ELSE session[s]]
        /\ bucket' = Swept(bucket)
        /\ over' = over \cup gone
        /\ answered' = None
        /\ UNCHANGED <<time, user, passwords, opened, login>>

(***************************************************************************)
(* Signing in.                                                             *)
(***************************************************************************)
\* handleLogin up to the check of the password given.
Login(l, given) ==
    /\ login[l] = None
    /\ ~Locked
    /\ login' = [login EXCEPT ![l] =
                   [right |-> user # None /\ given = user.password]]
    /\ answered' = None
    /\ UNCHANGED <<time, user, passwords, session, opened, bucket, over>>

LoginFails(l) ==
    /\ login[l] # None /\ ~login[l].right
    /\ login' = [login EXCEPT ![l] = None]
    /\ bucket' = LoginFailed(bucket)
    /\ answered' = None
    /\ UNCHANGED <<time, user, passwords, session, opened, over>>

\* The row of an account removed meanwhile refuses the session.
LoginSucceeds(l) ==
    /\ login[l] # None /\ login[l].right
    /\ opened < MaxSession
    /\ login' = [login EXCEPT ![l] = None]
    /\ bucket' = None
    /\ answered' = None
    /\ IF user = None THEN UNCHANGED <<session, opened>>
       ELSE /\ opened' = opened + 1
            /\ session' = [session EXCEPT ![opened + 1] =
                             [createdAt |-> time, seenAt |-> time]]
    /\ UNCHANGED <<time, user, passwords, over>>

(***************************************************************************)
(* Requests.                                                               *)
(***************************************************************************)
Drop(gone) ==
    /\ session' = [s \in Sids |-> IF s \in gone THEN None ELSE session[s]]
    /\ over' = over \cup gone

\* touch: what is past either limit is deleted and refused.
Touch(s) == session[s] # None /\ Live(s)

\* handle: then a session older than the password is deleted and refused.
SessionRequest(s) ==
    /\ s \in 1..opened
    /\ IF Touch(s) /\ user.changedAt <= session[s].createdAt
       THEN /\ session' = [session EXCEPT ![s].seenAt = time]
            /\ answered' = s
            /\ UNCHANGED over
       ELSE /\ Drop({s})
            /\ answered' = None
    /\ UNCHANGED <<time, user, passwords, opened, login, bucket>>

Logout(s) ==
    /\ s \in 1..opened
    /\ Drop({s})
    /\ answered' = None
    /\ UNCHANGED <<time, user, passwords, opened, login, bucket>>

(***************************************************************************)
(* The command line.                                                       *)
(***************************************************************************)
ChangePassword ==
    /\ user # None /\ passwords < MaxPassword
    /\ passwords' = passwords + 1
    /\ user' = [password |-> passwords + 1, changedAt |-> time]
    /\ Drop(Known)
    /\ answered' = None
    /\ UNCHANGED <<time, opened, login, bucket>>

\* Mutant: the rows of the account's sessions are left behind.
RemoveUserAlone ==
    /\ user # None
    /\ user' = None
    /\ over' = over \cup Known
    /\ answered' = None
    /\ UNCHANGED <<time, passwords, session, opened, login, bucket>>

\* ON DELETE CASCADE
RemoveUser ==
    /\ user # None
    /\ user' = None
    /\ Drop(Known)
    /\ answered' = None
    /\ UNCHANGED <<time, passwords, opened, login, bucket>>

AddUser ==
    /\ user = None /\ passwords < MaxPassword
    /\ passwords' = passwords + 1
    /\ user' = [password |-> passwords + 1, changedAt |-> time]
    /\ answered' = None
    /\ UNCHANGED <<time, session, opened, login, bucket, over>>

SessionsNext ==
    \/ SessionTick \/ Sweep
    \/ \E l \in Logins :
          \/ \E given \in 1..MaxPassword : Login(l, given)
          \/ LoginFails(l) \/ LoginSucceeds(l)
    \/ \E s \in Sids : SessionRequest(s) \/ Logout(s)
    \/ ChangePassword \/ RemoveUser \/ AddUser

SessionsSpec == SessionsInit /\ [][SessionsNext]_sessionVars

SessionsTypeOK ==
    /\ user = None \/ (user.password \in 1..passwords /\ user.changedAt \in 1..time)
    /\ \A s \in Known : s <= opened /\ session[s].createdAt <= session[s].seenAt
    /\ Known # {} => user # None
    /\ bucket # None => bucket.failures > 0 /\ bucket.firstAt <= time

\* A session that has ended answers no request again, whichever of the five
\* ways it ended: signed out, idle or too old, swept, its password changed,
\* its account removed - though an account of that name is added again, and
\* requests and commands come in the same millisecond (app.ts:239-246).
EndedStaysEnded == answered # None => answered \notin over

\* The pause after failed attempts is kept until it has run out: attempts that
\* were under way when it began, and the sweep, do not shorten it; only a
\* sign-in that succeeds ends it early (ratelimit.ts:52-84).
PauseIsKept ==
    Locked => \/ bucket' # None /\ bucket'.lockedUntil >= bucket.lockedUntil
              \/ \E l \in Logins : LoginSucceeds(l)
=============================================================================
