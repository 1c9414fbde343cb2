------------------------------- MODULE Sessions -------------------------------
(***************************************************************************)
(* Signing in and out (app/auth/service.py, rate_limit.py), for one user.  *)
(*                                                                         *)
(* A request is one transaction under READ COMMITTED, committed after its  *)
(* answer.  It reads the session it belongs to without a lock, and writes  *)
(* the columns it changed when it commits.  The row that counts refused    *)
(* passwords is locked from the check until the commit, if there is one.   *)
(***************************************************************************)
EXTENDS Naturals, Sequences, FiniteSets, FiniteSetsExt

CONSTANTS
  Requests,         \* requests under way at once
  Addresses,        \* what client_host may be
  MaxFailed,        \* auth_max_failed_attempts
  LockoutTime, IdleTimeout, AbsoluteTimeout, RememberTime, TouchInterval,
  LastTime,         \* bound: the clock
  MaxSessions,      \* bound: sessions ever created
  MaxPassword       \* bound: password changes

VARIABLES
  now,
  password,  \* which password is set
  session,   \* rows of user_sessions
  attempt,   \* rows of auth_login_attempts; the count is 0 where there is none
  refused,   \* history: passwords answered with 401 since the count was reset
  ended,     \* history: sessions a logout or a password change was answered for
  request    \* what each request is doing

sessionVars == <<now, password, session, attempt, refused, ended, request>>

Longest == Max({RememberTime, AbsoluteTimeout, LockoutTime})
Times == 0..(LastTime + Longest)
\* UserSession; knew, the password of whoever it was made for, and late, that a
\* change of the password overlapped its making, are not stored.
SessionRow == [seen : Times, idle : Times, absolute : Times, revoked : BOOLEAN,
               knew : 0..MaxPassword, late : BOOLEAN]
\* AuthLoginAttempt
AttemptRow == [count : 0..(MaxFailed + Cardinality(Requests)), until : Times]
Idle == [at |-> "idle"]
NoRow == [count |-> 0, until |-> 0]

TypeOK ==
  /\ now \in 0..LastTime /\ password \in 0..MaxPassword
  /\ Len(session) <= MaxSessions /\ \A s \in DOMAIN session : session[s] \in SessionRow
  /\ attempt \in [Addresses -> AttemptRow]
  /\ ended \subseteq DOMAIN session
  /\ DOMAIN request = Requests

Init ==
  /\ now = 0 /\ password = 0 /\ session = << >>
  /\ attempt = [a \in Addresses |-> NoRow] /\ refused = [a \in Addresses |-> 0]
  /\ ended = {}
  /\ request = [p \in Requests |-> Idle]

-----------------------------------------------------------------------------
At(p, stage) == request[p].at = stage
Goto(p, state) == request' = [request EXCEPT ![p] = state]
Others(p) == Requests \ {p}

Tick ==
  /\ now < LastTime
  /\ now' = now + 1
  /\ UNCHANGED <<password, session, attempt, refused, ended, request>>

\* The request fails, or is the victim of a deadlock: nothing is written.
Dies(p) ==
  /\ ~At(p, "idle")
  /\ Goto(p, Idle)
  /\ UNCHANGED <<now, password, session, attempt, refused, ended>>

-----------------------------------------------------------------------------
(* login *)

Exists(a) == attempt[a].count > 0
Holds(p, a) == At(p, "compared") /\ request[p].address = a /\ request[p].held
Free(p, a) == \A q \in Others(p) : ~Holds(q, a)
LockedOut(a) == attempt[a].until > now

\* Mutant: login_attempt without FOR UPDATE.
CheckUnlocked(p, a, right, remember, previous) ==
  /\ At(p, "idle") /\ ~LockedOut(a)
  /\ Goto(p, [at |-> "compared", address |-> a, right |-> right, held |-> FALSE,
              reset |-> attempt[a].until > 0, knew |-> password,
              remember |-> remember, previous |-> previous])
  /\ UNCHANGED <<now, password, session, attempt, refused, ended>>

\* LoginRateLimiter.check, which locks the row if there is one, and forgets a
\* lockout that is over; then the password is compared.
Check(p, a, right, remember, previous) ==
  /\ At(p, "idle") /\ Free(p, a) /\ ~LockedOut(a)
  /\ Goto(p, [at |-> "compared", address |-> a, right |-> right, held |-> Exists(a),
              reset |-> attempt[a].until > 0, knew |-> password,
              remember |-> remember, previous |-> previous])
  /\ UNCHANGED <<now, password, session, attempt, refused, ended>>

Counted(a, before) ==
  /\ attempt' = [attempt EXCEPT ![a] =
       [count |-> before + 1,
        until |-> IF before + 1 >= MaxFailed THEN now + LockoutTime ELSE 0]]
  /\ refused' = [refused EXCEPT ![a] = (IF before = 0 THEN 0 ELSE @) + 1]

\* LoginRateLimiter.failure finds the row, its own or one committed meanwhile.
Failure(p) ==
  LET a == request[p].address
  IN /\ At(p, "compared") /\ ~request[p].right
     /\ Exists(a) /\ Free(p, a)
     /\ Counted(a, IF request[p].held /\ request[p].reset THEN 0 ELSE attempt[a].count)
     /\ Goto(p, Idle)
     /\ UNCHANGED <<now, password, session, ended>>

\* Or it finds none, and adds one,
FailureFirst(p) ==
  /\ At(p, "compared") /\ ~request[p].right /\ ~Exists(request[p].address)
  /\ Goto(p, [at |-> "inserting", address |-> request[p].address])
  /\ UNCHANGED <<now, password, session, attempt, refused, ended>>

\* which the unique constraint refuses if another request was faster (Dies).
InsertAttempt(p) ==
  /\ At(p, "inserting") /\ ~Exists(request[p].address)
  /\ Counted(request[p].address, 0)
  /\ Goto(p, Idle)
  /\ UNCHANGED <<now, password, session, ended>>

Earlier(a, b) == Min({a, b})

\* A change of the password has looked for the sessions to end, and not this one.
Overlapped(p) ==
  \/ request[p].knew # password
  \/ \E q \in Others(p) : At(q, "revoking") /\ request[q].changes

\* _new_session; a remembered session is one whose two ends are the same.
NewSession(p, remember) ==
  LET absolute == now + IF remember THEN RememberTime ELSE AbsoluteTimeout
  IN [seen |-> now, absolute |-> absolute,
      idle |-> IF remember THEN absolute ELSE Earlier(now + IdleTimeout, absolute),
      revoked |-> FALSE, knew |-> request[p].knew, late |-> Overlapped(p)]

\* revoke_current, revoke_token
Revoked(ids) == [s \in DOMAIN session |-> [session[s] EXCEPT !.revoked = @ \/ s \in ids]]

\* Its DELETE of the user's rows waits for whoever has one.
Success(p) ==
  /\ At(p, "compared") /\ request[p].right
  /\ \A a \in Addresses : Free(p, a)
  /\ Len(session) < MaxSessions
  /\ attempt' = [a \in Addresses |-> NoRow] /\ refused' = [a \in Addresses |-> 0]
  /\ session' = Append(Revoked(request[p].previous), NewSession(p, request[p].remember))
  /\ ended' = ended \cup request[p].previous
  /\ Goto(p, Idle)
  /\ UNCHANGED <<now, password>>

-----------------------------------------------------------------------------
(* Requests of a session *)

Valid(s) == ~session[s].revoked /\ now < session[s].idle /\ now < session[s].absolute

\* authenticate: what it will write if the session was not seen for a while
Touched(s) ==
  IF now < session[s].seen + TouchInterval
  THEN [seen |-> session[s].seen, idle |-> session[s].idle]
  ELSE [seen |-> now,
        idle |-> IF session[s].idle = session[s].absolute THEN session[s].absolute
                 ELSE Earlier(now + IdleTimeout, session[s].absolute)]

Authenticate(p, s) ==
  /\ At(p, "idle") /\ s \in DOMAIN session /\ Valid(s)
  /\ Goto(p, [at |-> "serving", session |-> s, touches |-> now >= session[s].seen + TouchInterval,
              touch |-> Touched(s), knew |-> password])
  /\ UNCHANGED <<now, password, session, attempt, refused, ended>>

\* Mutant: the row is written as it was read, with what this request changed.
WrittenWhole(p, rows) ==
  IF ~request[p].touches THEN rows
  ELSE [rows EXCEPT ![request[p].session] =
          [@ EXCEPT !.seen = request[p].touch.seen, !.idle = request[p].touch.idle,
                    !.revoked = @ /\ ~session[request[p].session].revoked]]

\* The UPDATE of the columns that changed
Written(p, rows) ==
  IF ~request[p].touches THEN rows
  ELSE [rows EXCEPT ![request[p].session] =
          [@ EXCEPT !.seen = request[p].touch.seen, !.idle = request[p].touch.idle]]

\* The middleware commits whatever was asked.
Commit(p) ==
  /\ At(p, "serving")
  /\ session' = Written(p, session)
  /\ Goto(p, Idle)
  /\ UNCHANGED <<now, password, attempt, refused, ended>>

\* GET /api/auth/session is not refused, so it keeps the mark of an expired session.
SessionStatus(s) ==
  /\ s \in DOMAIN session /\ ~session[s].revoked /\ ~Valid(s)
  /\ session' = Revoked({s})
  /\ UNCHANGED <<now, password, attempt, refused, ended, request>>

Logout(p) ==
  /\ At(p, "serving")
  /\ session' = Written(p, Revoked({request[p].session}))
  /\ ended' = ended \cup {request[p].session}
  /\ Goto(p, Idle)
  /\ UNCHANGED <<now, password, attempt, refused>>

\* revoke_user_sessions: the sessions its statement sees
ActiveSessions(p) == {s \in DOMAIN session : ~session[s].revoked}

\* logout_all, or change_password with the password that was read
RevokeBegin(p, changes) ==
  /\ At(p, "serving")
  /\ Goto(p, [at |-> "revoking", session |-> request[p].session,
              touches |-> request[p].touches, touch |-> request[p].touch,
              knew |-> request[p].knew, changes |-> changes, ids |-> ActiveSessions(p)])
  /\ UNCHANGED <<now, password, session, attempt, refused, ended>>

LogoutAll(p) ==
  /\ At(p, "revoking") /\ ~request[p].changes
  /\ session' = Written(p, Revoked(request[p].ids))
  /\ ended' = ended \cup request[p].ids
  /\ Goto(p, Idle)
  /\ UNCHANGED <<now, password, attempt, refused>>

\* The new session is of whoever chose the new password.
ChangePassword(p) ==
  /\ At(p, "revoking") /\ request[p].changes
  /\ Len(session) < MaxSessions /\ password < MaxPassword
  /\ password' = password + 1
  /\ session' = Append(Written(p, Revoked(request[p].ids)),
                       [NewSession(p, FALSE) EXCEPT !.knew = password + 1])
  /\ ended' = ended \cup request[p].ids
  /\ Goto(p, Idle)
  /\ UNCHANGED <<now, attempt, refused>>

Next ==
  \/ Tick
  \/ \E s \in 1..MaxSessions : SessionStatus(s)
  \/ \E p \in Requests :
       \/ Dies(p) \/ Failure(p) \/ FailureFirst(p) \/ InsertAttempt(p) \/ Success(p)
       \/ \E a \in Addresses, right \in BOOLEAN, remember \in BOOLEAN,
             previous \in {{}} \cup {{s} : s \in DOMAIN session} :
            /\ ~right => ~remember /\ previous = {}
            /\ Check(p, a, right, remember, previous)
       \/ \E s \in 1..MaxSessions : Authenticate(p, s)
       \/ Commit(p) \/ Logout(p)
       \/ \E changes \in BOOLEAN : RevokeBegin(p, changes)
       \/ LogoutAll(p) \/ ChangePassword(p)

Spec == Init /\ [][Next]_sessionVars

-----------------------------------------------------------------------------
\* However requests overlap: a session that a logout or a password change was
\* answered for never comes back, none outlives its absolute end, and one that
\* was made with an earlier password is gone unless its making overlapped the
\* change; and every refused password counts, up to the limit and one more for
\* each request that was already being compared, beyond which there is a lockout.
SignedOutForGood ==
  /\ \A s \in ended : session[s].revoked
  /\ \A s \in DOMAIN session :
       /\ session[s].idle <= session[s].absolute
       /\ session[s].revoked \/ session[s].knew = password \/ session[s].late
  /\ \A a \in Addresses :
       /\ attempt[a].count = refused[a]
       /\ refused[a] < MaxFailed + Cardinality(Requests)
       /\ refused[a] >= MaxFailed => attempt[a].until > 0
=============================================================================
