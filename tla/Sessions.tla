------------------------------ MODULE Sessions ------------------------------
(***************************************************************************)
(* The password and the sessions of one user (services/auth.py).  A login  *)
(* reads the user row without a lock, then locks the throttle row of the   *)
(* account and decides; a password change reads the row at the start of    *)
(* its request and commits later under the same lock.  The rows of a       *)
(* refused request are rolled back, except that a failed login commits.    *)
(* Password hashes are current, so a login does not rehash.                *)
(***************************************************************************)
EXTENDS Naturals, Sequences

CONSTANTS
  Passwords,     \* passwords tried and chosen
  Logins,        \* login requests in flight at once
  Changes,       \* password changes in flight at once
  MaxSessions,   \* max_active_sessions_per_user
  FreeFailures,  \* login_account_free_failures
  LockFailures,  \* login_account_lock_failures
  MaxPasswordChanges

ASSUME SessionsAssumption ==
  /\ MaxSessions \in Nat \ {0} /\ MaxPasswordChanges \in Nat
  /\ FreeFailures \in Nat /\ LockFailures \in Nat \ {0}

VARIABLES
  account,   \* [pw, version, active]
  history,   \* former passwords
  throttle,  \* [failures, delayed, locked]
  live,      \* sessions not revoked and not expired, oldest first
  login,     \* [password tried, the user row as it was read]
  change,    \* [new password, the user row as it was read]
  overlaid   \* a change was written over another it had not read

sessionVars == <<account, history, throttle, live, login, change, overlaid>>

Accounts == [pw : Passwords, version : 0 .. MaxPasswordChanges, active : BOOLEAN]
NoRow == [pw |-> "none", version |-> 0, active |-> FALSE]
NoLogin == [try |-> "none", read |-> NoRow]
NoChange == [new |-> "none", read |-> NoRow]
Calm == [failures |-> 0, delayed |-> FALSE, locked |-> FALSE]

SessionsTypeOK ==
  /\ account \in Accounts
  /\ history \in SUBSET Passwords
  /\ throttle \in [failures : 0 .. LockFailures, delayed : BOOLEAN, locked : BOOLEAN]
  /\ live \in Seq([version : 0 .. MaxPasswordChanges, pw : Passwords])
  /\ Len(live) <= MaxSessions
  /\ login \in [Logins -> [try : Passwords, read : Accounts] \cup {NoLogin}]
  /\ change \in [Changes -> [new : Passwords, read : Accounts] \cup {NoChange}]
  /\ overlaid \in BOOLEAN

SessionsInit ==
  /\ account \in {a \in Accounts : a.version = 0 /\ a.active}
  /\ history = {}
  /\ throttle = Calm
  /\ live = <<>>
  /\ login = [l \in Logins |-> NoLogin]
  /\ change = [c \in Changes |-> NoChange]
  /\ overlaid = FALSE

----------------------------------------------------------------------------

LoginReads(l, p) ==
  /\ login[l] = NoLogin
  /\ login' = [login EXCEPT ![l] = [try |-> p, read |-> account]]
  /\ UNCHANGED <<account, history, throttle, live, change, overlaid>>

Failure ==
  LET n == throttle.failures + 1
  IN  IF n >= LockFailures THEN [failures |-> n, delayed |-> FALSE, locked |-> TRUE]
      ELSE [failures |-> n, delayed |-> n > FreeFailures, locked |-> FALSE]

\* Oldest sessions make room for the new one.
Overflowed(s) == IF Len(s) >= MaxSessions THEN Tail(s) ELSE s

Without(s, i) ==
  IF i \in DOMAIN s THEN SubSeq(s, 1, i - 1) \o SubSeq(s, i + 1, Len(s)) ELSE s

\* revoke_presented_session: the session whose cookie came with the login, the
\* i-th before room was made, ends as well.
Rotated(i) == Without(Overflowed(live), IF Len(live) >= MaxSessions THEN i - 1 ELSE i)

\* Under the lock of the throttle row.  The password is checked against the
\* row as it was read, and the session carries the version of that row.
LoginDecides(l, i) ==
  LET try == login[l].try
      read == login[l].read
  IN  /\ login[l] # NoLogin
      /\ login' = [login EXCEPT ![l] = NoLogin]
      /\ IF throttle.locked \/ throttle.delayed \/ (try = read.pw /\ ~read.active)
         THEN UNCHANGED <<throttle, live>>
         ELSE IF try # read.pw
         THEN throttle' = Failure /\ live' = live
         ELSE /\ throttle' = Calm
              /\ live' = Append(Rotated(i), [version |-> read.version, pw |-> try])
      /\ UNCHANGED <<account, history, change, overlaid>>

DelayPasses ==
  /\ throttle.delayed
  /\ throttle' = [throttle EXCEPT !.delayed = FALSE]
  /\ UNCHANGED <<account, history, live, login, change, overlaid>>

ResetPasswordAuthenticatorLock ==
  /\ throttle # Calm
  /\ throttle' = Calm
  /\ UNCHANGED <<account, history, live, login, change, overlaid>>

\* Logout or expiry.
SessionEnds(i) ==
  /\ live' = Without(live, i)
  /\ UNCHANGED <<account, history, throttle, login, change, overlaid>>

LogoutAll ==
  /\ live # <<>> /\ live' = <<>>
  /\ UNCHANGED <<account, history, throttle, login, change, overlaid>>

\* authenticate_token: other sessions are refused (and the mark the refusal
\* puts on them is rolled back with it).
Usable(s) == account.active /\ s.version = account.version

ChangePasswordReads(c, i, p) ==
  /\ change[c] = NoChange
  /\ Usable(live[i])
  /\ account.version < MaxPasswordChanges
  /\ p # account.pw /\ p \notin history
  /\ change' = [change EXCEPT ![c] = [new |-> p, read |-> account]]
  /\ UNCHANGED <<account, history, throttle, live, login, overlaid>>

\* Wrong variant: the version of the row is not advanced.
RewrittenSameVersion(read, new) == [account EXCEPT !.pw = new]

\* The stored version is one above the version that was read.
Rewritten(read, new) ==
  [account EXCEPT !.pw = new, !.version = read.version + 1]

ChangePassword(c) ==
  LET read == change[c].read
  IN  /\ change[c] # NoChange
      /\ account' = Rewritten(read, change[c].new)
      /\ overlaid' = (overlaid \/ read.version # account.version)
      /\ history' = history \cup {read.pw}
      /\ throttle' = Calm
      /\ live' = <<>>
      /\ change' = [change EXCEPT ![c] = NoChange]
      /\ UNCHANGED login

DisableUser ==
  /\ account.active
  /\ account' = [account EXCEPT !.active = FALSE]
  /\ live' = <<>>
  /\ UNCHANGED <<history, throttle, login, change, overlaid>>

SessionsNext ==
  \/ \E l \in Logins, p \in Passwords : LoginReads(l, p)
  \/ \E l \in Logins, i \in 0..Len(live) : LoginDecides(l, i)
  \/ DelayPasses \/ ResetPasswordAuthenticatorLock
  \/ \E i \in DOMAIN live : SessionEnds(i)
  \/ \E c \in Changes, i \in DOMAIN live, p \in Passwords : ChangePasswordReads(c, i, p)
  \/ \E c \in Changes : ChangePassword(c)
  \/ LogoutAll \/ DisableUser

SessionsSpec == SessionsInit /\ [][SessionsNext]_sessionVars

----------------------------------------------------------------------------

\* A session the server accepts was opened with the password of today, even
\* when the login read the user row before a password change, or before the
\* account was disabled, and finished after it: the change revokes what it
\* can see, the version refuses what was still on its way
\* (authenticate_token compares password_version).  Two changes that read the
\* same row write the same version, and nothing tells their sessions apart.
UsableMeansCurrent ==
  overlaid \/ \A i \in DOMAIN live : Usable(live[i]) => live[i].pw = account.pw

============================================================================
