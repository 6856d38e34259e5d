------------------------------ MODULE Sessions ------------------------------
(***************************************************************************)
(* Signing in and out of BeaverDeck: the two-step local login, the         *)
(* in-memory session records, logout and the hourly sweep, over the        *)
(* configuration store.  ProviderSignIn has the identity providers.        *)
(*                                                                         *)
(* A handler takes the store's read lock several times: between two of its *)
(* steps any mutation, logout, sweep or crash may happen.                  *)
(***************************************************************************)
EXTENDS ConfigStore

CONSTANTS
    Clients,  \* sign-ins that may be under way together
    TTL,      \* sessionTokenTTL, in clock ticks
    MaxTime,  \* bound on the clock
    NoToken

\* A token is its signed payload: two sign-ins with the same payload in the
\* same tick obtain the same token.
Token == [user : Users, role : Roles, version : 1..MaxVersion, iat : 0..MaxTime]

\* Where a sign-in is.  From "read" on it holds what its token will say: what the
\* account had under the read lock, and, "stamped", the time.  Whether the account was
\* deleted or moved to another version since the read is history.
SignIn == [step : {"none"}]
    \cup [step : {"admitted", "outdated", "verified"}, user : Users, password : Passwords]
    \cup [step : {"read"}, user : Users, role : Roles, version : 1..MaxVersion,
          disturbed : BOOLEAN]
    \cup [step : {"stamped"}, token : Token, disturbed : BOOLEAN]

ASSUME SessionAssumption ==
    /\ TTL \in Nat \ {0}
    /\ MaxTime \in Nat
    /\ NoToken \notin Token

VARIABLES
    now,        \* the clock
    sessions,   \* tokens with a session record
    revoked,    \* those whose record is revoked
    signIns,    \* the sign-in each client has under way
    sweeping,   \* the stale record the sweeper is about to delete
    reissued,   \* tokens issued again after their revocation (history)
    ended       \* tokens logged out, none of the same being made (history)

sessionVars == <<now, sessions, revoked, signIns, sweeping, reissued, ended>>
allVars     == <<vars, sessionVars>>

NoSignIn == [step |-> "none"]

\* A missing session version counts as the first.
AtLeastOne(n) == IF n < 1 THEN 1 ELSE n

\* parseSessionToken: not expired.
Fresh(t) == now < t.iat + TTL

\* The account is there, with a role, at version n.  Readers wait for a mutation, so
\* they decide on what was published last.
Honours(u, n) ==
    /\ UserExists(previous, u)
    /\ RoleExists(previous, previous.users[u].role)
    /\ AtLeastOne(previousVersions[u]) = n

\* Authenticate.  Tokens of an earlier process have no record.
Accepts(t) ==
    /\ Fresh(t)
    /\ t \in sessions \ revoked
    /\ Honours(t.user, t.version)

-----------------------------------------------------------------------------
(* Local login: authLogin.                                                 *)

Move(c, s) == signIns' = [signIns EXCEPT ![c] = s]

\* GetBootstrapStatus lets the request in.
StartLogin(c, u, pw) ==
    /\ phase = "idle"
    /\ signIns[c] = NoSignIn
    /\ HasLocalAdmin(config)
    /\ Move(c, [step |-> "admitted", user |-> u, password |-> pw])
    /\ UNCHANGED <<vars, now, sessions, revoked, sweeping, reissued, ended>>

\* VerifyLocalCredentials under the read lock.
Verify(c) ==
    /\ phase = "idle"
    /\ signIns[c].step = "admitted"
    /\ LET u == signIns[c].user
           a == config.users[u]
       IN  IF /\ UserExists(config, u)
              /\ RoleExists(config, a.role)
              /\ a.password = signIns[c].password
           THEN Move(c, [signIns[c] EXCEPT !.step = IF a.current THEN "verified" ELSE "outdated"])
           ELSE Move(c, NoSignIn)
    /\ UNCHANGED <<vars, now, sessions, revoked, sweeping, reissued, ended>>

\* ... and its upgrade of an outdated hash, whose outcome it ignores.
UpgradeHash(c) ==
    /\ signIns[c].step = "outdated"
    /\ UpgradePasswordHash(signIns[c].user, signIns[c].password)
    /\ Move(c, [signIns[c] EXCEPT !.step = "verified"])
    /\ UNCHANGED <<now, sessions, revoked, sweeping, reissued, ended>>

\* A mistaken CreateSession: it takes the account's first version.
CreateFirstSession(c) ==
    /\ phase = "idle"
    /\ signIns[c].step = "verified"
    /\ LET u == signIns[c].user
       IN  IF UserExists(config, u)
           THEN Move(c, [step |-> "read", user |-> u, role |-> config.users[u].role,
                         version |-> 1, disturbed |-> FALSE])
           ELSE Move(c, NoSignIn)
    /\ UNCHANGED <<vars, now, sessions, revoked, sweeping, reissued, ended>>

\* CreateSession reads the account again, its current version with it, and gives the
\* lock back.
CreateSession(c) ==
    /\ phase = "idle"
    /\ signIns[c].step = "verified"
    /\ LET u == signIns[c].user
       IN  IF UserExists(config, u)
           THEN Move(c, [step |-> "read", user |-> u, role |-> config.users[u].role,
                         version |-> AtLeastOne(versions[u]), disturbed |-> FALSE])
           ELSE Move(c, NoSignIn)
    /\ UNCHANGED <<vars, now, sessions, revoked, sweeping, reissued, ended>>

\* The token a sign-in obtains at the time iat.
TokenAt(s, iat) == [user |-> s.user, role |-> s.role, version |-> s.version, iat |-> iat]

Stamp(c, iat) ==
    LET t == TokenAt(signIns[c], iat)
    IN  /\ signIns[c].step = "read"
        /\ Move(c, [step |-> "stamped", token |-> t, disturbed |-> signIns[c].disturbed])
        /\ ended' = IF t.iat = now THEN ended \ {t} ELSE ended
        /\ UNCHANGED <<vars, now, sessions, revoked, sweeping, reissued>>

\* A mistaken NewSessionToken: the token carries no time of its own.
NewUndatedToken(c) == Stamp(c, 0)

\* newSessionToken, without a lock: the token carries the time of its making.  One
\* made in the very tick of another's logout may be that token again.
NewSessionToken(c) == Stamp(c, now)

\* createSession, without a lock: a fresh record replaces any other of the same token.
StoreSession(c) ==
    /\ signIns[c].step = "stamped"
    /\ LET t == signIns[c].token
       IN  /\ sessions' = sessions \cup {t}
           /\ revoked' = revoked \ {t}
           /\ reissued' = IF t \in revoked THEN reissued \cup {t} ELSE reissued
    /\ Move(c, NoSignIn)
    /\ UNCHANGED <<vars, now, sweeping, ended>>

-----------------------------------------------------------------------------
(* Logout, sweeper, clock: none of them takes the store's lock.            *)

Serving == phase \in {"idle", "saving", "saved"}

Logout(t) ==
    /\ Serving
    /\ Fresh(t)
    /\ t \in sessions
    /\ revoked' = revoked \cup {t}
    /\ ended' = IF \E c \in Clients : signIns[c].step = "stamped" /\ signIns[c].token = t
                THEN ended ELSE ended \cup {t}
    /\ UNCHANGED <<vars, now, sessions, signIns, sweeping, reissued>>

\* A mistaken SweepCheck: a record goes one tick early.
SweepCheckEarly(t) ==
    /\ Serving
    /\ sweeping = NoToken
    /\ t \in revoked \/ now + 1 >= t.iat + TTL
    /\ sweeping' = t
    /\ UNCHANGED <<vars, now, sessions, revoked, signIns, reissued, ended>>

\* sweepSessions looks at a record and finds it stale ...
SweepCheck(t) ==
    /\ Serving
    /\ sweeping = NoToken
    /\ t \in revoked \/ ~Fresh(t)
    /\ sweeping' = t
    /\ UNCHANGED <<vars, now, sessions, revoked, signIns, reissued, ended>>

\* ... and deletes whatever is stored under its key by then.
SweepDelete ==
    /\ Serving
    /\ sweeping # NoToken
    /\ sessions' = sessions \ {sweeping}
    /\ revoked' = revoked \ {sweeping}
    /\ sweeping' = NoToken
    /\ UNCHANGED <<vars, now, signIns, reissued, ended>>

Tick ==
    /\ now < MaxTime
    /\ now' = now + 1
    /\ UNCHANGED <<vars, sessions, revoked, signIns, sweeping, reissued, ended>>

\* With the process go its requests, its records and its signing key.
ProcessEnds ==
    /\ Crash \/ StartupSaveFails
    /\ sessions' = {}
    /\ revoked' = {}
    /\ signIns' = [c \in Clients |-> NoSignIn]
    /\ sweeping' = NoToken
    /\ reissued' = {}
    /\ ended' = {}
    /\ UNCHANGED now

-----------------------------------------------------------------------------
SessionInit ==
    /\ Init
    /\ now = 0
    /\ sessions = {}
    /\ revoked = {}
    /\ signIns = [c \in Clients |-> NoSignIn]
    /\ sweeping = NoToken
    /\ reissued = {}
    /\ ended = {}

LoginStep ==
    \E c \in Clients :
        \/ \E u \in Users, pw \in Passwords : StartLogin(c, u, pw)
        \/ Verify(c)
        \/ UpgradeHash(c)
        \/ CreateSession(c)
        \/ NewSessionToken(c)
        \/ StoreSession(c)

\* The account's deletion or new version is published.
Disturbs(u) ==
    \/ UserExists(previous', u) # UserExists(previous, u)
    \/ previousVersions'[u] # previousVersions[u]

\* A sign-in whose account is disturbed after it was read.
Marked(s) ==
    IF \/ s.step = "read" /\ Disturbs(s.user)
       \/ s.step = "stamped" /\ Disturbs(s.token.user)
    THEN [s EXCEPT !.disturbed = TRUE]
    ELSE s

ConfigStep ==
    /\ \/ Operation
       \/ WriteSecret \/ Commit \/ Rollback
       \/ StartEmpty \/ StartImport \/ Ready
       \/ OperatorEdits
    /\ signIns' = [c \in Clients |-> Marked(signIns[c])]
    /\ UNCHANGED <<now, sessions, revoked, sweeping, reissued, ended>>

SessionStep ==
    \/ \E t \in sessions : Logout(t) \/ SweepCheck(t)
    \/ SweepDelete

SessionNext == LoginStep \/ SessionStep \/ ConfigStep \/ ProcessEnds \/ Tick

SessionSpec == SessionInit /\ [][SessionNext]_allVars

-----------------------------------------------------------------------------
SessionTypeOK ==
    /\ TypeOK
    /\ now \in 0..MaxTime
    /\ sessions \subseteq Token
    /\ revoked \subseteq sessions
    /\ signIns \in [Clients -> SignIn]
    /\ sweeping \in Token \cup {NoToken}
    /\ reissued \subseteq Token
    /\ ended \subseteq Token

\* A token that was logged out is never live again, unless another sign-in obtained the
\* same token in the same tick: the collision docs/DECISIONS.md accepts.  The record's
\* replacement and its sweep do not bring it back.
LoggedOutStaysOut == ended \cap (sessions \ revoked) = {}

\* The accounts and versions of the sessions there are and of those being made.
Held ==
    {<<t.user, t.version>> : t \in sessions}
    \cup {<<signIns[c].user, signIns[c].version>> : c \in {d \in Clients : signIns[d].step = "read"}}
    \cup {<<signIns[c].token.user, signIns[c].token.version>> :
              c \in {d \in Clients : signIns[d].step = "stamped"}}

\* A password change that is published ends every session its account has and every
\* session whose account was read and that is still being made, however logins, saves
\* and imports interleave.
PasswordChangeEndsLiveSessions ==
    [][\A h \in Held :
          /\ Honours(h[1], h[2])
          /\ Honours(h[1], h[2])'
          => previous.users[h[1]].password = previous'.users[h[1]].password]_allVars

\* A password upgrade prepared from an old hash never brings an old password
\* back, whatever happened between the check and the save.
UpgradeKeepsPassword ==
    [][\A c \in Clients, u \in Users :
          /\ UpgradeHash(c)
          /\ UserExists(config, u)
          => config'.users[u].password = config.users[u].password]_allVars

\* A token handed out is accepted when its record is stored, unless it expired or its
\* account was deleted or moved to another version since CreateSession read it:
\* verifying, reading, stamping and storing under four locks or none loses no sign-in.
NoStillbornSession ==
    [][\A c \in Clients, t \in sessions' :
          /\ StoreSession(c)
          /\ signIns[c].token = t
          /\ ~signIns[c].disturbed
          /\ Fresh(t)
          => Accepts(t)']_allVars

\* The sweeper ends no session a client could still use, save one issued again
\* in the tick of its logout.
SweepSparesLiveSessions ==
    [][\A t \in Token : SweepDelete /\ Accepts(t) /\ ~Accepts(t)' => t \in reissued]_allVars
=============================================================================
