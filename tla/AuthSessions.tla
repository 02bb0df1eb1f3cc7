---------------------------- MODULE AuthSessions ----------------------------
(***************************************************************************)
(* Password logins, sessions and refresh tokens of the merchant workforce, *)
(* one action per committed transaction of                                 *)
(*   data/mysql/auth.go            (AuthRepository) and                    *)
(*   data/mysql/user_lifecycle.go  (UserLifecycleRepository).              *)
(*                                                                         *)
(* A table is a function from primary key to row; a row that does not      *)
(* exist has status "ABSENT".  A transaction that is rejected, rolled back *)
(* or replayed from the idempotency ledger changes nothing and is a        *)
(* stuttering step.  How the statements of concurrent transactions         *)
(* interleave is the subject of AuthTransactions, which refines this       *)
(* module.                                                                 *)
(*                                                                         *)
(* An operator no action uses is its neighbour with a fault in it.         *)
(***************************************************************************)
EXTENDS Naturals, FiniteSets

CONSTANTS
    Subjects,       \* staff members: identity_subject with its one membership
    Secrets,        \* passwords, as what bcrypt can tell apart
    SessionIds,     \* supply of session ids (secureToken() at login)
    Tokens,         \* supply of refresh tokens, stored by hash
    Keys,           \* (command_name, idempotency_key) pairs of admin commands
    None,           \* no row, no parent, no secret
    RefreshTTL,     \* lifetime of a session and of a refresh token
    MaxTime,        \* bound on the clock
    MaxContext,     \* bound on context_version
    SelfUpdateAllowed
                    \* whether the server runs an UPDATE whose subquery reads the
                    \* updated table: MySQL refuses it with error 1093

ASSUME NoneAssumption ==
    None \notin Subjects \cup Secrets \cup SessionIds \cup Tokens
ASSUME BoundsAssumption ==
    RefreshTTL \in Nat \ {0} /\ MaxTime \in Nat /\ MaxContext \in Nat \ {0}
ASSUME ServerAssumption == SelfUpdateAllowed \in BOOLEAN

VARIABLES
    subject,        \* identity_subject: status, version
    member,         \* identity_workforce_member: status, access_version
    credential,     \* identity_credential (GLOBAL): secret, version
    grant,          \* access_version of the ACTIVE role grants, 0 when none
    revision,       \* identity_authorization_domain.revision of the merchant
    session,        \* identity_session
    token,          \* identity_refresh_token
    ledger,         \* identity_idempotency: keys of completed commands
    now,            \* the database clock
    proved,         \* history: secret the holder of a session last proved
    parent,         \* history: token a rotation consumed to issue this one
    reused          \* history: USED tokens that were presented again

accountVars == <<subject, member, credential, grant, revision>>
tableVars   == <<session, token>>
ghostVars   == <<proved, parent, reused>>
vars == <<subject, member, credential, grant, revision, session, token,
          ledger, now, proved, parent, reused>>

Subject    == [status : {"ACTIVE", "DISABLED"}, version : Nat]
Member     == [status : {"ACTIVE", "SUSPENDED"}, version : Nat]
Credential == [secret : Secrets, version : Nat]
Session    == [status : {"ABSENT", "ACTIVE", "REVOKED"},
               subject : Subjects \cup {None}, context : Nat, expires : Nat]
Token      == [status : {"ABSENT", "ACTIVE", "USED", "REVOKED"},
               session : SessionIds \cup {None}, expires : Nat]

NoSession == [status |-> "ABSENT", subject |-> None, context |-> 0, expires |-> 0]
NoToken   == [status |-> "ABSENT", session |-> None, expires |-> 0]

Init ==
    /\ subject = [s \in Subjects |-> [status |-> "ACTIVE", version |-> 1]]
    /\ member  = [s \in Subjects |-> [status |-> "ACTIVE", version |-> 1]]
    /\ credential \in [Subjects -> [secret : Secrets, version : {1}]]
    /\ grant \in [Subjects -> {0, 1}]
    /\ revision = 1
    /\ session = [x \in SessionIds |-> NoSession]
    /\ token   = [t \in Tokens |-> NoToken]
    /\ ledger = {}
    /\ now = 0
    /\ proved = [x \in SessionIds |-> None]
    /\ parent = [t \in Tokens |-> None]
    /\ reused = {}

-----------------------------------------------------------------------------
(* Helpers                                                                 *)

Usable(s) == subject[s].status = "ACTIVE" /\ member[s].status = "ACTIVE"

\* The sessions of a subject, whatever their status.
SessionsOf(s) == {x \in SessionIds : session[x].subject = s}

EndSessions(X, final) ==
    session' = [x \in SessionIds |-> IF x \in X /\ session[x].status = "ACTIVE"
                                     THEN [session[x] EXCEPT !.status = final]
                                     ELSE session[x]]
EndTokens(X, from) ==
    token' = [t \in Tokens |-> IF token[t].session \in X /\ token[t].status \in from
                               THEN [token[t] EXCEPT !.status = "REVOKED"]
                               ELSE token[t]]

\* revokeSession, revokeAllSubjectSessions, revokeOtherSubjectSessions: the
\* ACTIVE sessions of X and the ACTIVE refresh tokens that hang off X.
RevokeWithoutTokens(X) == EndSessions(X, "REVOKED") /\ UNCHANGED token
RevokeUsedTokensToo(X) == EndSessions(X, "REVOKED") /\ EndTokens(X, {"ACTIVE", "USED"})
RevokeToExpired(X)     == EndSessions(X, "EXPIRED") /\ EndTokens(X, {"ACTIVE"})
Revoke(X)              == EndSessions(X, "REVOKED") /\ EndTokens(X, {"ACTIVE"})

RevokeAllLater(s) == UNCHANGED tableVars
RevokeAll(s)      == Revoke(SessionsOf(s))

\* reserveIdempotency: only the first committed use of a key does any work.
Reserve(k) == k \notin ledger /\ ledger' = ledger \cup {k}

-----------------------------------------------------------------------------
(* Authentication (auth.go)                                                *)

\* The row checks of Login, on rows locked FOR UPDATE.
AcceptSecretOnly(s, p) == credential[s].secret = p
Accept(s, p)           == Usable(s) /\ credential[s].secret = p

\* Login with username and password: the credential, subject and member rows
\* are locked and checked, a session with a fresh id and family and its first
\* refresh token are inserted.  The shop that selectMandatoryShop picks is
\* abstracted: it can only refuse the login.
Login(s, p, x, t) ==
    /\ session[x].status = "ABSENT" /\ token[t].status = "ABSENT"
    /\ Accept(s, p)
    /\ session' = [session EXCEPT ![x] =
           [status |-> "ACTIVE", subject |-> s, context |-> 1, expires |-> now + RefreshTTL]]
    /\ token' = [token EXCEPT ![t] =
           [status |-> "ACTIVE", session |-> x, expires |-> now + RefreshTTL]]
    /\ proved' = [proved EXCEPT ![x] = p]
    /\ UNCHANGED <<accountVars, ledger, now, parent, reused>>

Renewable(t) == token[t].expires > now /\ session[token[t].session].expires > now

Successor(t) == [status |-> "ACTIVE", session |-> token[t].session, expires |-> now + RefreshTTL]
IssueOnly(t, u)  == token' = [token EXCEPT ![u] = Successor(t)]
Exchange(t, u)   == token' = [token EXCEPT ![t].status = "USED", ![u] = Successor(t)]

\* RotateRefresh of an ACTIVE token: the token becomes USED, its successor is
\* inserted and the session's expiry moves.
RotateRefresh(t, u) ==
    LET x == token[t].session IN
    /\ token[t].status = "ACTIVE" /\ token[u].status = "ABSENT"
    /\ session[x].status = "ACTIVE"
    /\ Renewable(t)
    /\ Exchange(t, u)
    /\ session' = [session EXCEPT ![x].expires = now + RefreshTTL]
    /\ parent' = [parent EXCEPT ![u] = t]
    /\ UNCHANGED <<accountVars, ledger, now, proved, reused>>

Replay(t) == token[t].status = "USED"

EndFamilyRolledBack(t) == UNCHANGED tableVars
EndFamily(t) == IF SelfUpdateAllowed THEN Revoke({token[t].session})
                                     ELSE UNCHANGED tableVars

\* RotateRefresh of a USED token: the family is revoked and the transaction
\* commits before the caller is told the token is invalid.  A family is the
\* one session that its login created.  The first UPDATE finds the family with
\* a subquery on identity_session, the table it updates; a server that refuses
\* it makes the work function return the error and the transaction roll back.
ReuseDetected(t) ==
    /\ Replay(t)
    /\ EndFamily(t)
    /\ reused' = reused \cup {t}
    /\ UNCHANGED <<accountVars, ledger, now, proved, parent>>

\* Logout: any known refresh token, whatever its status, ends its session.
Logout(t) ==
    /\ token[t].status # "ABSENT"
    /\ Revoke({token[t].session})
    /\ UNCHANGED <<accountVars, ledger, now, ghostVars>>

\* SwitchContext: compare-and-set on the session's context_version.  Which
\* organization, merchant and shop are selected is abstracted.
SwitchContext(x, expected) ==
    /\ session[x].status = "ACTIVE" /\ session[x].expires > now
    /\ session[x].context = expected
    /\ Usable(session[x].subject)
    /\ expected < MaxContext
    /\ session' = [session EXCEPT ![x].context = expected + 1]
    /\ UNCHANGED <<accountVars, token, ledger, now, ghostVars>>

-----------------------------------------------------------------------------
(* User lifecycle (user_lifecycle.go), merchant scope                      *)

MemberTarget(target) == IF target = "ACTIVE" THEN "ACTIVE" ELSE "SUSPENDED"

\* The ACTIVE grants written for access version v are carried over to the next
\* one; when there were any, the revision of the authorization domain moves.
LoseGrants(s, v) == UNCHANGED <<grant, revision>>
CarryGrants(s, v) ==
    IF grant[s] = v
    THEN grant' = [grant EXCEPT ![s] = v + 1] /\ revision' = revision + 1
    ELSE UNCHANGED <<grant, revision>>

\* ChangeUserStatus: subject and member flip together, grants follow the new
\* access version, the domain revision moves when a grant did, and disabling
\* revokes every session.  A target equal to the current status only completes
\* the command.
ChangeUserStatus(k, s, target, identityVersion, accessVersion) ==
    /\ Reserve(k)
    /\ subject[s].version = identityVersion /\ member[s].version = accessVersion
    /\ IF subject[s].status = target
       THEN UNCHANGED <<accountVars, tableVars>>
       ELSE /\ subject' = [subject EXCEPT
                   ![s] = [status |-> target, version |-> identityVersion + 1]]
            /\ member' = [member EXCEPT
                   ![s] = [status |-> MemberTarget(target), version |-> accessVersion + 1]]
            /\ CarryGrants(s, accessVersion)
            /\ IF target = "DISABLED" THEN RevokeAll(s) ELSE UNCHANGED tableVars
            /\ UNCHANGED credential
    /\ UNCHANGED <<now, ghostVars>>

\* ResetCredential: an administrator sets the password and every session ends.
ResetCredential(k, s, p, credentialVersion) ==
    /\ Reserve(k)
    /\ credential[s].version = credentialVersion
    /\ credential' = [credential EXCEPT ![s] = [secret |-> p, version |-> credentialVersion + 1]]
    /\ RevokeAll(s)
    /\ UNCHANGED <<subject, member, grant, revision, now, ghostVars>>

\* ChangeOwnCredential: the holder of session x proves the old password; every
\* other session ends.  x may have been revoked in the meantime.
ChangeOwnCredential(k, x, old, new, credentialVersion) ==
    LET s == session[x].subject IN
    /\ Reserve(k)
    /\ session[x].status # "ABSENT"
    /\ old # new
    /\ Usable(s)
    /\ credential[s] = [secret |-> old, version |-> credentialVersion]
    /\ credential' = [credential EXCEPT ![s] = [secret |-> new, version |-> credentialVersion + 1]]
    /\ Revoke(SessionsOf(s) \ {x})
    /\ proved' = [proved EXCEPT ![x] = new]
    /\ UNCHANGED <<subject, member, grant, revision, now, parent, reused>>

\* revokeSessions, for an administrator or for the subject itself: one session
\* of the subject, or all of them when none is named.
RevokeSessions(k, s, X) ==
    /\ Reserve(k)
    /\ X = SessionsOf(s) \/ \E x \in SessionsOf(s) : X = {x}
    /\ Revoke(X)
    /\ UNCHANGED <<accountVars, now, ghostVars>>

Tick ==
    /\ now < MaxTime
    /\ now' = now + 1
    /\ UNCHANGED <<accountVars, tableVars, ledger, ghostVars>>

-----------------------------------------------------------------------------
Next ==
    \/ \E s \in Subjects, p \in Secrets, x \in SessionIds, t \in Tokens : Login(s, p, x, t)
    \/ \E t \in Tokens, u \in Tokens : RotateRefresh(t, u)
    \/ \E t \in Tokens : ReuseDetected(t)
    \/ \E t \in Tokens : Logout(t)
    \/ \E x \in SessionIds, v \in 1..MaxContext : SwitchContext(x, v)
    \/ \E k \in Keys, s \in Subjects, target \in {"ACTIVE", "DISABLED"} :
           ChangeUserStatus(k, s, target, subject[s].version, member[s].version)
    \/ \E k \in Keys, s \in Subjects, p \in Secrets :
           ResetCredential(k, s, p, credential[s].version)
    \/ \E k \in Keys, x \in SessionIds, old \in Secrets, new \in Secrets :
           /\ session[x].status # "ABSENT"
           /\ ChangeOwnCredential(k, x, old, new, credential[session[x].subject].version)
    \/ \E k \in Keys, s \in Subjects : RevokeSessions(k, s, SessionsOf(s))
    \/ \E k \in Keys, x \in SessionIds :
           /\ session[x].status # "ABSENT"
           /\ RevokeSessions(k, session[x].subject, {x})
    \/ Tick

Spec == Init /\ [][Next]_vars
-----------------------------------------------------------------------------
(* Correctness                                                             *)

\* Every table row is well formed.
TypeOK ==
    /\ subject \in [Subjects -> Subject]
    /\ member \in [Subjects -> Member]
    /\ credential \in [Subjects -> Credential]
    /\ grant \in [Subjects -> Nat]
    /\ revision \in Nat
    /\ session \in [SessionIds -> Session]
    /\ token \in [Tokens -> Token]
    /\ ledger \subseteq Keys
    /\ now \in Nat
    /\ proved \in [SessionIds -> Secrets \cup {None}]
    /\ parent \in [Tokens -> Tokens \cup {None}]
    /\ reused \subseteq Tokens

\* Foreign keys and history: an issued token points to a session that exists, a
\* session to a subject, and only issued tokens have a parent or were reused.
ReferencesHold ==
    /\ \A x \in SessionIds : session[x].status # "ABSENT" => session[x].subject \in Subjects
    /\ \A t \in Tokens :
           IF token[t].status = "ABSENT"
           THEN token[t].session = None /\ parent[t] = None
           ELSE token[t].session \in SessionIds /\ session[token[t].session].status # "ABSENT"
    /\ \A t \in reused : token[t].status = "USED"

Live(x) == session[x].status = "ACTIVE"
LiveTokens(x) == {t \in Tokens : token[t].session = x /\ token[t].status = "ACTIVE"}

\* A session that is alive has exactly one refresh token that can renew it, and
\* a session that has ended has none: whatever mix of rotations, logouts and
\* revocations got it there, no statement forgot a token or left two.
OneLiveTokenPerLiveSession ==
    \A x \in SessionIds :
        IF Live(x) THEN \E t \in Tokens : LiveTokens(x) = {t} ELSE LiveTokens(x) = {}

\* ID-INV-9, first half: a refresh token is rotated at most once, so the tokens
\* of a session form a chain in which only the last one is not USED.
RotatedAtMostOnce ==
    /\ \A t, u \in Tokens : parent[t] = parent[u] /\ parent[t] # None => t = u
    /\ \A t \in Tokens : parent[t] # None =>
           /\ token[parent[t]].status = "USED"
           /\ token[parent[t]].session = token[t].session

\* ID-INV-9, second half: once a USED token has been presented again, the
\* session it belonged to never comes back, whoever holds its newest token.
\* It depends on a server that runs the revoking UPDATE.
ReuseEndsTheFamily ==
    \A t \in reused : ~Live(token[t].session)

\* ID-INV-10 and ID-INV-23: a disabled account has no live session, including
\* one whose login raced the disabling.
DisabledIsLoggedOut ==
    \A x \in SessionIds : Live(x) => Usable(session[x].subject)

\* The account state machine: subject and membership are always in the same
\* one of the two states ACTIVE/ACTIVE and DISABLED/SUSPENDED.
SubjectAndMemberAgree ==
    \A s \in Subjects : subject[s].status = "ACTIVE" <=> member[s].status = "ACTIVE"

\* A live session belongs to somebody who proved the password that is in force
\* now: a reset ends all sessions, a change of one's own password all others.
LiveSessionsKnowThePassword ==
    \A x \in SessionIds : Live(x) => proved[x] = credential[session[x].subject].secret

\* Disabling and enabling an account does not lose its roles: the grants always
\* carry the access version that effective() compares them with.
GrantsFollowTheMember ==
    \A s \in Subjects : grant[s] # 0 => grant[s] = member[s].version

\* What no step may undo: a revoked session stays revoked, a token that is no
\* longer ACTIVE never becomes ACTIVE again, and neither moves to another owner.
EndedIsFinalStep ==
    /\ \A x \in SessionIds : session[x].status = "REVOKED" => session'[x].status = "REVOKED"
    /\ \A t \in Tokens : token[t].status \in {"USED", "REVOKED"} =>
           token'[t].status = token[t].status
    /\ \A x \in SessionIds : session[x].status # "ABSENT" =>
           session'[x].subject = session[x].subject
    /\ \A t \in Tokens : token[t].status # "ABSENT" => token'[t].session = token[t].session
EndedIsFinal == [][EndedIsFinalStep]_vars
=============================================================================
