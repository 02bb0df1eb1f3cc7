------------------------ MODULE AuthSessions_proofs ------------------------
(***************************************************************************)
(* Proofs about AuthSessions for any number of subjects, sessions, tokens  *)
(* and commands: type correctness, the inductive invariant IInv and from   *)
(* it the safety properties that MCAuthSessions checks on a small          *)
(* instance.                                                               *)
(***************************************************************************)
EXTENDS AuthSessions, TLAPS

(***************************************************************************)
(* The two UPDATE statements of a revocation.                              *)
(***************************************************************************)

\* revokeSession and its siblings leave every row well formed, change no
\* owner, and end exactly the live sessions and live tokens of X.
LEMMA RevokeEffect ==
    ASSUME TypeOK, NEW X, Revoke(X)
    PROVE  /\ session' \in [SessionIds -> Session]
           /\ token' \in [Tokens -> Token]
           /\ \A x \in SessionIds :
                 /\ session'[x].subject = session[x].subject
                 /\ session'[x].expires = session[x].expires
                 /\ session'[x].status = IF x \in X /\ session[x].status = "ACTIVE"
                                         THEN "REVOKED" ELSE session[x].status
           /\ \A t \in Tokens :
                 /\ token'[t].session = token[t].session
                 /\ token'[t].status = IF token[t].session \in X /\ token[t].status = "ACTIVE"
                                       THEN "REVOKED" ELSE token[t].status
  BY DEF TypeOK, Revoke, EndSessions, EndTokens, Session, Token

(***************************************************************************)
(* Type correctness.                                                       *)
(***************************************************************************)

LEMMA TypeInit == Init => TypeOK
  BY NoneAssumption, BoundsAssumption
     DEF Init, TypeOK, Subject, Member, Credential, Session, Token, NoSession, NoToken

LEMMA TypeStep == TypeOK /\ [Next]_vars => TypeOK'
<1> SUFFICES ASSUME TypeOK, [Next]_vars PROVE TypeOK'
  OBVIOUS
<1> USE BoundsAssumption DEF TypeOK, ghostVars, tableVars, accountVars,
     Exchange, Successor, EndFamily, RevokeAll, CarryGrants, MemberTarget
<1>1. ASSUME NEW s \in Subjects, NEW p \in Secrets, NEW x \in SessionIds, NEW t \in Tokens,
             Login(s, p, x, t)
      PROVE  TypeOK'
  BY <1>1 DEF Login, Session, Token
<1>2. ASSUME NEW t \in Tokens, NEW u \in Tokens, RotateRefresh(t, u)
      PROVE  TypeOK'
  <2>1. token[t].session \in SessionIds \cup {None}
    BY DEF Token
  <2>2. CASE token[t].session \in SessionIds
    <3>1. now + RefreshTTL \in Nat
      OBVIOUS
    <3>2. session' = [session EXCEPT ![token[t].session].expires = now + RefreshTTL]
      BY <1>2 DEF RotateRefresh
    <3>3. session' \in [SessionIds -> Session]
      BY <2>2, <3>1, <3>2 DEF Session
    <3>4. token' \in [Tokens -> Token]
      BY <1>2, <2>2 DEF RotateRefresh, Token
    <3>5. QED
      BY <1>2, <3>3, <3>4 DEF RotateRefresh
  <2>3. CASE token[t].session \notin SessionIds
    <3>1. session' = session
      BY <1>2, <2>3 DEF RotateRefresh
    <3>2. token' \in [Tokens -> Token]
      BY <1>2, <2>1, <2>3 DEF RotateRefresh, Token
    <3>3. QED
      BY <1>2, <3>1, <3>2 DEF RotateRefresh
  <2>4. QED
    BY <2>2, <2>3
<1>3. ASSUME NEW t \in Tokens, ReuseDetected(t)
      PROVE  TypeOK'
  <2>1. \/ Revoke({token[t].session})
        \/ session' = session /\ token' = token
    BY <1>3 DEF ReuseDetected
  <2>2. QED
    BY <1>3, <2>1, RevokeEffect DEF ReuseDetected
<1>4. ASSUME NEW t \in Tokens, Logout(t)
      PROVE  TypeOK'
  BY <1>4, RevokeEffect DEF Logout
<1>5. ASSUME NEW x \in SessionIds, NEW v \in 1..MaxContext, SwitchContext(x, v)
      PROVE  TypeOK'
  BY <1>5 DEF SwitchContext, Session
<1>6. ASSUME NEW k \in Keys, NEW s \in Subjects, NEW target \in {"ACTIVE", "DISABLED"},
             ChangeUserStatus(k, s, target, subject[s].version, member[s].version)
      PROVE  TypeOK'
  <2>1. CASE subject[s].status = target
    BY <1>6, <2>1 DEF ChangeUserStatus, Reserve
  <2>2. CASE subject[s].status # target
    <3>1. session' \in [SessionIds -> Session] /\ token' \in [Tokens -> Token]
      BY <1>6, <2>2, RevokeEffect DEF ChangeUserStatus
    <3> DEFINE sv == subject[s].version
               mv == member[s].version
    <3>2. sv \in Nat /\ mv \in Nat
      BY DEF Subject, Member
    <3>3. subject' = [subject EXCEPT ![s] = [status |-> target, version |-> sv + 1]]
      BY <1>6, <2>2 DEF ChangeUserStatus
    <3>4. subject' \in [Subjects -> Subject]
      BY <3>2, <3>3 DEF Subject
    <3>5. PICK st \in {"ACTIVE", "SUSPENDED"} :
             member' = [member EXCEPT ![s] = [status |-> st, version |-> mv + 1]]
      BY <1>6, <2>2 DEF ChangeUserStatus
    <3>6. member' \in [Subjects -> Member]
      BY <3>2, <3>5 DEF Member
    <3>7. \/ grant' = [grant EXCEPT ![s] = mv + 1] /\ revision' = revision + 1
          \/ grant' = grant /\ revision' = revision
      BY <1>6, <2>2 DEF ChangeUserStatus
    <3>8. grant' \in [Subjects -> Nat] /\ revision' \in Nat
      BY <3>2, <3>7
    <3>9. QED
      BY <1>6, <2>2, <3>1, <3>4, <3>6, <3>8 DEF ChangeUserStatus, Reserve
  <2>3. QED
    BY <2>1, <2>2
<1>7. ASSUME NEW k \in Keys, NEW s \in Subjects, NEW p \in Secrets,
             ResetCredential(k, s, p, credential[s].version)
      PROVE  TypeOK'
  <2>1. credential' \in [Subjects -> Credential]
    BY <1>7 DEF ResetCredential, Credential
  <2>2. QED
    BY <1>7, <2>1, RevokeEffect DEF ResetCredential, Reserve
<1>8. ASSUME NEW k \in Keys, NEW x \in SessionIds, NEW old \in Secrets, NEW new \in Secrets,
             ChangeOwnCredential(k, x, old, new, credential[session[x].subject].version)
      PROVE  TypeOK'
  <2> DEFINE s == session[x].subject
  <2>2. credential' = [credential EXCEPT
                         ![s] = [secret |-> new, version |-> credential[s].version + 1]]
    BY <1>8 DEF ChangeOwnCredential
  <2>3. credential' \in [Subjects -> Credential]
    <3>1. CASE s \in Subjects
      BY <2>2, <3>1 DEF Credential
    <3>2. CASE s \notin Subjects
      BY <2>2, <3>2
    <3>3. QED
      BY <3>1, <3>2
  <2>4. QED
    BY <1>8, <2>3, RevokeEffect DEF ChangeOwnCredential, Reserve
<1>9. ASSUME NEW k \in Keys, NEW s, NEW X, RevokeSessions(k, s, X)
      PROVE  TypeOK'
  BY <1>9, RevokeEffect DEF RevokeSessions, Reserve
<1>10. CASE Tick
  BY <1>10 DEF Tick
<1>11. CASE UNCHANGED vars
  BY <1>11 DEF vars
<1>12. CASE Next
  BY ONLY <1>12, <1>1, <1>2, <1>3, <1>4, <1>5, <1>6, <1>7, <1>8, <1>9, <1>10 DEF Next
<1>13. QED
  BY <1>11, <1>12

\* Every reachable database has well-formed rows.
THEOREM TypeCorrect == Spec => []TypeOK
  BY TypeInit, TypeStep, PTL DEF Spec

(***************************************************************************)
(* The inductive invariant.  The properties are not inductive one by one:  *)
(* that a rotation leaves one live token needs the session it belongs to,  *)
(* that a login does not revive a reused family needs the foreign keys,    *)
(* and that a live session knows the password needs its subject.           *)
(***************************************************************************)
IInv ==
    /\ TypeOK
    /\ ReferencesHold
    /\ OneLiveTokenPerLiveSession
    /\ RotatedAtMostOnce
    /\ SelfUpdateAllowed => ReuseEndsTheFamily
    /\ DisabledIsLoggedOut
    /\ SubjectAndMemberAgree
    /\ LiveSessionsKnowThePassword
    /\ GrantsFollowTheMember

LEMMA InvInit == Init => IInv
<1> SUFFICES ASSUME Init PROVE IInv
  OBVIOUS
<1>1. TypeOK
  BY TypeInit
<1>2. \A t \in Tokens : token[t] = NoToken /\ parent[t] = None
  BY DEF Init
<1>3. \A x \in SessionIds : session[x] = NoSession
  BY DEF Init
<1>4. ReferencesHold /\ RotatedAtMostOnce /\ ReuseEndsTheFamily
  BY <1>2, <1>3 DEF Init, ReferencesHold, RotatedAtMostOnce, ReuseEndsTheFamily,
                    NoToken, NoSession
<1>5. OneLiveTokenPerLiveSession /\ DisabledIsLoggedOut /\ LiveSessionsKnowThePassword
  BY <1>2, <1>3 DEF OneLiveTokenPerLiveSession, DisabledIsLoggedOut,
                    LiveSessionsKnowThePassword, Live, LiveTokens, NoToken, NoSession
<1>6. SubjectAndMemberAgree /\ GrantsFollowTheMember
  BY DEF Init, SubjectAndMemberAgree, GrantsFollowTheMember
<1>7. QED
  BY <1>1, <1>4, <1>5, <1>6 DEF IInv

\* A revocation of X in which only issued USED tokens become reused keeps the
\* tables consistent, and the sessions still alive are those alive outside X.
LEMMA RevokeKeeps ==
    ASSUME TypeOK, ReferencesHold, OneLiveTokenPerLiveSession, RotatedAtMostOnce,
           NEW X, Revoke(X), parent' = parent,
           \A t \in reused' : t \in Tokens /\ token[t].status = "USED"
    PROVE  /\ ReferencesHold'
           /\ OneLiveTokenPerLiveSession'
           /\ RotatedAtMostOnce'
           /\ \A x \in SessionIds : Live(x)' <=> Live(x) /\ x \notin X
<1>1. \A x \in SessionIds : Live(x)' <=> Live(x) /\ x \notin X
  BY RevokeEffect DEF Live
<1>2. \A t \in Tokens : token[t].status \in {"ABSENT", "ACTIVE", "USED", "REVOKED"}
  BY DEF TypeOK, Token
<1>3. ReferencesHold'
  BY <1>2, RevokeEffect DEF ReferencesHold
<1>4. RotatedAtMostOnce'
  BY <1>2, RevokeEffect DEF RotatedAtMostOnce, TypeOK
<1>5. ASSUME NEW x \in SessionIds
      PROVE  LiveTokens(x)' = IF x \in X THEN {} ELSE LiveTokens(x)
  BY RevokeEffect DEF LiveTokens
<1>6. OneLiveTokenPerLiveSession'
  BY <1>1, <1>5 DEF OneLiveTokenPerLiveSession
<1>7. QED
  BY <1>1, <1>3, <1>4, <1>6

LEMMA InvStep == IInv /\ [Next]_vars => IInv'
<1> SUFFICES ASSUME IInv, [Next]_vars PROVE IInv'
  OBVIOUS
<1>0. TypeOK'
  BY TypeStep DEF IInv
<1>1. ASSUME NEW s \in Subjects, NEW p \in Secrets, NEW x \in SessionIds, NEW t \in Tokens,
             Login(s, p, x, t)
      PROVE  IInv'
  <2> USE <1>1 DEF Login, Accept, IInv, accountVars
  <2>1. /\ \A y \in SessionIds \ {x} : session'[y] = session[y]
        /\ session'[x].status = "ACTIVE" /\ session'[x].subject = s
        /\ \A u \in Tokens \ {t} : token'[u] = token[u]
        /\ token'[t].status = "ACTIVE" /\ token'[t].session = x
    BY DEF TypeOK
  <2>2. ReferencesHold'
    BY <2>1 DEF ReferencesHold, TypeOK
  <2>3. OneLiveTokenPerLiveSession'
    <3>1. LiveTokens(x) = {}
      BY DEF OneLiveTokenPerLiveSession, Live
    <3>2. LiveTokens(x)' = {t}
      BY <2>1, <3>1 DEF LiveTokens
    <3>3. \A y \in SessionIds \ {x} : LiveTokens(y)' = LiveTokens(y) /\ (Live(y)' <=> Live(y))
      BY <2>1 DEF LiveTokens, Live
    <3>4. QED
      BY <2>1, <3>2, <3>3 DEF OneLiveTokenPerLiveSession, Live
  <2>4. RotatedAtMostOnce'
    BY <2>1 DEF RotatedAtMostOnce, ReferencesHold, TypeOK
  <2>5. SelfUpdateAllowed => ReuseEndsTheFamily'
    BY <2>1 DEF ReuseEndsTheFamily, ReferencesHold, TypeOK, Live
  <2>6. DisabledIsLoggedOut'
    BY <2>1 DEF DisabledIsLoggedOut, Usable, Live
  <2>7. LiveSessionsKnowThePassword'
    BY <2>1 DEF LiveSessionsKnowThePassword, Live, TypeOK
  <2>8. QED
    BY <1>0, <2>2, <2>3, <2>4, <2>5, <2>6, <2>7 DEF SubjectAndMemberAgree, GrantsFollowTheMember
<1>2. ASSUME NEW t \in Tokens, NEW u \in Tokens, RotateRefresh(t, u)
      PROVE  IInv'
  <2> USE <1>2 DEF RotateRefresh, Exchange, Successor, IInv, accountVars
  <2>1. PICK x \in SessionIds : x = token[t].session /\ session[x].status = "ACTIVE" /\ t # u
    BY DEF ReferencesHold
  <2>2. /\ \A y \in SessionIds : /\ session'[y].status = session[y].status
                                /\ session'[y].subject = session[y].subject
        /\ \A v \in Tokens \ {t, u} : token'[v] = token[v]
        /\ token'[t].status = "USED" /\ token'[t].session = x
        /\ token'[u].status = "ACTIVE" /\ token'[u].session = x
    BY <2>1 DEF TypeOK, Session, Token
  <2>3. ReferencesHold'
    BY <2>1, <2>2 DEF ReferencesHold, TypeOK
  <2>4. OneLiveTokenPerLiveSession'
    <3>1. LiveTokens(x) = {t}
      BY <2>1 DEF OneLiveTokenPerLiveSession, Live, LiveTokens
    <3>2. ASSUME NEW v \in Tokens
          PROVE  token'[v].session = x /\ token'[v].status = "ACTIVE" <=> v = u
      <4>1. CASE v \in {t, u}
        BY ONLY <2>2, <4>1
      <4>2. CASE v \notin {t, u}
        <5>1. v \notin LiveTokens(x)
          BY ONLY <3>1, <4>2
        <5>2. QED
          BY ONLY <2>2, <4>2, <5>1 DEF LiveTokens
      <4>3. QED
        BY <4>1, <4>2
    <3>3. LiveTokens(x)' = {u}
      BY ONLY <3>2 DEF LiveTokens
    <3>4. token[u].session = None
      BY DEF ReferencesHold
    <3>5. ASSUME NEW y \in SessionIds \ {x}, NEW v \in Tokens
          PROVE  /\ token'[v].session = y /\ token'[v].status = "ACTIVE"
                       <=> token[v].session = y /\ token[v].status = "ACTIVE"
      BY <2>1, <2>2, <3>4, NoneAssumption
    <3>6. \A y \in SessionIds \ {x} : LiveTokens(y)' = LiveTokens(y)
      BY ONLY <3>5 DEF LiveTokens
    <3>7. QED
      BY <2>1, <2>2, <3>3, <3>6 DEF OneLiveTokenPerLiveSession, Live
  <2>5. RotatedAtMostOnce'
    BY <2>1, <2>2 DEF RotatedAtMostOnce, ReferencesHold, TypeOK
  <2>6. SelfUpdateAllowed => ReuseEndsTheFamily'
    BY <2>1, <2>2 DEF ReuseEndsTheFamily, ReferencesHold, TypeOK, Live
  <2>7. DisabledIsLoggedOut' /\ LiveSessionsKnowThePassword'
    BY <2>2 DEF DisabledIsLoggedOut, LiveSessionsKnowThePassword, Usable, Live
  <2>8. QED
    BY <1>0, <2>3, <2>4, <2>5, <2>6, <2>7 DEF SubjectAndMemberAgree, GrantsFollowTheMember
<1>3. ASSUME NEW t \in Tokens, ReuseDetected(t)
      PROVE  IInv'
  <2> USE <1>3 DEF ReuseDetected, Replay, EndFamily, IInv, accountVars
  <2> DEFINE X == IF SelfUpdateAllowed THEN {token[t].session} ELSE {}
  <2>1. \A u \in reused' : u \in Tokens /\ token[u].status = "USED"
    BY DEF ReferencesHold, TypeOK
  <2>2. Revoke(X)
    BY DEF Revoke, EndSessions, EndTokens, tableVars, TypeOK
  <2>3. /\ ReferencesHold' /\ OneLiveTokenPerLiveSession' /\ RotatedAtMostOnce'
        /\ \A x \in SessionIds : Live(x)' <=> Live(x) /\ x \notin X
    BY <2>1, <2>2, RevokeKeeps
  <2>4. SelfUpdateAllowed => ReuseEndsTheFamily'
    BY <2>1, <2>2, <2>3, RevokeEffect DEF ReuseEndsTheFamily, ReferencesHold
  <2>5. DisabledIsLoggedOut' /\ LiveSessionsKnowThePassword'
    BY <2>2, <2>3, RevokeEffect DEF DisabledIsLoggedOut, LiveSessionsKnowThePassword, Usable
  <2>6. QED
    BY <1>0, <2>3, <2>4, <2>5 DEF SubjectAndMemberAgree, GrantsFollowTheMember
<1>4. ASSUME NEW X, Revoke(X), UNCHANGED <<accountVars, ghostVars>>
      PROVE  IInv'
  <2> USE <1>4 DEF IInv, accountVars, ghostVars
  <2>1. /\ ReferencesHold' /\ OneLiveTokenPerLiveSession' /\ RotatedAtMostOnce'
        /\ \A x \in SessionIds : Live(x)' <=> Live(x) /\ x \notin X
    BY RevokeKeeps DEF ReferencesHold, TypeOK
  <2>2. SelfUpdateAllowed => ReuseEndsTheFamily'
    BY <2>1, RevokeEffect DEF ReuseEndsTheFamily, ReferencesHold, TypeOK
  <2>3. DisabledIsLoggedOut' /\ LiveSessionsKnowThePassword'
    BY <2>1, RevokeEffect DEF DisabledIsLoggedOut, LiveSessionsKnowThePassword, Usable
  <2>4. QED
    BY <1>0, <2>1, <2>2, <2>3 DEF SubjectAndMemberAgree, GrantsFollowTheMember
<1>5. ASSUME NEW x \in SessionIds, NEW v \in 1..MaxContext, SwitchContext(x, v)
      PROVE  IInv'
  <2> USE <1>5 DEF SwitchContext, IInv, accountVars, ghostVars
  <2>1. \A y \in SessionIds : /\ session'[y].status = session[y].status
                             /\ session'[y].subject = session[y].subject
    BY DEF TypeOK, Session
  <2>2. ReferencesHold'
    BY <2>1 DEF ReferencesHold
  <2>3. OneLiveTokenPerLiveSession'
    BY <2>1 DEF OneLiveTokenPerLiveSession, LiveTokens, Live
  <2>4. SelfUpdateAllowed => ReuseEndsTheFamily'
    BY <2>1 DEF ReuseEndsTheFamily, Live, ReferencesHold, TypeOK
  <2>5. DisabledIsLoggedOut' /\ LiveSessionsKnowThePassword'
    BY <2>1 DEF DisabledIsLoggedOut, LiveSessionsKnowThePassword, Usable, Live
  <2>6. QED
    BY <1>0, <2>2, <2>3, <2>4, <2>5
       DEF RotatedAtMostOnce, SubjectAndMemberAgree, GrantsFollowTheMember
<1>6. ASSUME NEW k \in Keys, NEW s \in Subjects, NEW target \in {"ACTIVE", "DISABLED"},
             ChangeUserStatus(k, s, target, subject[s].version, member[s].version)
      PROVE  IInv'
  <2>1. CASE subject[s].status = target
    BY <1>0, <1>6, <2>1 DEF ChangeUserStatus, IInv, accountVars, tableVars, ghostVars,
       ReferencesHold, OneLiveTokenPerLiveSession, RotatedAtMostOnce, ReuseEndsTheFamily,
       DisabledIsLoggedOut, SubjectAndMemberAgree, LiveSessionsKnowThePassword,
       GrantsFollowTheMember, Usable, Live, LiveTokens
  <2>2. CASE subject[s].status # target
    <3> DEFINE X == IF target = "DISABLED" THEN SessionsOf(s) ELSE {}
    <3> USE DEF IInv, RevokeAll, CarryGrants, MemberTarget
    <3>1. /\ subject'[s].status = target
          /\ member'[s].status = IF target = "ACTIVE" THEN "ACTIVE" ELSE "SUSPENDED"
          /\ \A r \in Subjects \ {s} : subject'[r] = subject[r] /\ member'[r] = member[r]
          /\ UNCHANGED <<credential, proved, parent, reused>>
      BY <1>6, <2>2 DEF ChangeUserStatus, TypeOK, ghostVars
    <3>2. Revoke(X)
      BY <1>6, <2>2 DEF ChangeUserStatus, Revoke, EndSessions, EndTokens, tableVars, TypeOK
    <3>3. /\ ReferencesHold' /\ OneLiveTokenPerLiveSession' /\ RotatedAtMostOnce'
          /\ \A x \in SessionIds : Live(x)' <=> Live(x) /\ x \notin X
      BY <3>1, <3>2, RevokeKeeps DEF ReferencesHold, TypeOK
    <3>4. SelfUpdateAllowed => ReuseEndsTheFamily'
      BY <3>1, <3>2, <3>3, RevokeEffect DEF ReuseEndsTheFamily, ReferencesHold, TypeOK
    <3>5. LiveSessionsKnowThePassword'
      BY <3>1, <3>2, <3>3, RevokeEffect DEF LiveSessionsKnowThePassword
    <3>6. SubjectAndMemberAgree'
      BY <3>1 DEF SubjectAndMemberAgree
    <3>7. DisabledIsLoggedOut'
      <4>1. ASSUME NEW x \in SessionIds, Live(x)'
            PROVE  Usable(session[x].subject)'
        <5>1. Live(x) /\ x \notin X /\ session[x].subject \in Subjects
          BY <3>3, <4>1 DEF Live, ReferencesHold
        <5>2. session'[x].subject = session[x].subject
          BY <3>2, RevokeEffect
        <5>3. CASE session[x].subject = s
          BY <3>1, <5>1, <5>2, <5>3 DEF SessionsOf, Usable
        <5>4. CASE session[x].subject # s
          BY <3>1, <5>1, <5>2, <5>4 DEF DisabledIsLoggedOut, Usable
        <5>5. QED
          BY <5>3, <5>4
      <4>2. QED
        BY <4>1 DEF DisabledIsLoggedOut
    <3>8. GrantsFollowTheMember'
      BY <1>6, <2>2 DEF ChangeUserStatus, GrantsFollowTheMember, TypeOK, Member
    <3>9. QED
      BY <1>0, <3>3, <3>4, <3>5, <3>6, <3>7, <3>8
  <2>3. QED
    BY <2>1, <2>2
<1>7. ASSUME NEW k \in Keys, NEW s \in Subjects, NEW p \in Secrets,
             ResetCredential(k, s, p, credential[s].version)
      PROVE  IInv'
  <2> USE <1>7 DEF ResetCredential, RevokeAll, IInv, ghostVars
  <2>1. /\ ReferencesHold' /\ OneLiveTokenPerLiveSession' /\ RotatedAtMostOnce'
        /\ \A x \in SessionIds : Live(x)' <=> Live(x) /\ x \notin SessionsOf(s)
    BY RevokeKeeps DEF ReferencesHold, TypeOK
  <2>2. SelfUpdateAllowed => ReuseEndsTheFamily'
    BY <2>1, RevokeEffect DEF ReuseEndsTheFamily, ReferencesHold, TypeOK
  <2>3. DisabledIsLoggedOut'
    BY <2>1, RevokeEffect DEF DisabledIsLoggedOut, Usable
  <2>4. LiveSessionsKnowThePassword'
    <3>1. \A r \in Subjects \ {s} : credential'[r] = credential[r]
      BY DEF TypeOK
    <3>2. QED
      BY <2>1, <3>1, RevokeEffect
         DEF LiveSessionsKnowThePassword, ReferencesHold, SessionsOf, Live
  <2>5. QED
    BY <1>0, <2>1, <2>2, <2>3, <2>4 DEF SubjectAndMemberAgree, GrantsFollowTheMember
<1>8. ASSUME NEW k \in Keys, NEW x \in SessionIds, NEW old \in Secrets, NEW new \in Secrets,
             session[x].status # "ABSENT",
             ChangeOwnCredential(k, x, old, new, credential[session[x].subject].version)
      PROVE  IInv'
  <2> DEFINE s == session[x].subject
             X == SessionsOf(s) \ {x}
  <2> USE <1>8 DEF IInv
  <2>1. Revoke(X) /\ UNCHANGED <<subject, member, grant, parent, reused>>
    BY DEF ChangeOwnCredential
  <2>2. s \in Subjects
    BY DEF ReferencesHold
  <2>3. /\ credential'[s].secret = new /\ proved'[x] = new
        /\ \A r \in Subjects \ {s} : credential'[r] = credential[r]
        /\ \A y \in SessionIds \ {x} : proved'[y] = proved[y]
    BY <2>2 DEF ChangeOwnCredential, TypeOK
  <2>4. /\ ReferencesHold' /\ OneLiveTokenPerLiveSession' /\ RotatedAtMostOnce'
        /\ \A y \in SessionIds : Live(y)' <=> Live(y) /\ y \notin X
    BY <2>1, RevokeKeeps DEF ReferencesHold, TypeOK
  <2>5. SelfUpdateAllowed => ReuseEndsTheFamily'
    BY <2>1, <2>4, RevokeEffect DEF ReuseEndsTheFamily, ReferencesHold, TypeOK
  <2>6. DisabledIsLoggedOut'
    BY <2>1, <2>4, RevokeEffect DEF DisabledIsLoggedOut, Usable
  <2>7. LiveSessionsKnowThePassword'
    <3>1. ASSUME NEW y \in SessionIds, Live(y)'
          PROVE  proved'[y] = credential'[session'[y].subject].secret
      <4>1. session'[y].subject = session[y].subject
        BY <2>1, RevokeEffect
      <4>2. Live(y) /\ y \notin X /\ session[y].subject \in Subjects
        BY <2>4, <3>1 DEF Live, ReferencesHold
      <4>3. CASE y = x
        BY <2>3, <4>1, <4>3
      <4>4. CASE y # x
        BY <2>3, <4>1, <4>2, <4>4 DEF LiveSessionsKnowThePassword, SessionsOf
      <4>5. QED
        BY <4>3, <4>4
    <3>2. QED
      BY <3>1 DEF LiveSessionsKnowThePassword
  <2>8. QED
    BY <1>0, <2>1, <2>4, <2>5, <2>6, <2>7 DEF SubjectAndMemberAgree, GrantsFollowTheMember
<1>9. CASE Tick \/ UNCHANGED vars
  BY <1>0, <1>9 DEF Tick, vars, IInv, accountVars, tableVars, ghostVars,
     ReferencesHold, OneLiveTokenPerLiveSession, RotatedAtMostOnce, ReuseEndsTheFamily,
     DisabledIsLoggedOut, SubjectAndMemberAgree, LiveSessionsKnowThePassword,
     GrantsFollowTheMember, Usable, Live, LiveTokens
<1>10. ASSUME NEW t \in Tokens, Logout(t) PROVE IInv'
  BY <1>4, <1>10 DEF Logout
<1>11. ASSUME NEW k \in Keys, NEW s, NEW X, RevokeSessions(k, s, X) PROVE IInv'
  BY <1>4, <1>11 DEF RevokeSessions
<1>12. CASE Next
  BY ONLY <1>12, <1>1, <1>2, <1>3, <1>5, <1>6, <1>7, <1>8, <1>9, <1>10, <1>11 DEF Next
<1>13. QED
  BY <1>9, <1>12

\* IInv holds in every reachable database.
THEOREM InvariantHolds == Spec => []IInv
  BY InvInit, InvStep, PTL DEF Spec

(***************************************************************************)
(* The properties, for every value of the constants.                       *)
(***************************************************************************)

\* However rotations, logouts and revocations mix, a live session keeps one
\* refresh token that can renew it and an ended one keeps none.
THEOREM OneLiveToken == Spec => []OneLiveTokenPerLiveSession
<1>1. IInv => OneLiveTokenPerLiveSession
  BY DEF IInv
<1>2. QED
  BY <1>1, InvariantHolds, PTL

\* Refresh tokens form chains: RotateRefresh consumes a token once (ID-INV-9).
THEOREM RotationIsLinear == Spec => []RotatedAtMostOnce
<1>1. IInv => RotatedAtMostOnce
  BY DEF IInv
<1>2. QED
  BY <1>1, InvariantHolds, PTL

\* Replay of a consumed refresh token ends its session for good (ID-INV-9), on
\* a server that runs the UPDATE which revokes the family.
THEOREM ReuseIsFatal ==
    ASSUME SelfUpdateAllowed
    PROVE  Spec => []ReuseEndsTheFamily
<1>1. IInv => ReuseEndsTheFamily
  BY DEF IInv
<1>2. QED
  BY <1>1, InvariantHolds, PTL

\* No live session belongs to a disabled subject or a suspended member
\* (ID-INV-10): Login checks both rows that ChangeUserStatus writes.
THEOREM DisabledHasNoSession == Spec => []DisabledIsLoggedOut
<1>1. IInv => DisabledIsLoggedOut
  BY DEF IInv
<1>2. QED
  BY <1>1, InvariantHolds, PTL

\* ChangeUserStatus keeps subject and membership in step.
THEOREM StatusesAgree == Spec => []SubjectAndMemberAgree
<1>1. IInv => SubjectAndMemberAgree
  BY DEF IInv
<1>2. QED
  BY <1>1, InvariantHolds, PTL

\* Whoever holds a live session has proved the password in force: no session
\* outlives a reset, and only the session that made it outlives a change.
THEOREM PasswordIsKnown == Spec => []LiveSessionsKnowThePassword
<1>1. IInv => LiveSessionsKnowThePassword
  BY DEF IInv
<1>2. QED
  BY <1>1, InvariantHolds, PTL

\* Role grants never fall behind the membership's access version.
THEOREM GrantsStayEffective == Spec => []GrantsFollowTheMember
<1>1. IInv => GrantsFollowTheMember
  BY DEF IInv
<1>2. QED
  BY <1>1, InvariantHolds, PTL

LEMMA EndedIsFinalInStep == IInv /\ [Next]_vars => [EndedIsFinalStep]_vars
<1> SUFFICES ASSUME IInv, Next PROVE EndedIsFinalStep
  OBVIOUS
<1> USE DEF IInv, EndedIsFinalStep, Exchange, Successor, EndFamily, RevokeAll
<1>1. ASSUME NEW s \in Subjects, NEW p \in Secrets, NEW x \in SessionIds, NEW t \in Tokens,
             Login(s, p, x, t)
      PROVE  EndedIsFinalStep
  BY <1>1 DEF Login, TypeOK
<1>2. ASSUME NEW t \in Tokens, NEW u \in Tokens, RotateRefresh(t, u)
      PROVE  EndedIsFinalStep
  <2>1. PICK x \in SessionIds : x = token[t].session
    BY <1>2 DEF RotateRefresh, ReferencesHold
  <2>2. \A y \in SessionIds : /\ session'[y].status = session[y].status
                             /\ session'[y].subject = session[y].subject
    BY <1>2, <2>1 DEF RotateRefresh, TypeOK, Session
  <2>3. \A v \in Tokens \ {t, u} : token'[v] = token[v]
    BY <1>2 DEF RotateRefresh, TypeOK
  <2>4. t # u /\ token'[t].session = token[t].session
    BY <1>2 DEF RotateRefresh, TypeOK, Token
  <2>5. QED
    BY <1>2, <2>2, <2>3, <2>4 DEF RotateRefresh
<1>3. ASSUME NEW X, Revoke(X)
      PROVE  EndedIsFinalStep
  BY <1>3, RevokeEffect
<1>4. ASSUME NEW x \in SessionIds, NEW v \in 1..MaxContext, SwitchContext(x, v)
      PROVE  EndedIsFinalStep
  BY <1>4 DEF SwitchContext, TypeOK, Session
<1>5. ASSUME session' = session, token' = token
      PROVE  EndedIsFinalStep
  BY <1>5
<1>6. ASSUME NEW k \in Keys, NEW s \in Subjects, NEW target \in {"ACTIVE", "DISABLED"},
             ChangeUserStatus(k, s, target, subject[s].version, member[s].version)
      PROVE  EndedIsFinalStep
  BY <1>3, <1>5, <1>6 DEF ChangeUserStatus, tableVars
<1>7. ASSUME NEW k \in Keys, NEW s \in Subjects, NEW p \in Secrets,
             ResetCredential(k, s, p, credential[s].version)
      PROVE  EndedIsFinalStep
  BY <1>3, <1>7 DEF ResetCredential
<1>8. ASSUME NEW k \in Keys, NEW x \in SessionIds, NEW old \in Secrets, NEW new \in Secrets,
             ChangeOwnCredential(k, x, old, new, credential[session[x].subject].version)
      PROVE  EndedIsFinalStep
  BY <1>3, <1>8 DEF ChangeOwnCredential
<1>9. ASSUME NEW k \in Keys, NEW s, NEW X, RevokeSessions(k, s, X)
      PROVE  EndedIsFinalStep
  BY <1>3, <1>9 DEF RevokeSessions
<1>10. ASSUME NEW t \in Tokens, ReuseDetected(t) \/ Logout(t)
      PROVE  EndedIsFinalStep
  BY <1>3, <1>5, <1>10 DEF ReuseDetected, Logout, tableVars
<1>11. CASE Tick
  BY <1>5, <1>11 DEF Tick, tableVars
<1>12. QED
  BY ONLY Next, <1>1, <1>2, <1>4, <1>6, <1>7, <1>8, <1>9, <1>10, <1>11 DEF Next

\* A session or token that has ended never comes back or changes hands.
THEOREM EndedStaysEnded == Spec => EndedIsFinal
  BY InvariantHolds, EndedIsFinalInStep, PTL DEF Spec, EndedIsFinal
=============================================================================
