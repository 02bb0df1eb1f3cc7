---------------------- MODULE AuthTransactions_proofs ----------------------
(***************************************************************************)
(* Proof that AuthTransactions implements AuthSessions: whatever the order *)
(* in which the statements of concurrent transactions run, every COMMIT is *)
(* one atomic transaction and nothing else changes a table.  The argument  *)
(* is that of two-phase locking: what a transaction has read of a row it   *)
(* has locked stays true until it ends (IInv), because a commit writes no  *)
(* row it has not locked (Respects).                                       *)
(***************************************************************************)
EXTENDS AuthTransactions, TLAPS

Commands == {"status", "reset", "change", "revoke"}
Revoking == {"sessions", "tokens", "commit"}

Account(r) == /\ lock[<<"subject", tx[r].s>>] = r
              /\ lock[<<"member", tx[r].s>>] = r

\* Which statements a request goes through.
StageOK(r) ==
    LET op == tx[r].op  at == tx[r].at IN
    \/ op = "idle"   /\ at = "none"
    \/ op = "login"  /\ at \in {"identity", "insert"}
    \/ op = "rotate" /\ at \in {"token", "swap", "sessions", "tokens", "commit"}
    \/ op = "logout" /\ at \in Revoking
    \/ op = "switch" /\ at \in {"context", "one"}
    \/ op = "status" /\ at \in {"reserve", "target", "sessions", "tokens", "grants"}
    \/ op = "reset"  /\ at \in {"reserve", "secret", "sessions", "tokens", "commit"}
    \/ op = "change" /\ at \in {"reserve", "self", "secret", "sessions", "tokens", "commit"}
    \/ op = "revoke" /\ at \in {"reserve", "one", "sessions", "tokens", "commit"}
                     /\ (at = "one" => tx[r].x # None)

\* The arguments of a request; rows that existed when it arrived still do, and
\* the ids it drew are still free.
ArgsOK(r) ==
    LET q == tx[r] IN
    /\ IF q.op = "login" THEN q.newSession \in SessionIds \ Opened ELSE q.newSession = None
    /\ IF q.op = "login" THEN q.newToken \in Tokens \ Issued
       ELSE q.newToken # None => q.op = "rotate" /\ q.newToken \in Tokens \ Issued
    /\ q.op = "login" => q.s \in Subjects /\ q.p \in Secrets
    /\ q.op \in {"rotate", "logout"} => q.t \in Issued
    /\ q.op = "rotate" /\ q.newToken = None => token[q.t].status # "ACTIVE"
    /\ q.op \in {"switch", "change"} => q.x \in Opened /\ q.s = session[q.x].subject
    /\ q.op = "switch" => q.v \in 1..MaxContext /\ q.v < MaxContext
    /\ q.op \in {"status", "reset", "revoke"} => q.s \in Subjects
    /\ q.op \in Commands => q.k \in Keys
    /\ q.op \in {"reset", "change"} => q.p \in Secrets
    /\ q.op = "change" => q.old \in Secrets /\ q.old # q.p
    /\ q.op = "revoke" /\ q.x # None => q.x \in Opened /\ q.s = session[q.x].subject

\* The key of a command is its own until it ends.
KeyOK(r) ==
    tx[r].op \in Commands /\ tx[r].at # "reserve" =>
        lock[<<"key", tx[r].k>>] = r /\ tx[r].k \notin ledger

\* What the statements before tx[r].at have found holds still, and the rows they
\* found it in are locked: that subject and member are usable ...
UsableOK(r) ==
    LET q == tx[r] IN
    \/ q.at = "insert" \/ (q.op = "switch" /\ q.at = "one")
    \/ q.op = "change" /\ q.at \in Revoking \cup {"secret"}
    => Account(r) /\ Atomic!Usable(q.s)

\* ... that the password was right, or the version of the credential current,
PasswordOK(r) ==
    tx[r].at = "insert" =>
        lock[<<"credential", tx[r].s>>] = r /\ credential[tx[r].s].secret = tx[r].p

SecretOK(r) ==
    SetsSecret(tx[r]) /\ tx[r].at \in Revoking =>
        /\ lock[<<"credential", tx[r].s>>] = r /\ credential[tx[r].s].version = tx[r].v
        /\ tx[r].op = "change" => credential[tx[r].s].secret = tx[r].old

\* ... that the session to renew is live, or the token was used before,
RenewOK(r) ==
    tx[r].at = "swap" =>
        /\ lock[<<"session", token[tx[r].t].session>>] = r
        /\ session[token[tx[r].t].session].status = "ACTIVE"

ReuseOK(r) ==
    tx[r].op = "rotate" /\ tx[r].at \in Revoking =>
        SelfUpdateAllowed /\ token[tx[r].t].status = "USED"

\* ... and that the account is not yet what it is to become.
StatusOK(r) ==
    LET q == tx[r] IN
    q.op = "status" /\ q.at \in {"sessions", "tokens", "grants"} =>
        /\ Account(r)
        /\ subject[q.s].version = q.v /\ member[q.s].version = q.w
        /\ subject[q.s].status # q.target
        /\ q.at # "grants" => q.target = "DISABLED"

CheckedOK(r) == /\ UsableOK(r) /\ PasswordOK(r) /\ SecretOK(r)
                /\ RenewOK(r) /\ ReuseOK(r) /\ StatusOK(r)

\* The two UPDATEs of a revocation have matched, and locked, exactly the live
\* rows the revocation is about.
MatchedOK(r) ==
    LET q == tx[r] IN
    IF q.at = "grants" /\ q.target = "ACTIVE" THEN q.sessions = {} /\ q.tokens = {}
    ELSE /\ q.at \in {"tokens", "grants", "commit"} =>
            /\ BySubject(q) => lock[<<"sessionIndex", q.s>>] = r
            /\ q.sessions = {x \in Target(q) : session[x].status = "ACTIVE"}
            /\ \A x \in q.sessions : lock[<<"session", x>>] = r
         /\ q.at \notin {"tokens", "grants", "commit"} => q.sessions = {} /\ q.tokens = {}
         /\ q.at \in {"grants", "commit"} =>
            /\ q.tokens = ActiveTokensOf(Target(q))
            /\ \A t \in q.tokens : lock[<<"token", t>>] = r

Facts(r) == StageOK(r) /\ ArgsOK(r) /\ KeyOK(r) /\ CheckedOK(r) /\ MatchedOK(r)

\* No two requests drew the same id.
DrawnOnce ==
    \A r, q \in Slots : r # q =>
        /\ tx[r].newSession = tx[q].newSession => tx[r].newSession = None
        /\ tx[r].newToken = tx[q].newToken => tx[r].newToken = None

\* Inserted rows refer to inserted rows, the others to none; nothing expires.
RowsOK ==
    /\ \A x \in SessionIds \ Opened : session[x].subject = None
    /\ \A x \in Opened : /\ session[x].subject \in Subjects /\ session[x].expires = 1
                         /\ session[x].context \in 1..MaxContext
    /\ \A t \in Issued : token[t].session \in Opened /\ token[t].expires = 1

IInv ==
    /\ TypeOK
    /\ RowsOK
    /\ DrawnOnce
    /\ \A r \in Slots : Facts(r)

-----------------------------------------------------------------------------
(* The theorems of AuthSessions about the same tables.                     *)

Proofs == INSTANCE AuthSessions_proofs WITH now <- 0, MaxTime <- 0, RefreshTTL <- 1

LEMMA SameNext == [Atomic!Next]_(Atomic!vars) => [Proofs!Next]_(Proofs!vars)
BY DEF Atomic!vars, Proofs!vars, Atomic!accountVars, Proofs!accountVars, Atomic!tableVars,
       Proofs!tableVars, Atomic!ghostVars, Proofs!ghostVars, Atomic!Usable, Proofs!Usable,
       Atomic!SessionsOf, Proofs!SessionsOf, Atomic!EndSessions, Proofs!EndSessions,
       Atomic!EndTokens, Proofs!EndTokens, Atomic!Revoke, Proofs!Revoke, Atomic!RevokeAll,
       Proofs!RevokeAll, Atomic!Reserve, Proofs!Reserve, Atomic!Accept, Proofs!Accept,
       Atomic!Login, Proofs!Login, Atomic!Renewable, Proofs!Renewable, Atomic!Successor,
       Proofs!Successor, Atomic!Exchange, Proofs!Exchange, Atomic!RotateRefresh,
       Proofs!RotateRefresh, Atomic!Replay, Proofs!Replay, Atomic!EndFamily, Proofs!EndFamily,
       Atomic!ReuseDetected, Proofs!ReuseDetected, Atomic!Logout, Proofs!Logout,
       Atomic!SwitchContext, Proofs!SwitchContext, Atomic!MemberTarget, Proofs!MemberTarget,
       Atomic!CarryGrants, Proofs!CarryGrants, Atomic!ChangeUserStatus,
       Proofs!ChangeUserStatus, Atomic!ResetCredential, Proofs!ResetCredential,
       Atomic!ChangeOwnCredential, Proofs!ChangeOwnCredential, Atomic!RevokeSessions,
       Proofs!RevokeSessions, Atomic!Tick, Proofs!Tick, Atomic!Next, Proofs!Next

\* A committed transaction leaves well-formed rows.
LEMMA TablesStep ==
    ASSUME Atomic!TypeOK, [Atomic!Next]_(Atomic!vars)
    PROVE  (Atomic!TypeOK)'
<1>1. Atomic!TypeOK <=> Proofs!TypeOK
    BY DEF Atomic!TypeOK, Proofs!TypeOK, Atomic!Subject, Proofs!Subject, Atomic!Member,
           Proofs!Member, Atomic!Credential, Proofs!Credential, Atomic!Session,
           Proofs!Session, Atomic!Token, Proofs!Token
<1>2. (Atomic!TypeOK)' <=> (Proofs!TypeOK)'
    BY DEF Atomic!TypeOK, Proofs!TypeOK, Atomic!Subject, Proofs!Subject, Atomic!Member,
           Proofs!Member, Atomic!Credential, Proofs!Credential, Atomic!Session,
           Proofs!Session, Atomic!Token, Proofs!Token
<1>3. [Proofs!Next]_(Proofs!vars)
    BY SameNext
<1>4. Proofs!TypeOK /\ [Proofs!Next]_(Proofs!vars) => (Proofs!TypeOK)'
    BY NoneAssumption, ContextAssumption, ServerAssumption, Proofs!TypeStep
<1> QED
    BY <1>1, <1>2, <1>3, <1>4

-----------------------------------------------------------------------------
(* Row locks.                                                              *)

LEMMA Lists == \A q : DOMAIN LockList(q) \subseteq {1, 2, 3}
BY DEF LockList, IdentityRows, TokenRows

\* A statement that is ready has locked every row of its list.
LEMMA AllLocked ==
    ASSUME NEW r \in Slots, Missing(r) = {}
    PROVE  \A i \in DOMAIN LockList(tx[r]) : \A row \in LockList(tx[r])[i] : lock[row] = r
<1> DEFINE list == LockList(tx[r])
           open == {i \in DOMAIN list : \E row \in list[i] : lock[row] # r}
<1>1. SUFFICES ASSUME open # {} PROVE FALSE
    OBVIOUS
<1>2. open \subseteq {1, 2, 3}
    BY Lists
<1>3. \E i \in open : \A j \in open : i <= j
    BY <1>1, <1>2
<1>4. PICK i \in open : i = CHOOSE k \in open : \A j \in open : k <= j
    BY <1>3
<1>5. Missing(r) = {row \in list[i] : lock[row] # r}
    BY <1>1, <1>4 DEF Missing
<1> QED
    BY <1>4, <1>5

\* A step of r writes only rows r has locked, or the rows of the ids it drew: a
\* new session under the lock of its subject's sessions, a new token in a new
\* session or in a live one r has locked.  Rows that have ended stay ended.
Respects(r) ==
    /\ \A s \in Subjects :
        /\ subject'[s] # subject[s] => lock[<<"subject", s>>] = r
        /\ member'[s] # member[s] => lock[<<"member", s>>] = r
        /\ credential'[s] # credential[s] => lock[<<"credential", s>>] = r
    /\ \A x \in Opened :
        /\ session'[x] # session[x] => lock[<<"session", x>>] = r
        /\ x \in Opened' /\ session'[x].subject = session[x].subject
        /\ session'[x].status = "ACTIVE" => session[x].status = "ACTIVE"
    /\ \A x \in SessionIds \ Opened :
        session'[x] # session[x] =>
            x = tx[r].newSession /\ lock[<<"sessionIndex", session'[x].subject>>] = r
    /\ \A t \in Issued :
        /\ token'[t] # token[t] => lock[<<"token", t>>] = r
        /\ t \in Issued' /\ token'[t].session = token[t].session
        /\ token[t].status # "ACTIVE" => token'[t].status = token[t].status
    /\ \A t \in Tokens \ Issued :
        token'[t] # token[t] =>
            /\ t = tx[r].newToken
            /\ token'[t].session \in Opened =>
                /\ session[token'[t].session].status = "ACTIVE"
                /\ lock[<<"session", token'[t].session>>] = r
    /\ \A k \in Keys : k \in ledger' \ ledger => lock[<<"key", k>>] = r

\* The same of one request that looks on: what p has locked is not written, its
\* ids stay free, and nothing is added to what it is about.
Spares(p) ==
    /\ \A s \in Subjects :
        /\ lock[<<"subject", s>>] = p => subject'[s] = subject[s]
        /\ lock[<<"member", s>>] = p => member'[s] = member[s]
        /\ lock[<<"credential", s>>] = p => credential'[s] = credential[s]
    /\ \A x \in Opened :
        /\ lock[<<"session", x>>] = p => session'[x] = session[x]
        /\ x \in Opened' /\ session'[x].subject = session[x].subject
        /\ session'[x].status = "ACTIVE" => session[x].status = "ACTIVE"
    /\ \A x \in SessionIds \ Opened :
        session'[x] # session[x] =>
            x # tx[p].newSession /\ lock[<<"sessionIndex", session'[x].subject>>] # p
    /\ \A t \in Issued :
        /\ lock[<<"token", t>>] = p => token'[t] = token[t]
        /\ t \in Issued' /\ token'[t].session = token[t].session
        /\ token[t].status # "ACTIVE" => token'[t].status = token[t].status
    /\ \A t \in Tokens \ Issued :
        token'[t] # token[t] =>
            /\ t # tx[p].newToken
            /\ token'[t].session \in Opened =>
                /\ session[token'[t].session].status = "ACTIVE"
                /\ lock[<<"session", token'[t].session>>] # p
    /\ \A k \in Keys : lock[<<"key", k>>] = p /\ k \notin ledger => k \notin ledger'

LEMMA RespectsSpares ==
    ASSUME IInv, NEW r \in Slots, NEW p \in Slots, p # r, Respects(r)
    PROVE  Spares(p)
<1>1. \A x \in SessionIds : x = tx[r].newSession => x # tx[p].newSession
    BY NoneAssumption DEF IInv, DrawnOnce
<1>2. \A t \in Tokens : t = tx[r].newToken => t # tx[p].newToken
    BY NoneAssumption DEF IInv, DrawnOnce
<1> QED
    BY <1>1, <1>2 DEF Respects, Spares

LEMMA NothingSpares ==
    ASSUME UNCHANGED tables, NEW p \in Slots
    PROVE  Spares(p)
BY DEF tables, Spares, Opened, Issued

\* What a request is about.
LEMMA Known ==
    ASSUME IInv, NEW p \in Slots
    PROVE  /\ tx[p] \in Request
           /\ tx[p].op \in {"login", "switch"} \cup Commands => tx[p].s \in Subjects
           /\ tx[p].op \in {"switch", "change"} => tx[p].x \in SessionIds
           /\ tx[p].op \in {"rotate", "logout"} =>
                tx[p].t \in Tokens /\ token[tx[p].t].session \in Opened
           /\ BySubject(tx[p]) => tx[p].s \in Subjects
           /\ tx[p].at \in {"tokens", "grants", "commit"} => Target(tx[p]) \subseteq Opened
<1> USE DEF IInv, Facts
<1>1. tx[p] \in Request
    BY DEF TypeOK
<1>2. /\ tx[p].op \in {"login", "switch"} \cup Commands => tx[p].s \in Subjects
      /\ tx[p].op \in {"switch", "change"} => tx[p].x \in SessionIds
    BY DEF ArgsOK, Commands, RowsOK, Opened
<1>3. tx[p].op \in {"rotate", "logout"} => tx[p].t \in Tokens /\ token[tx[p].t].session \in Opened
    BY DEF ArgsOK, RowsOK, Issued
<1>4. BySubject(tx[p]) => tx[p].s \in Subjects
    BY <1>2 DEF BySubject, Commands
<1>5. ASSUME tx[p].at \in {"tokens", "grants", "commit"}
      PROVE  Target(tx[p]) \subseteq Opened
  <2>1. tx[p].op \in {"rotate", "logout"} \cup Commands
    BY <1>5 DEF StageOK, Commands, Revoking
  <2>2. tx[p].op \in Commands => Atomic!SessionsOf(tx[p].s) \subseteq Opened
    BY <1>2, NoneAssumption DEF Atomic!SessionsOf, RowsOK
  <2>3. tx[p].op = "revoke" /\ tx[p].x # None => tx[p].x \in Opened
    BY DEF ArgsOK
  <2> QED
    BY <2>1, <2>2, <2>3, <1>3 DEF Target, Commands
<1> QED
    BY <1>1, <1>2, <1>3, <1>4, <1>5

LEMMA TargetKeeps ==
    ASSUME IInv, NEW p \in Slots, Spares(p), tx'[p] = tx[p],
           tx[p].at \in {"tokens", "grants", "commit"},
           BySubject(tx[p]) => lock[<<"sessionIndex", tx[p].s>>] = p
    PROVE  Target(tx[p])' = Target(tx[p])
<1>1. ASSUME BySubject(tx[p])
      PROVE  (Atomic!SessionsOf(tx[p].s))' = Atomic!SessionsOf(tx[p].s)
  <2>1. tx[p].s \in Subjects /\ tx[p].s # None
    BY <1>1, Known, NoneAssumption
  <2>2. ASSUME NEW x \in SessionIds
        PROVE  session'[x].subject = tx[p].s <=> session[x].subject = tx[p].s
    <3>1. CASE x \in Opened
      BY <3>1 DEF Spares
    <3>2. CASE x \notin Opened
      BY <1>1, <2>1, <3>2 DEF Spares, IInv, RowsOK
    <3> QED
      BY <3>1, <3>2
  <2> QED
    BY <2>2 DEF Atomic!SessionsOf
<1>2. tx[p].op \in {"rotate", "logout"} => token'[tx[p].t].session = token[tx[p].t].session
    BY DEF Spares, IInv, Facts, ArgsOK
<1>3. tx[p].op \in {"rotate", "logout"} \cup Commands
    BY DEF StageOK, Commands, Revoking, IInv, Facts
<1> QED
    BY <1>1, <1>2, <1>3 DEF Target, BySubject, Commands

\* Two-phase locking: nothing that spares p falsifies what p has found.
LEMMA FactsKeep ==
    ASSUME IInv, NEW p \in Slots, Spares(p), tx'[p] = tx[p],
           \A row \in Rows : lock[row] = p => lock'[row] = p
    PROVE  Facts(p)'
<1> USE DEF IInv, Facts
<1>1. StageOK(p)'
    BY DEF StageOK
<1>2. ArgsOK(p)'
  <2>1. tx[p].newSession \in SessionIds \ Opened => tx[p].newSession \in SessionIds \ Opened'
    BY NoneAssumption DEF Spares, Opened
  <2>2. tx[p].newToken \in Tokens \ Issued => tx[p].newToken \in Tokens \ Issued'
    BY NoneAssumption DEF Spares, Issued
  <2>3. \A x \in Opened : x \in Opened' /\ session'[x].subject = session[x].subject
    BY DEF Spares
  <2>4. \A t \in Issued : t \in Issued' /\ (token[t].status # "ACTIVE" => token'[t].status # "ACTIVE")
    BY DEF Spares
  <2> QED
    BY <2>1, <2>2, <2>3, <2>4 DEF ArgsOK
<1>3. KeyOK(p)'
  <2>1. tx[p].op \in Commands => tx[p].k \in Keys /\ <<"key", tx[p].k>> \in Rows
    BY DEF ArgsOK, Rows
  <2> QED
    BY <2>1 DEF KeyOK, Spares
<1>4. CheckedOK(p)'
  <2>1. ASSUME NEW s \in Subjects, NEW kind \in {"subject", "member", "credential", "sessionIndex"}
        PROVE  <<kind, s>> \in Rows
    BY DEF Rows
  <2>2. ASSUME tx[p].s \in Subjects, Account(p)
        PROVE  /\ Account(p)'
               /\ subject'[tx[p].s] = subject[tx[p].s] /\ member'[tx[p].s] = member[tx[p].s]
    BY <2>1, <2>2 DEF Account, Spares
  <2>3. ASSUME tx[p].s \in Subjects, lock[<<"credential", tx[p].s>>] = p
        PROVE  /\ lock'[<<"credential", tx[p].s>>] = p
               /\ credential'[tx[p].s] = credential[tx[p].s]
    BY <2>1, <2>3 DEF Spares
  <2>4. tx[p].op \in {"login", "switch"} \cup Commands => tx[p].s \in Subjects
    BY Known
  <2>5. /\ tx[p].at = "insert" => tx[p].op = "login"
        /\ tx[p].at = "swap" => tx[p].op = "rotate"
    BY DEF StageOK, Revoking
  <2>6. CheckedOK(p)
    OBVIOUS
  <2> HIDE DEF IInv, Facts
  <2>7. UsableOK(p)'
    BY <2>2, <2>4, <2>5, <2>6 DEF CheckedOK, UsableOK, Atomic!Usable, Commands
  <2>8. PasswordOK(p)'
    BY <2>3, <2>4, <2>5, <2>6 DEF CheckedOK, PasswordOK
  <2>9. SecretOK(p)'
    BY <2>3, <2>4, <2>6 DEF CheckedOK, SecretOK, Commands, SetsSecret
  <2>10. RenewOK(p)'
    <3> SUFFICES ASSUME tx[p].at = "swap"
                 PROVE  /\ lock'[<<"session", token'[tx[p].t].session>>] = p
                        /\ session'[token'[tx[p].t].session].status = "ACTIVE"
      BY DEF RenewOK
    <3>1. tx[p].t \in Issued /\ token[tx[p].t].session \in Opened
      BY <2>5, Known DEF ArgsOK, IInv, Facts
    <3>2. token'[tx[p].t].session = token[tx[p].t].session
      BY <3>1 DEF Spares
    <3>3. <<"session", token[tx[p].t].session>> \in Rows
      BY <3>1 DEF Rows, Opened
    <3>4. /\ lock[<<"session", token[tx[p].t].session>>] = p
          /\ session[token[tx[p].t].session].status = "ACTIVE"
      BY <2>6 DEF CheckedOK, RenewOK
    <3>5. session'[token[tx[p].t].session] = session[token[tx[p].t].session]
      BY <3>1, <3>4 DEF Spares
    <3> QED
      BY <3>2, <3>3, <3>4, <3>5
  <2>11. ReuseOK(p)'
    <3>1. tx[p].op = "rotate" => tx[p].t \in Issued
      BY DEF ArgsOK, IInv, Facts
    <3>2. \A t \in Issued : token[t].status = "USED" => token'[t].status = "USED"
      BY DEF Spares
    <3> QED
      BY <2>6, <3>1, <3>2 DEF CheckedOK, ReuseOK
  <2>12. StatusOK(p)'
    BY <2>2, <2>4, <2>6 DEF CheckedOK, StatusOK, Commands
  <2> QED
    BY <2>7, <2>8, <2>9, <2>10, <2>11, <2>12 DEF CheckedOK
<1>5. MatchedOK(p)'
  <2>1. CASE tx[p].at = "grants" /\ tx[p].target = "ACTIVE"
    BY <2>1 DEF MatchedOK
  <2>2. CASE tx[p].at \notin {"tokens", "grants", "commit"}
    BY <2>2 DEF MatchedOK
  <2>3. CASE tx[p].at \in {"tokens", "grants", "commit"} /\ ~(tx[p].at = "grants" /\ tx[p].target = "ACTIVE")
    <3>1. /\ BySubject(tx[p]) => lock[<<"sessionIndex", tx[p].s>>] = p
          /\ tx[p].sessions = {x \in Target(tx[p]) : session[x].status = "ACTIVE"}
          /\ \A x \in tx[p].sessions : lock[<<"session", x>>] = p
          /\ tx[p].at \in {"grants", "commit"} =>
              /\ tx[p].tokens = ActiveTokensOf(Target(tx[p]))
              /\ \A t \in tx[p].tokens : lock[<<"token", t>>] = p
      BY <2>3 DEF MatchedOK
    <3>2. Target(tx[p])' = Target(tx[p]) /\ Target(tx[p]) \subseteq Opened
      BY <2>3, <3>1, Known, TargetKeeps
    <3>3. ASSUME BySubject(tx[p]) PROVE lock'[<<"sessionIndex", tx[p].s>>] = p
      BY <3>1, <3>3, Known DEF Rows
    <3>4. ASSUME NEW x \in Target(tx[p])
          PROVE  /\ session'[x].status = "ACTIVE" <=> session[x].status = "ACTIVE"
                 /\ session[x].status = "ACTIVE" => lock[<<"session", x>>] = p
      BY <3>1, <3>2 DEF Spares
    <3>5. \A x \in tx[p].sessions : lock'[<<"session", x>>] = p
      BY <3>1, <3>2 DEF Rows, Opened
    <3>6. ASSUME tx[p].at \in {"grants", "commit"}, NEW t \in Tokens
          PROVE  /\ token'[t].session \in Target(tx[p]) /\ token'[t].status = "ACTIVE"
                        <=> token[t].session \in Target(tx[p]) /\ token[t].status = "ACTIVE"
                 /\ t \in tx[p].tokens => lock'[<<"token", t>>] = p
      <4>1. CASE t \in Issued
        BY <3>1, <3>6, <4>1 DEF Spares, ActiveTokensOf, Rows
      <4>2. CASE t \notin Issued
        <5>1. t \notin tx[p].tokens
          BY <3>1, <3>6, <4>2 DEF ActiveTokensOf, Issued
        <5>2. SUFFICES ASSUME token'[t].session \in Target(tx[p]), token'[t] # token[t]
                       PROVE  FALSE
          BY <4>2, <5>1 DEF Issued
        <5>3. /\ session[token'[t].session].status = "ACTIVE"
              /\ lock[<<"session", token'[t].session>>] # p
          BY <3>2, <4>2, <5>2 DEF Spares
        <5> QED
          BY <3>4, <5>2, <5>3
      <4> QED
        BY <4>1, <4>2
    <3>7. tx[p].at \in {"grants", "commit"} =>
              tx[p].tokens \subseteq Tokens /\ ActiveTokensOf(Target(tx[p]))' = tx[p].tokens
      BY <3>1, <3>2, <3>6 DEF ActiveTokensOf
    <3>8. {x \in Target(tx[p]) : session'[x].status = "ACTIVE"} = tx[p].sessions
      BY <3>1, <3>4
    <3> QED
      BY <2>3, <3>2, <3>3, <3>5, <3>6, <3>7, <3>8 DEF MatchedOK, BySubject
  <2> QED
    BY <2>1, <2>2, <2>3
<1> QED
    BY <1>1, <1>2, <1>3, <1>4, <1>5

-----------------------------------------------------------------------------
(* Steps that leave the tables alone.                                      *)

LEMMA QuietKeeps ==
    ASSUME IInv, NEW r \in Slots, UNCHANGED tables, Facts(r)',
           NEW q \in Request, tx' = [tx EXCEPT ![r] = q],
           q.newSession \in FreshSessions \cup {None, tx[r].newSession},
           q.newToken \in FreshTokens \cup {None, tx[r].newToken},
           lock' \in [Rows -> Slots \cup {None}],
           \A p \in Slots \ {r} : \A row \in Rows : lock[row] = p => lock'[row] = p
    PROVE  IInv'
<1>1. /\ tx' \in [Slots -> Request] /\ tx'[r] = q
      /\ \A p \in Slots \ {r} : tx'[p] = tx[p]
    BY DEF IInv, TypeOK
<1>2. TypeOK'
    BY <1>1, TablesStep DEF IInv, TypeOK, tables, Atomic!vars, Atomic!accountVars
<1>3. RowsOK'
    BY DEF IInv, RowsOK, tables, Opened, Issued
<1>4. DrawnOnce'
  <2> SUFFICES ASSUME NEW a \in Slots, NEW b \in Slots, a # b
               PROVE  /\ tx'[a].newSession = tx'[b].newSession => tx'[a].newSession = None
                      /\ tx'[a].newToken = tx'[b].newToken => tx'[a].newToken = None
    BY DEF DrawnOnce
  <2>1. /\ tx[a].newSession = tx[b].newSession => tx[a].newSession = None
        /\ tx[a].newToken = tx[b].newToken => tx[a].newToken = None
    BY DEF IInv, DrawnOnce
  <2>2. \A p \in Slots \ {r} :
            /\ q.newSession = tx[p].newSession => q.newSession = None
            /\ q.newToken = tx[p].newToken => q.newToken = None
    BY DEF FreshSessions, FreshTokens, IInv, DrawnOnce
  <2>3. CASE a = r
    <3>1. tx'[a] = q /\ tx'[b] = tx[b] /\ b \in Slots \ {r}
      BY <1>1, <2>3
    <3> QED
      BY ONLY <2>2, <3>1
  <2>4. CASE b = r
    <3>1. tx'[b] = q /\ tx'[a] = tx[a] /\ a \in Slots \ {r}
      BY <1>1, <2>4
    <3> QED
      BY ONLY <2>2, <3>1
  <2>5. CASE a # r /\ b # r
    BY <1>1, <2>1, <2>5
  <2> QED
    BY <2>3, <2>4, <2>5
<1>5. ASSUME NEW p \in Slots PROVE Facts(p)'
    BY <1>1, NothingSpares, FactsKeep
<1> QED
    BY <1>2, <1>3, <1>4, <1>5 DEF IInv

LEMMA GoToKeeps ==
    ASSUME IInv, NEW r \in Slots, NEW at \in Steps, GoTo(r, at),
           StageOK(r)', KeyOK(r)', CheckedOK(r)', MatchedOK(r)'
    PROVE  IInv'
<1> DEFINE q == [tx[r] EXCEPT !.at = at]
<1>1. tx[r] \in Request
    BY DEF IInv, TypeOK
<1>2. /\ q \in Request /\ q.newSession = tx[r].newSession /\ q.newToken = tx[r].newToken
      /\ q.op = tx[r].op /\ q.s = tx[r].s /\ q.x = tx[r].x /\ q.t = tx[r].t /\ q.k = tx[r].k
      /\ q.old = tx[r].old /\ q.p = tx[r].p /\ q.v = tx[r].v
    BY <1>1 DEF Request
<1>3. /\ tx' = [tx EXCEPT ![r] = q] /\ UNCHANGED tables /\ lock' = lock
      /\ tx'[r] = q
    BY DEF GoTo, IInv, TypeOK
<1> HIDE DEF q
<1>4. ArgsOK(r)'
    BY <1>2, <1>3 DEF ArgsOK, IInv, Facts, tables, Opened, Issued
<1> QED
    BY <1>2, <1>3, <1>4, QuietKeeps DEF Facts, IInv, TypeOK

LEMMA IdleOK == Idle \in Request
BY DEF Idle, Request, Steps

\* A slot that has nothing to do, whatever its transaction did.
LEMMA ReleasedFacts ==
    ASSUME IInv, NEW r \in Slots, Release(r)
    PROVE  /\ Facts(r)' /\ tx' \in [Slots -> Request] /\ tx' = [tx EXCEPT ![r] = Idle]
           /\ lock' \in [Rows -> Slots \cup {None}]
           /\ \A p \in Slots \ {r} :
                tx'[p] = tx[p] /\ \A row \in Rows : lock[row] = p => lock'[row] = p
<1>1. /\ tx' \in [Slots -> Request] /\ tx'[r] = Idle /\ tx' = [tx EXCEPT ![r] = Idle]
      /\ \A p \in Slots \ {r} : tx'[p] = tx[p]
    BY IdleOK DEF Release, IInv, TypeOK
<1>2. Facts(r)'
    BY <1>1 DEF Idle, Facts, StageOK, ArgsOK, KeyOK, Commands, Revoking, CheckedOK, UsableOK,
       PasswordOK, SecretOK, RenewOK, ReuseOK, StatusOK, MatchedOK, SetsSecret
<1>3. lock' \in [Rows -> Slots \cup {None}]
    BY DEF Release, IInv, TypeOK
<1>4. \A p \in Slots \ {r} : \A row \in Rows : lock[row] = p => lock'[row] = p
    BY DEF Release
<1> QED
    BY <1>1, <1>2, <1>3, <1>4

LEMMA RejectKeeps ==
    ASSUME IInv, NEW r \in Slots, Reject(r)
    PROVE  IInv'
<1>1. Release(r) /\ UNCHANGED tables
    BY DEF Reject
<1>2. Idle.newSession = None /\ Idle.newToken = None
    BY DEF Idle
<1> QED
    BY <1>1, <1>2, ReleasedFacts, IdleOK, QuietKeeps

LEMMA LockRowKeeps ==
    ASSUME IInv, NEW r \in Slots, LockRow(r)
    PROVE  IInv'
<1>1. PICK row : lock[row] = None /\ lock' = [lock EXCEPT ![row] = r]
    BY DEF LockRow
<1>2. \A p \in Slots, w \in Rows : lock[w] = p => lock'[w] = p
    BY <1>1, NoneAssumption DEF IInv, TypeOK
<1>3. lock' \in [Rows -> Slots \cup {None}]
    BY <1>1 DEF IInv, TypeOK
<1>4. UNCHANGED tables /\ tx' = tx /\ tx' = [tx EXCEPT ![r] = tx[r]]
    BY DEF LockRow, IInv, TypeOK
<1>5. Facts(r)'
    BY <1>2, <1>4, NothingSpares, FactsKeep
<1>6. tx[r] \in Request
    BY DEF IInv, TypeOK
<1> QED
    BY <1>2, <1>3, <1>4, <1>5, <1>6, QuietKeeps

\* A request that has just arrived.
LEMMA BeginKeeps ==
    ASSUME IInv, NEW r \in Slots, NEW q \in Request, Begin(r, q),
           q.newSession \in FreshSessions \cup {None},
           q.newToken \in FreshTokens \cup {None},
           q.sessions = {} /\ q.tokens = {},
           q.at = CASE q.op = "login" -> "identity" [] q.op = "rotate" -> "token"
                    [] q.op = "logout" -> "sessions" [] q.op = "switch" -> "context"
                    [] OTHER -> "reserve",
           ArgsOK(r)'
    PROVE  IInv'
<1>1. /\ tx'[r] = q /\ tx' = [tx EXCEPT ![r] = q] /\ UNCHANGED tables /\ lock' = lock
      /\ q.op \in AllOperations
    BY OperationsAssumption DEF Begin, IInv, TypeOK
<1>2. StageOK(r)'
    BY <1>1 DEF StageOK, AllOperations, Revoking
<1>3. KeyOK(r)' /\ CheckedOK(r)' /\ MatchedOK(r)'
    BY <1>1 DEF KeyOK, CheckedOK, UsableOK, PasswordOK, SecretOK, RenewOK, ReuseOK, StatusOK,
       MatchedOK, AllOperations, Commands, Revoking, SetsSecret
<1> QED
    BY <1>1, <1>2, <1>3, QuietKeeps DEF Facts, IInv, TypeOK

LEMMA Versions ==
    ASSUME IInv, NEW s \in Subjects
    PROVE  /\ subject[s].version \in Nat /\ member[s].version \in Nat
           /\ credential[s].version \in Nat
BY DEF IInv, TypeOK, Atomic!TypeOK, Atomic!Subject, Atomic!Member, Atomic!Credential

LEMMA ArriveKeeps ==
    ASSUME IInv, NEW r \in Slots, Arrive(r)
    PROVE  IInv'
<1>1. CASE BeginLogin(r)
  <2>1. PICK s \in Subjects, p \in Secrets, x \in FreshSessions, t \in FreshTokens :
            Begin(r, [Idle EXCEPT !.op = "login", !.at = "identity", !.s = s, !.p = p,
                                  !.newSession = x, !.newToken = t])
    BY <1>1 DEF BeginLogin
  <2> DEFINE q == [Idle EXCEPT !.op = "login", !.at = "identity", !.s = s, !.p = p,
                               !.newSession = x, !.newToken = t]
  <2>2. /\ q.op = "login" /\ q.at = "identity" /\ q.s = s /\ q.p = p /\ q.x = None
        /\ q.newSession = x /\ q.newToken = t /\ q.sessions = {} /\ q.tokens = {}
    BY DEF Idle
  <2>3. q \in Request
    BY <2>1 DEF Idle, Request, Steps, Begin, FreshSessions, FreshTokens
  <2> HIDE DEF q
  <2>4. tx'[r] = q /\ UNCHANGED tables
    BY <2>1 DEF Begin, IInv, TypeOK, q
  <2>5. ArgsOK(r)'
    BY <2>2, <2>4 DEF ArgsOK, tables, FreshSessions, FreshTokens, Opened, Issued, Commands
  <2> QED
    BY <2>1, <2>2, <2>3, <2>5, BeginKeeps DEF q
<1>2. CASE BeginRotate(r)
  <2>6. PICK t \in Issued : \E u \in IF token[t].status = "ACTIVE" THEN FreshTokens ELSE {None} :
            Begin(r, [Idle EXCEPT !.op = "rotate", !.at = "token", !.t = t, !.newToken = u])
    BY <1>2 DEF BeginRotate
  <2>7. PICK u \in IF token[t].status = "ACTIVE" THEN FreshTokens ELSE {None} :
            Begin(r, [Idle EXCEPT !.op = "rotate", !.at = "token", !.t = t, !.newToken = u])
    BY <2>6
  <2>1. /\ Begin(r, [Idle EXCEPT !.op = "rotate", !.at = "token", !.t = t, !.newToken = u])
        /\ u \in FreshTokens \cup {None} /\ (u = None => token[t].status # "ACTIVE")
    BY <2>7, NoneAssumption DEF FreshTokens
  <2> DEFINE q == [Idle EXCEPT !.op = "rotate", !.at = "token", !.t = t, !.newToken = u]
  <2>2. /\ q.op = "rotate" /\ q.at = "token" /\ q.x = None /\ q.t = t
        /\ q.newSession = None /\ q.newToken = u /\ q.sessions = {} /\ q.tokens = {}
    BY DEF Idle
  <2>3. q \in Request
    BY <2>1 DEF Idle, Request, Steps, Begin, Issued, FreshTokens
  <2> HIDE DEF q
  <2>4. tx'[r] = q /\ UNCHANGED tables
    BY <2>1 DEF Begin, IInv, TypeOK, q
  <2>5. ArgsOK(r)'
    BY <2>1, <2>2, <2>4 DEF ArgsOK, tables, FreshSessions, FreshTokens, Opened, Issued, Commands
  <2> QED
    BY <2>1, <2>2, <2>3, <2>5, BeginKeeps DEF q
<1>3. CASE BeginLogout(r)
  <2>1. PICK t \in Issued :
            Begin(r, [Idle EXCEPT !.op = "logout", !.at = "sessions", !.t = t])
    BY <1>3 DEF BeginLogout
  <2> DEFINE q == [Idle EXCEPT !.op = "logout", !.at = "sessions", !.t = t]
  <2>2. /\ q.op = "logout" /\ q.at = "sessions" /\ q.x = None /\ q.t = t
        /\ q.newSession = None /\ q.newToken = None /\ q.sessions = {}
        /\ q.tokens = {}
    BY DEF Idle
  <2>3. q \in Request
    BY <2>1 DEF Idle, Request, Steps, Begin, Issued
  <2> HIDE DEF q
  <2>4. tx'[r] = q /\ UNCHANGED tables
    BY <2>1 DEF Begin, IInv, TypeOK, q
  <2>5. ArgsOK(r)'
    BY <2>1, <2>2, <2>4 DEF ArgsOK, tables, FreshSessions, FreshTokens, Opened, Issued, Commands
  <2> QED
    BY <2>1, <2>2, <2>3, <2>5, BeginKeeps DEF q
<1>4. CASE BeginSwitch(r)
  <2>1. PICK x \in Opened :
            /\ Begin(r, [Idle EXCEPT !.op = "switch", !.at = "context", !.x = x,
                                  !.s = session[x].subject, !.v = session[x].context])
            /\ session[x].context < MaxContext
    BY <1>4 DEF BeginSwitch
  <2> DEFINE q == [Idle EXCEPT !.op = "switch", !.at = "context", !.x = x,
                                  !.s = session[x].subject, !.v = session[x].context]
  <2>2. /\ q.op = "switch" /\ q.at = "context" /\ q.s = session[x].subject /\ q.x = x
        /\ q.v = session[x].context /\ q.newSession = None /\ q.newToken = None
        /\ q.sessions = {} /\ q.tokens = {}
    BY DEF Idle
  <2>3. q \in Request
    <3>1. /\ x \in SessionIds /\ session[x].subject \in Subjects
          /\ session[x].context \in Nat
      BY ContextAssumption DEF Opened, IInv, RowsOK
    <3>2. "switch" \in Operations
      BY <2>1, <2>2 DEF Begin
    <3> QED
      BY <3>1, <3>2 DEF Idle, Request, Steps
  <2> HIDE DEF q
  <2>4. tx'[r] = q /\ UNCHANGED tables
    BY <2>1 DEF Begin, IInv, TypeOK, q
  <2>5. ArgsOK(r)'
    <3>1. session[x].context \in 1..MaxContext
      BY DEF IInv, RowsOK
    <3> QED
      BY <2>1, <2>2, <2>4, <3>1 DEF ArgsOK, tables, Opened, Commands
  <2> QED
    BY <2>1, <2>2, <2>3, <2>5, BeginKeeps DEF q
<1>5. CASE BeginStatus(r)
  <2>1. PICK k \in Keys, s \in Subjects, target \in {"ACTIVE", "DISABLED"} :
            Begin(r, [Idle EXCEPT !.op = "status", !.at = "reserve", !.k = k, !.s = s,
                                  !.target = target, !.v = subject[s].version,
                                  !.w = member[s].version])
    BY <1>5 DEF BeginStatus
  <2> DEFINE q == [Idle EXCEPT !.op = "status", !.at = "reserve", !.k = k, !.s = s,
                                  !.target = target, !.v = subject[s].version,
                                  !.w = member[s].version]
  <2>2. /\ q.op = "status" /\ q.at = "reserve" /\ q.s = s /\ q.x = None /\ q.k = k
        /\ q.target = target /\ q.v = subject[s].version /\ q.w = member[s].version
        /\ q.newSession = None /\ q.newToken = None /\ q.sessions = {}
        /\ q.tokens = {}
    BY DEF Idle
  <2>3. q \in Request
    BY <2>1, Versions DEF Idle, Request, Steps, Begin
  <2> HIDE DEF q
  <2>4. tx'[r] = q /\ UNCHANGED tables
    BY <2>1 DEF Begin, IInv, TypeOK, q
  <2>5. ArgsOK(r)'
    BY <2>1, <2>2, <2>4 DEF ArgsOK, tables, FreshSessions, FreshTokens, Opened, Issued, Commands
  <2> QED
    BY <2>1, <2>2, <2>3, <2>5, BeginKeeps DEF q
<1>6. CASE BeginReset(r)
  <2>1. PICK k \in Keys, s \in Subjects, p \in Secrets :
            Begin(r, [Idle EXCEPT !.op = "reset", !.at = "reserve", !.k = k, !.s = s,
                                  !.p = p, !.v = credential[s].version])
    BY <1>6 DEF BeginReset
  <2> DEFINE q == [Idle EXCEPT !.op = "reset", !.at = "reserve", !.k = k, !.s = s,
                                  !.p = p, !.v = credential[s].version]
  <2>2. /\ q.op = "reset" /\ q.at = "reserve" /\ q.s = s /\ q.x = None /\ q.k = k
        /\ q.p = p /\ q.v = credential[s].version /\ q.newSession = None
        /\ q.newToken = None /\ q.sessions = {} /\ q.tokens = {}
    BY DEF Idle
  <2>3. q \in Request
    BY <2>1, Versions DEF Idle, Request, Steps, Begin
  <2> HIDE DEF q
  <2>4. tx'[r] = q /\ UNCHANGED tables
    BY <2>1 DEF Begin, IInv, TypeOK, q
  <2>5. ArgsOK(r)'
    BY <2>1, <2>2, <2>4 DEF ArgsOK, tables, FreshSessions, FreshTokens, Opened, Issued, Commands
  <2> QED
    BY <2>1, <2>2, <2>3, <2>5, BeginKeeps DEF q
<1>7. CASE BeginChange(r)
  <2>1. PICK k \in Keys, x \in Opened, old \in Secrets, p \in Secrets :
            /\ Begin(r, [Idle EXCEPT !.op = "change", !.at = "reserve", !.k = k, !.x = x,
                                  !.s = session[x].subject, !.old = old, !.p = p,
                                  !.v = credential[session[x].subject].version])
            /\ old # p
    BY <1>7 DEF BeginChange
  <2> DEFINE q == [Idle EXCEPT !.op = "change", !.at = "reserve", !.k = k, !.x = x,
                                  !.s = session[x].subject, !.old = old, !.p = p,
                                  !.v = credential[session[x].subject].version]
  <2>2. /\ q.op = "change" /\ q.at = "reserve" /\ q.s = session[x].subject /\ q.x = x
        /\ q.k = k /\ q.old = old /\ q.p = p
        /\ q.v = credential[session[x].subject].version /\ q.newSession = None
        /\ q.newToken = None /\ q.sessions = {} /\ q.tokens = {}
    BY DEF Idle
  <2>3. q \in Request
    BY <2>1, Versions DEF Idle, Request, Steps, Begin, Opened, IInv, RowsOK
  <2> HIDE DEF q
  <2>4. tx'[r] = q /\ UNCHANGED tables
    BY <2>1 DEF Begin, IInv, TypeOK, q
  <2>5. ArgsOK(r)'
    BY <2>1, <2>2, <2>4 DEF ArgsOK, tables, FreshSessions, FreshTokens, Opened, Issued, Commands
  <2> QED
    BY <2>1, <2>2, <2>3, <2>5, BeginKeeps DEF q
<1>8. CASE BeginRevoke(r)
  <2>1. PICK k \in Keys, s \in Subjects, x \in Opened \cup {None} :
            /\ Begin(r, [Idle EXCEPT !.op = "revoke", !.at = "reserve", !.k = k, !.s = s, !.x = x])
            /\ x # None => session[x].subject = s
    BY <1>8 DEF BeginRevoke
  <2> DEFINE q == [Idle EXCEPT !.op = "revoke", !.at = "reserve", !.k = k, !.s = s, !.x = x]
  <2>2. /\ q.op = "revoke" /\ q.at = "reserve" /\ q.s = s /\ q.x = x /\ q.k = k
        /\ q.newSession = None /\ q.newToken = None /\ q.sessions = {}
        /\ q.tokens = {}
    BY DEF Idle
  <2>3. q \in Request
    BY <2>1 DEF Idle, Request, Steps, Begin, Opened
  <2> HIDE DEF q
  <2>4. tx'[r] = q /\ UNCHANGED tables
    BY <2>1 DEF Begin, IInv, TypeOK, q
  <2>5. ArgsOK(r)'
    BY <2>1, <2>2, <2>4 DEF ArgsOK, tables, FreshSessions, FreshTokens, Opened, Issued, Commands
  <2> QED
    BY <2>1, <2>2, <2>3, <2>5, BeginKeeps DEF q
<1> QED
    BY <1>1, <1>2, <1>3, <1>4, <1>5, <1>6, <1>7, <1>8 DEF Arrive

-----------------------------------------------------------------------------
(* Statements that only read and lock.                                     *)

\* The rows a statement has locked by the time it runs.
LEMMA ReadyLocks ==
    ASSUME NEW r \in Slots, Missing(r) = {}
    PROVE  /\ tx[r].at = "reserve" => lock[<<"key", tx[r].k>>] = r
           /\ tx[r].at \in {"identity", "target", "context", "self"} => Account(r)
           /\ tx[r].at \in {"identity", "target", "secret"} => lock[<<"credential", tx[r].s>>] = r
           /\ tx[r].at = "insert" => lock[<<"sessionIndex", tx[r].s>>] = r
           /\ tx[r].at \in {"token", "swap"} =>
                /\ lock[<<"token", tx[r].t>>] = r
                /\ lock[<<"session", token[tx[r].t].session>>] = r
           /\ tx[r].at = "one" => lock[<<"session", tx[r].x>>] = r
           /\ tx[r].at = "sessions" =>
                /\ BySubject(tx[r]) => lock[<<"sessionIndex", tx[r].s>>] = r
                /\ \A x \in Target(tx[r]) : session[x].status = "ACTIVE" => lock[<<"session", x>>] = r
           /\ tx[r].at = "tokens" => \A t \in ActiveTokensOf(Target(tx[r])) : lock[<<"token", t>>] = r
<1> DEFINE q == tx[r]
<1>1. \A i \in DOMAIN LockList(q) : \A row \in LockList(q)[i] : lock[row] = r
    BY AllLocked
<1> HIDE DEF q
<1>2. CASE q.at = "reserve"
    BY <1>1, <1>2 DEF LockList, q
<1>3. CASE q.at = "identity"
  <2>1. LockList(q) = << {<<"credential", q.s>>}, {<<"subject", q.s>>}, {<<"member", q.s>>} >>
    BY <1>3 DEF LockList, IdentityRows
  <2>2. lock[<<"credential", q.s>>] = r /\ lock[<<"subject", q.s>>] = r /\ lock[<<"member", q.s>>] = r
    BY <1>1, <2>1
  <2> QED
    BY <1>3, <2>2 DEF Account, q
<1>4. CASE q.at = "insert"
    BY <1>1, <1>4 DEF LockList, q
<1>5. CASE q.at \in {"token", "swap"}
  <2>1. LockList(q) = << {<<"token", q.t>>}, {<<"session", token[q.t].session>>},
                         {<<"subject", session[token[q.t].session].subject>>} >>
    BY <1>5 DEF LockList, TokenRows
  <2>2. lock[<<"token", q.t>>] = r /\ lock[<<"session", token[q.t].session>>] = r
    BY <1>1, <2>1
  <2> QED
    BY <1>5, <2>2 DEF q
<1>6. CASE q.at \in {"context", "self"}
  <2>1. \/ LockList(q) = << {<<"subject", q.s>>}, {<<"member", q.s>>} >>
        \/ LockList(q) = << {<<"member", q.s>>}, {<<"subject", q.s>>} >>
    BY <1>6 DEF LockList
  <2>2. lock[<<"subject", q.s>>] = r /\ lock[<<"member", q.s>>] = r
    BY <1>1, <2>1
  <2> QED
    BY <1>6, <2>2 DEF Account, q
<1>10. CASE q.at = "target"
  <2>1. LockList(q) = << {<<"subject", q.s>>}, {<<"member", q.s>>}, {<<"credential", q.s>>} >>
    BY <1>10 DEF LockList
  <2>2. lock[<<"credential", q.s>>] = r /\ lock[<<"subject", q.s>>] = r /\ lock[<<"member", q.s>>] = r
    BY <1>1, <2>1
  <2> QED
    BY <1>10, <2>2 DEF Account, q
<1>7. CASE q.at \in {"one", "secret"}
  <2>1. /\ q.at = "one" => LockList(q) = << {<<"session", q.x>>} >>
        /\ q.at = "secret" => LockList(q) = << {<<"credential", q.s>>} >>
    BY <1>7 DEF LockList
  <2>2. /\ q.at = "one" => lock[<<"session", q.x>>] = r
        /\ q.at = "secret" => lock[<<"credential", q.s>>] = r
    BY <1>1, <2>1
  <2> QED
    BY <1>7, <2>2 DEF q
<1>8. CASE q.at = "sessions"
  <2>1. LockList(q) = << IF BySubject(q) THEN {<<"sessionIndex", q.s>>} ELSE {},
                         {"session"} \X {x \in Target(q) : session[x].status = "ACTIVE"} >>
    BY <1>8 DEF LockList
  <2>2. /\ \A row \in IF BySubject(q) THEN {<<"sessionIndex", q.s>>} ELSE {} : lock[row] = r
        /\ \A row \in {"session"} \X {x \in Target(q) : session[x].status = "ACTIVE"} : lock[row] = r
    BY <1>1, <2>1
  <2> QED
    BY <1>8, <2>2 DEF q
<1>9. CASE q.at = "tokens"
  <2>1. LockList(q) = << IF BySubject(q) THEN {"session"} \X Target(q) ELSE {},
                         {"token"} \X ActiveTokensOf(Target(q)) >>
    BY <1>9 DEF LockList
  <2>2. \A row \in {"token"} \X ActiveTokensOf(Target(q)) : lock[row] = r
    BY <1>1, <2>1
  <2> QED
    BY <1>9, <2>2 DEF q
<1> QED
    BY <1>2, <1>3, <1>4, <1>5, <1>6, <1>7, <1>8, <1>9, <1>10 DEF q

LEMMA GoToFields ==
    ASSUME IInv, NEW r \in Slots, NEW at, GoTo(r, at)
    PROVE  /\ tx'[r].at = at /\ UNCHANGED tables /\ lock' = lock
           /\ tx'[r].op = tx[r].op /\ tx'[r].s = tx[r].s /\ tx'[r].x = tx[r].x
           /\ tx'[r].t = tx[r].t /\ tx'[r].k = tx[r].k /\ tx'[r].old = tx[r].old
           /\ tx'[r].p = tx[r].p /\ tx'[r].v = tx[r].v /\ tx'[r].w = tx[r].w
           /\ tx'[r].target = tx[r].target /\ tx'[r].sessions = tx[r].sessions
           /\ tx'[r].tokens = tx[r].tokens
<1>1. tx[r] \in Request
    BY DEF IInv, TypeOK
<1> QED
    BY <1>1 DEF GoTo, IInv, TypeOK, Request

LEMMA ReserveKeeps ==
    ASSUME IInv, NEW r \in Slots, ReserveKey(r)
    PROVE  IInv'
<1>1. CASE tx[r].k \in ledger
    BY <1>1, RejectKeeps DEF ReserveKey
<1>2. CASE tx[r].k \notin ledger
  <2>1. tx[r].at = "reserve" /\ tx[r].op \in Commands /\ lock[<<"key", tx[r].k>>] = r
    BY ReadyLocks DEF ReserveKey, Ready, IInv, Facts, StageOK, Commands, Revoking
  <2>2. PICK at \in {"target", "secret", "self", "sessions", "one"} :
            /\ GoTo(r, at)
            /\ tx[r].op = "status" => at = "target"
            /\ tx[r].op = "reset" => at = "secret"
            /\ tx[r].op = "change" => at = "self"
            /\ tx[r].op = "revoke" => at = IF tx[r].x = None THEN "sessions" ELSE "one"
    BY <1>2, <2>1 DEF ReserveKey, Commands
  <2>3. /\ tx'[r].at = at /\ UNCHANGED tables /\ lock' = lock
        /\ tx'[r].op = tx[r].op /\ tx'[r].k = tx[r].k /\ tx'[r].x = tx[r].x
        /\ tx'[r].sessions = tx[r].sessions /\ tx'[r].tokens = tx[r].tokens
    BY <2>2, GoToFields
  <2>4. StageOK(r)'
    BY <2>1, <2>2, <2>3 DEF StageOK, Commands, Revoking
  <2>5. KeyOK(r)'
    BY <1>2, <2>1, <2>3 DEF KeyOK, tables
  <2>6. CheckedOK(r)'
    BY <2>1, <2>2, <2>3 DEF CheckedOK, UsableOK, PasswordOK, SecretOK, RenewOK, ReuseOK,
       StatusOK, Revoking, SetsSecret, Commands
  <2>7. MatchedOK(r)'
    BY <2>1, <2>2, <2>3 DEF MatchedOK, IInv, Facts
  <2>8. at \in Steps
    BY <2>2 DEF Steps
  <2> QED
    BY <2>2, <2>4, <2>5, <2>6, <2>7, <2>8, GoToKeeps
<1> QED
    BY <1>1, <1>2


\* The check of an account, a password, a token or a version succeeds.
LEMMA CheckKeeps ==
    ASSUME IInv, NEW r \in Slots, NEW at \in Steps, GoTo(r, at), StageOK(r)',
           tx[r].at # "reserve", at \notin {"tokens", "commit"},
           tx[r].sessions = {} /\ tx[r].tokens = {},
           at = "grants" => tx[r].target = "ACTIVE",
           CheckedOK(r)'
    PROVE  IInv'
<1>1. /\ tx'[r].at = at /\ UNCHANGED tables /\ lock' = lock
      /\ tx'[r].op = tx[r].op /\ tx'[r].k = tx[r].k /\ tx'[r].target = tx[r].target
      /\ tx'[r].sessions = tx[r].sessions /\ tx'[r].tokens = tx[r].tokens
    BY GoToFields
<1>2. KeyOK(r)'
    BY <1>1 DEF KeyOK, IInv, Facts, tables
<1>3. MatchedOK(r)'
    BY <1>1 DEF MatchedOK
<1> QED
    BY <1>2, <1>3, GoToKeeps

LEMMA NothingMatched ==
    ASSUME IInv, NEW r \in Slots, tx[r].at \notin {"tokens", "grants", "commit"}
    PROVE  tx[r].sessions = {} /\ tx[r].tokens = {}
BY DEF IInv, Facts, MatchedOK

LEMMA LoginCheckKeeps ==
    ASSUME IInv, NEW r \in Slots, LoginCheck(r)
    PROVE  IInv'
<1>1. CASE Atomic!Usable(tx[r].s) /\ credential[tx[r].s].secret = tx[r].p
  <2>1. /\ GoTo(r, "insert") /\ tx[r].at = "identity" /\ tx[r].op = "login"
        /\ Account(r) /\ lock[<<"credential", tx[r].s>>] = r
    BY <1>1, ReadyLocks DEF LoginCheck, Ready, IInv, Facts, StageOK, Revoking
  <2>2. /\ tx'[r].at = "insert" /\ tx'[r].op = "login" /\ tx'[r].s = tx[r].s
        /\ tx'[r].p = tx[r].p /\ UNCHANGED tables /\ lock' = lock
    BY <2>1, GoToFields
  <2>3. CheckedOK(r)'
    BY <1>1, <2>1, <2>2 DEF CheckedOK, UsableOK, PasswordOK, SecretOK, RenewOK, ReuseOK,
       StatusOK, Revoking, SetsSecret, tables, Account, Atomic!Usable
  <2>4. StageOK(r)'
    BY <2>2 DEF StageOK
  <2> QED
    BY <2>1, <2>3, <2>4, NothingMatched, CheckKeeps DEF Steps
<1>2. CASE Reject(r)
    BY <1>2, RejectKeeps
<1> QED
    BY <1>1, <1>2 DEF LoginCheck

LEMMA TokenCheckKeeps ==
    ASSUME IInv, NEW r \in Slots,
           \/ RotateCheck(r)
           \/ ReuseCheck(r) /\ SelfUpdateAllowed
    PROVE  IInv'
<1> DEFINE t == tx[r].t
<1>1. CASE RotateCheck(r) /\ token[t].status = "ACTIVE" /\ session[token[t].session].status = "ACTIVE"
  <2>1. /\ GoTo(r, "swap") /\ tx[r].at = "token" /\ tx[r].op = "rotate"
        /\ lock[<<"session", token[t].session>>] = r
    BY <1>1, ReadyLocks DEF RotateCheck, Ready, IInv, Facts, StageOK, Revoking
  <2>2. /\ tx'[r].at = "swap" /\ tx'[r].op = "rotate" /\ tx'[r].t = t
        /\ UNCHANGED tables /\ lock' = lock
    BY <2>1, GoToFields
  <2>3. CheckedOK(r)'
    BY <1>1, <2>1, <2>2 DEF CheckedOK, UsableOK, PasswordOK, SecretOK, RenewOK, ReuseOK,
       StatusOK, Revoking, SetsSecret, tables
  <2>4. StageOK(r)'
    BY <2>2 DEF StageOK
  <2> QED
    BY <2>1, <2>3, <2>4, NothingMatched, CheckKeeps DEF Steps
<1>2. CASE ReuseCheck(r) /\ SelfUpdateAllowed
  <2>1. /\ GoTo(r, "sessions") /\ tx[r].at = "token" /\ tx[r].op = "rotate"
        /\ token[t].status = "USED"
    BY <1>2 DEF ReuseCheck, Ready, IInv, Facts, StageOK, Revoking
  <2>2. /\ tx'[r].at = "sessions" /\ tx'[r].op = "rotate" /\ tx'[r].t = t
        /\ UNCHANGED tables /\ lock' = lock
    BY <2>1, GoToFields
  <2>3. CheckedOK(r)'
    BY <1>2, <2>1, <2>2 DEF CheckedOK, UsableOK, PasswordOK, SecretOK, RenewOK, ReuseOK,
       StatusOK, Revoking, SetsSecret, tables
  <2>4. StageOK(r)'
    BY <2>2 DEF StageOK
  <2> QED
    BY <2>1, <2>3, <2>4, NothingMatched, CheckKeeps DEF Steps
<1>3. CASE Reject(r)
    BY <1>3, RejectKeeps
<1> QED
    BY <1>1, <1>2, <1>3 DEF RotateCheck

LEMMA AccountCheckKeeps ==
    ASSUME IInv, NEW r \in Slots, SwitchCheck(r) \/ ChangeCheck(r)
    PROVE  IInv'
<1>1. CASE Atomic!Usable(tx[r].s)
  <2>1. /\ Account(r)
        /\ \/ GoTo(r, "one") /\ tx[r].at = "context" /\ tx[r].op = "switch"
           \/ GoTo(r, "secret") /\ tx[r].at = "self" /\ tx[r].op = "change"
    BY <1>1, ReadyLocks DEF SwitchCheck, ChangeCheck, Ready, IInv, Facts, StageOK, Revoking
  <2>2. /\ \/ tx'[r].at = "one" /\ tx'[r].op = "switch"
           \/ tx'[r].at = "secret" /\ tx'[r].op = "change"
        /\ tx'[r].s = tx[r].s /\ UNCHANGED tables /\ lock' = lock
    BY <2>1, GoToFields
  <2>3. CheckedOK(r)'
    BY <1>1, <2>1, <2>2 DEF CheckedOK, UsableOK, PasswordOK, SecretOK, RenewOK, ReuseOK,
       StatusOK, Revoking, SetsSecret, tables, Account, Atomic!Usable
  <2>4. StageOK(r)'
    BY <2>2 DEF StageOK
  <2> QED
    BY <2>1, <2>3, <2>4, NothingMatched, CheckKeeps DEF Steps
<1>2. CASE Reject(r)
    BY <1>2, RejectKeeps
<1> QED
    BY <1>1, <1>2 DEF SwitchCheck, ChangeCheck

LEMMA StatusCheckKeeps ==
    ASSUME IInv, NEW r \in Slots, StatusCheck(r), subject[tx[r].s].status # tx[r].target
    PROVE  IInv'
<1>1. CASE subject[tx[r].s].version = tx[r].v /\ member[tx[r].s].version = tx[r].w
  <2>1. PICK at \in {"sessions", "grants"} :
            /\ GoTo(r, at) /\ tx[r].at = "target" /\ tx[r].op = "status"
            /\ at = IF tx[r].target = "DISABLED" THEN "sessions" ELSE "grants"
            /\ Account(r)
    BY <1>1, ReadyLocks DEF StatusCheck, Ready, IInv, Facts, StageOK, Revoking
  <2>2. /\ tx'[r].at = at /\ tx'[r].op = "status" /\ tx'[r].s = tx[r].s /\ tx'[r].v = tx[r].v
        /\ tx'[r].w = tx[r].w /\ tx'[r].target = tx[r].target /\ UNCHANGED tables /\ lock' = lock
    BY <2>1, GoToFields
  <2>3. CheckedOK(r)'
    BY <1>1, <2>1, <2>2 DEF CheckedOK, UsableOK, PasswordOK, SecretOK, RenewOK, ReuseOK,
       StatusOK, Revoking, SetsSecret, tables, Account
  <2>4. StageOK(r)'
    BY <2>1, <2>2 DEF StageOK
  <2>5. at = "grants" => tx[r].target = "ACTIVE"
    BY <2>1 DEF IInv, TypeOK, Request
  <2> QED
    BY <2>1, <2>3, <2>4, <2>5, NothingMatched, CheckKeeps DEF Steps
<1>2. CASE Reject(r)
    BY <1>2, RejectKeeps
<1> QED
    BY <1>1, <1>2 DEF StatusCheck

LEMMA SecretCheckKeeps ==
    ASSUME IInv, NEW r \in Slots, SecretCheck(r)
    PROVE  IInv'
<1>1. CASE /\ credential[tx[r].s].version = tx[r].v
           /\ tx[r].op = "change" => credential[tx[r].s].secret = tx[r].old
  <2>1. /\ GoTo(r, "sessions") /\ tx[r].at = "secret" /\ tx[r].op \in {"reset", "change"}
        /\ lock[<<"credential", tx[r].s>>] = r
        /\ tx[r].op = "change" => Account(r) /\ Atomic!Usable(tx[r].s)
    BY <1>1, ReadyLocks DEF SecretCheck, Ready, IInv, Facts, StageOK, Revoking, CheckedOK, UsableOK
  <2>2. /\ tx'[r].at = "sessions" /\ tx'[r].op = tx[r].op /\ tx'[r].s = tx[r].s
        /\ tx'[r].v = tx[r].v /\ tx'[r].old = tx[r].old /\ UNCHANGED tables /\ lock' = lock
    BY <2>1, GoToFields
  <2>3. UsableOK(r)' /\ PasswordOK(r)' /\ SecretOK(r)'
    BY <1>1, <2>1, <2>2 DEF UsableOK, PasswordOK, SecretOK, Revoking, tables, Account,
       Atomic!Usable
  <2>4. RenewOK(r)' /\ ReuseOK(r)' /\ StatusOK(r)'
    BY <2>1, <2>2 DEF RenewOK, ReuseOK, StatusOK
  <2>5. StageOK(r)'
    BY <2>1, <2>2 DEF StageOK, Revoking
  <2> QED
    BY <2>1, <2>3, <2>4, <2>5, NothingMatched, CheckKeeps DEF Steps, CheckedOK
<1>2. CASE Reject(r)
    BY <1>2, RejectKeeps
<1> QED
    BY <1>1, <1>2 DEF SecretCheck

LEMMA RevokeOneKeeps ==
    ASSUME IInv, NEW r \in Slots, RevokeOneCheck(r)
    PROVE  IInv'
<1>1. GoTo(r, "sessions") /\ tx[r].at = "one" /\ tx[r].op = "revoke"
    BY DEF RevokeOneCheck, Ready
<1>2. tx'[r].at = "sessions" /\ tx'[r].op = "revoke"
    BY <1>1, GoToFields
<1>3. CheckedOK(r)'
    BY <1>2 DEF CheckedOK, UsableOK, PasswordOK, SecretOK, RenewOK, ReuseOK, StatusOK, SetsSecret
<1>4. StageOK(r)'
    BY <1>2 DEF StageOK, Revoking
<1> QED
    BY <1>1, <1>3, <1>4, NothingMatched, CheckKeeps DEF Steps

LEMMA SameTarget ==
    ASSUME NEW r \in Slots, UNCHANGED tables, tx'[r].op = tx[r].op, tx'[r].s = tx[r].s,
           tx'[r].x = tx[r].x, tx'[r].t = tx[r].t
    PROVE  /\ Target(tx[r])' = Target(tx[r])
           /\ ActiveTokensOf(Target(tx[r]))' = ActiveTokensOf(Target(tx[r]))
           /\ BySubject(tx[r])' <=> BySubject(tx[r])
<1>1. Target(tx[r])' = Target(tx[r])
    BY DEF Target, tables, Atomic!SessionsOf
<1>2. BySubject(tx[r])' <=> BySubject(tx[r])
    BY DEF BySubject
<1> QED
    BY <1>1, <1>2 DEF ActiveTokensOf, tables

LEMMA RevokingRequests ==
    ASSUME IInv, NEW r \in Slots, tx[r].at \in {"sessions", "tokens", "commit"}
    PROVE  /\ tx[r].op \in {"rotate", "logout"} \cup Commands
           /\ tx[r].op = "status" => tx[r].target = "DISABLED"
           /\ Target(tx[r]) \subseteq SessionIds
<1>1. /\ tx[r].op \in {"rotate", "logout"} \cup Commands
      /\ tx[r].op = "status" => tx[r].target = "DISABLED"
    BY DEF IInv, Facts, StageOK, CheckedOK, StatusOK, Commands, Revoking
<1>2. Target(tx[r]) \subseteq SessionIds
  <2>1. /\ tx[r].op \in {"rotate", "logout"} => token[tx[r].t].session \in SessionIds
        /\ tx[r].op = "revoke" /\ tx[r].x # None => tx[r].x \in SessionIds
    BY Known DEF Opened, IInv, Facts, ArgsOK
  <2>2. Atomic!SessionsOf(tx[r].s) \subseteq SessionIds
    BY DEF Atomic!SessionsOf
  <2> QED
    BY <2>1, <2>2 DEF Target
<1> QED
    BY <1>1, <1>2

\* What an UPDATE of a revocation leaves to prove: what it has matched.
LEMMA UpdateKeeps ==
    ASSUME IInv, NEW r \in Slots, tx[r].at \in {"sessions", "tokens"},
           NEW q \in Request, tx' = [tx EXCEPT ![r] = q], UNCHANGED tables, lock' = lock,
           q.at = IF tx[r].at = "sessions" THEN "tokens"
                  ELSE IF tx[r].op = "status" THEN "grants" ELSE "commit",
           q.op = tx[r].op, q.s = tx[r].s, q.x = tx[r].x, q.t = tx[r].t, q.k = tx[r].k,
           q.old = tx[r].old, q.p = tx[r].p, q.target = tx[r].target, q.v = tx[r].v,
           q.w = tx[r].w, q.newSession = tx[r].newSession, q.newToken = tx[r].newToken,
           MatchedOK(r)'
    PROVE  IInv'
<1>1. tx'[r] = q
    BY DEF IInv, TypeOK
<1>2. StageOK(r)'
    BY <1>1, RevokingRequests DEF StageOK, IInv, Facts, Revoking, Commands
<1>3. ArgsOK(r)'
    BY <1>1 DEF ArgsOK, IInv, Facts, tables, Opened, Issued
<1>4. KeyOK(r)'
    BY <1>1 DEF KeyOK, IInv, Facts, tables
<1>5. CheckedOK(r)'
  <2>0. CheckedOK(r) /\ (Account(r) => Account(r)')
    BY <1>1 DEF IInv, Facts, Account
  <2>1. UsableOK(r)' /\ PasswordOK(r)'
    BY <1>1, <2>0 DEF UsableOK, PasswordOK, CheckedOK, tables, Atomic!Usable, Revoking
  <2>2. SecretOK(r)'
    BY <1>1, <2>0 DEF SecretOK, CheckedOK, tables, Revoking, SetsSecret
  <2>3. RenewOK(r)' /\ ReuseOK(r)'
    BY <1>1, <2>0 DEF RenewOK, ReuseOK, CheckedOK, tables, Revoking
  <2>4. StatusOK(r)'
    BY <1>1, <2>0, RevokingRequests DEF StatusOK, CheckedOK, tables
  <2> QED
    BY <2>1, <2>2, <2>3, <2>4 DEF CheckedOK
<1> QED
    BY <1>1, <1>2, <1>3, <1>4, <1>5, QuietKeeps DEF Facts, IInv, TypeOK

\* The UPDATE of the sessions matches the live ones the request is about.
LEMMA SessionRowsKeep ==
    ASSUME IInv, NEW r \in Slots, RevokeSessionRows(r)
    PROVE  IInv'
<1> DEFINE live == {x \in Target(tx[r]) : session[x].status = "ACTIVE"}
           q == [tx[r] EXCEPT !.at = "tokens", !.sessions = live]
<1>1. tx[r] \in Request
    BY DEF IInv, TypeOK
<1>2. /\ tx[r].at = "sessions" /\ UNCHANGED tables /\ lock' = lock
      /\ BySubject(tx[r]) => lock[<<"sessionIndex", tx[r].s>>] = r
      /\ \A x \in live : lock[<<"session", x>>] = r
    BY ReadyLocks DEF RevokeSessionRows, Ready
<1>3. live \subseteq SessionIds
    BY <1>2, RevokingRequests
<1>4. tx' = [tx EXCEPT ![r] = q] /\ tx'[r] = q
    BY DEF RevokeSessionRows, IInv, TypeOK
<1> HIDE DEF live
<1>5. /\ q \in Request /\ q.at = "tokens" /\ q.op = tx[r].op /\ q.s = tx[r].s /\ q.x = tx[r].x
      /\ q.t = tx[r].t /\ q.k = tx[r].k /\ q.old = tx[r].old /\ q.p = tx[r].p
      /\ q.target = tx[r].target /\ q.v = tx[r].v /\ q.w = tx[r].w
      /\ q.newSession = tx[r].newSession /\ q.newToken = tx[r].newToken
      /\ q.sessions = live
  <2>1. q \in Request
    <3>1. "tokens" \in Steps
      BY DEF Steps
    <3> QED
      BY <1>1, <1>3, <3>1 DEF Request
  <2> QED
    BY <1>1, <2>1 DEF Request
<1> HIDE DEF q
<1>6. Target(tx[r])' = Target(tx[r]) /\ (BySubject(tx[r])' <=> BySubject(tx[r]))
    BY <1>2, <1>4, <1>5, SameTarget
<1>7. {x \in Target(tx[r])' : session'[x].status = "ACTIVE"} = live
    BY <1>2, <1>6 DEF tables, live
<1>8. MatchedOK(r)'
    BY <1>2, <1>4, <1>5, <1>6, <1>7 DEF MatchedOK
<1> QED
    BY <1>2, <1>4, <1>5, <1>8, UpdateKeeps

\* The UPDATE of the refresh tokens matches the live ones of these sessions.
LEMMA TokenRowsKeep ==
    ASSUME IInv, NEW r \in Slots, RevokeTokenRows(r)
    PROVE  IInv'
<1> DEFINE matched == ActiveTokensOf(Target(tx[r]))
           at == IF tx[r].op = "status" THEN "grants" ELSE "commit"
           q == [tx[r] EXCEPT !.at = at, !.tokens = matched]
<1>1. tx[r] \in Request
    BY DEF IInv, TypeOK
<1>2. /\ tx[r].at = "tokens" /\ UNCHANGED tables /\ lock' = lock
      /\ \A t \in matched : lock[<<"token", t>>] = r
    BY ReadyLocks DEF RevokeTokenRows, Ready
<1>3. matched \subseteq Tokens
    BY DEF ActiveTokensOf
<1>4. tx' = [tx EXCEPT ![r] = q] /\ tx'[r] = q
    BY DEF RevokeTokenRows, IInv, TypeOK
<1> HIDE DEF matched
<1>5. /\ q \in Request /\ q.at = at /\ q.op = tx[r].op /\ q.s = tx[r].s /\ q.x = tx[r].x
      /\ q.t = tx[r].t /\ q.k = tx[r].k /\ q.old = tx[r].old /\ q.p = tx[r].p
      /\ q.target = tx[r].target /\ q.v = tx[r].v /\ q.w = tx[r].w
      /\ q.newSession = tx[r].newSession /\ q.newToken = tx[r].newToken
      /\ q.sessions = tx[r].sessions /\ q.tokens = matched
  <2>1. q \in Request
    <3>1. at \in Steps
      BY DEF Steps
    <3> HIDE DEF at
    <3> QED
      BY <1>1, <1>3, <3>1 DEF Request
  <2> QED
    BY <1>1, <2>1 DEF Request
<1> HIDE DEF q
<1>6. /\ Target(tx[r])' = Target(tx[r]) /\ (BySubject(tx[r])' <=> BySubject(tx[r]))
      /\ ActiveTokensOf(Target(tx[r]))' = matched
    BY <1>2, <1>4, <1>5, SameTarget DEF matched
<1>7. /\ BySubject(tx[r]) => lock[<<"sessionIndex", tx[r].s>>] = r
      /\ tx[r].sessions = {x \in Target(tx[r]) : session[x].status = "ACTIVE"}
      /\ \A x \in tx[r].sessions : lock[<<"session", x>>] = r
    BY <1>2 DEF MatchedOK, IInv, Facts
<1>8. {x \in Target(tx[r])' : session'[x].status = "ACTIVE"} = tx[r].sessions
    BY <1>2, <1>6, <1>7 DEF tables
<1>9. ~(at = "grants" /\ tx[r].target = "ACTIVE")
    BY <1>2, RevokingRequests
<1>10. MatchedOK(r)'
    BY <1>2, <1>4, <1>5, <1>6, <1>7, <1>8, <1>9 DEF MatchedOK
<1> QED
    BY <1>2, <1>4, <1>5, <1>10, UpdateKeeps

-----------------------------------------------------------------------------
(* Commits.                                                                *)

\* A transaction that commits as one step of AuthSessions and has written only
\* rows it has locked leaves what every other one has found as it was.
LEMMA CommitKeeps ==
    ASSUME IInv, NEW r \in Slots, Release(r), [Atomic!Next]_(Atomic!vars), Respects(r), RowsOK'
    PROVE  IInv'
<1>1. /\ Facts(r)' /\ tx' \in [Slots -> Request] /\ tx' = [tx EXCEPT ![r] = Idle]
      /\ lock' \in [Rows -> Slots \cup {None}]
      /\ \A p \in Slots \ {r} :
            tx'[p] = tx[p] /\ \A row \in Rows : lock[row] = p => lock'[row] = p
    BY ReleasedFacts
<1>2. TypeOK'
    BY <1>1, TablesStep DEF IInv, TypeOK
<1>3. \A p \in Slots \ {r} : Facts(p)'
    BY <1>1, RespectsSpares, FactsKeep
<1>4. DrawnOnce'
  <2>1. tx'[r].newSession = None /\ tx'[r].newToken = None
    BY <1>1 DEF Idle, IInv, TypeOK
  <2> QED
    BY <1>1, <2>1 DEF DrawnOnce, IInv
<1> QED
    BY <1>1, <1>2, <1>3, <1>4 DEF IInv

Commit(r) == [Atomic!Next]_(Atomic!vars) /\ Respects(r) /\ RowsOK'

LEMMA LoginCommits ==
    ASSUME IInv, NEW r \in Slots, LoginCommit(r)
    PROVE  Commit(r) /\ Release(r)
<1> DEFINE s == tx[r].s  p == tx[r].p  x == tx[r].newSession  t == tx[r].newToken
<1>1. /\ tx[r].op = "login" /\ tx[r].at = "insert"
      /\ s \in Subjects /\ p \in Secrets /\ x \in SessionIds \ Opened /\ t \in Tokens \ Issued
      /\ Atomic!Usable(s) /\ credential[s].secret = p /\ lock[<<"sessionIndex", s>>] = r
    BY ReadyLocks DEF LoginCommit, Ready, IInv, Facts, StageOK, ArgsOK, CheckedOK, UsableOK,
       PasswordOK, Revoking
<1>2. /\ session' = [session EXCEPT ![x] =
             [status |-> "ACTIVE", subject |-> s, context |-> 1, expires |-> 1]]
      /\ token' = [token EXCEPT ![t] = [status |-> "ACTIVE", session |-> x, expires |-> 1]]
      /\ proved' = [proved EXCEPT ![x] = p]
      /\ UNCHANGED <<subject, member, credential, grant, revision, ledger, parent, reused>>
      /\ Release(r)
    BY DEF LoginCommit
<1> HIDE DEF s, p, x, t
<1>3. Atomic!Login(s, p, x, t)
    BY <1>1, <1>2 DEF Atomic!Login, Atomic!Accept, Atomic!accountVars, Opened, Issued
<1>4. Atomic!Next
    BY <1>1, <1>3 DEF Atomic!Next
<1>5. /\ \A y \in SessionIds \ {x} : session'[y] = session[y]
      /\ session'[x].subject = s /\ session'[x].context = 1 /\ session'[x].expires = 1
      /\ x \in Opened'
      /\ \A u \in Tokens \ {t} : token'[u] = token[u]
      /\ token'[t].session = x /\ token'[t].expires = 1 /\ t \in Issued'
    BY <1>1, <1>2 DEF IInv, TypeOK, Atomic!TypeOK, Opened, Issued
<1>6. Opened' = Opened \cup {x} /\ Issued' = Issued \cup {t}
    BY <1>1, <1>5 DEF Opened, Issued
<1>7. Respects(r)
    BY <1>1, <1>2, <1>5, <1>6 DEF Respects, x, t
<1>8. RowsOK'
  <2>1. \A y \in SessionIds \ Opened' : session'[y].subject = None
    BY <1>5, <1>6 DEF RowsOK, IInv
  <2>2. \A y \in Opened' : /\ session'[y].subject \in Subjects /\ session'[y].expires = 1
                           /\ session'[y].context \in 1..MaxContext
    <3>1. 1 \in 1..MaxContext
      BY ContextAssumption
    <3>2. Opened \subseteq SessionIds
      BY DEF Opened
    <3> QED
      BY <1>1, <1>5, <1>6, <3>1, <3>2 DEF RowsOK, IInv
  <2>3. \A u \in Issued' : token'[u].session \in Opened' /\ token'[u].expires = 1
    <3>1. Issued \subseteq Tokens
      BY DEF Issued
    <3> QED
      BY <1>1, <1>5, <1>6, <3>1 DEF RowsOK, IInv
  <2> QED
    BY <2>1, <2>2, <2>3 DEF RowsOK
<1> QED
    BY <1>2, <1>4, <1>7, <1>8 DEF Commit

LEMMA RotateCommits ==
    ASSUME IInv, NEW r \in Slots, RotateCommit(r), token[tx[r].t].status = "ACTIVE"
    PROVE  Commit(r) /\ Release(r)
<1> DEFINE t == tx[r].t  u == tx[r].newToken  x == token[t].session
<1>1. /\ tx[r].op = "rotate" /\ tx[r].at = "swap" /\ t \in Issued /\ x \in Opened
      /\ lock[<<"token", t>>] = r /\ lock[<<"session", x>>] = r
      /\ session[x].status = "ACTIVE" /\ u \in Tokens \ Issued /\ t # u
    BY ReadyLocks, Known DEF RotateCommit, Ready, IInv, Facts, StageOK, ArgsOK, CheckedOK,
       RenewOK, Revoking
<1>2. /\ token' = [token EXCEPT ![t].status = "USED",
                                ![u] = [status |-> "ACTIVE", session |-> x, expires |-> 1]]
      /\ session' = [session EXCEPT ![x].expires = 1]
      /\ parent' = [parent EXCEPT ![u] = t]
      /\ UNCHANGED <<subject, member, credential, grant, revision, ledger, proved, reused>>
      /\ Release(r)
    BY DEF RotateCommit, Exchange, Successor
<1>3. token[t].status = "ACTIVE" /\ token[t].expires = 1 /\ session[x].expires = 1
    BY <1>1 DEF IInv, RowsOK
<1> HIDE DEF t, u
<1>4. Atomic!RotateRefresh(t, u)
    BY <1>1, <1>2, <1>3 DEF Atomic!RotateRefresh, Atomic!Renewable, Atomic!Exchange,
       Atomic!Successor, Atomic!accountVars, Issued
<1>5. Atomic!Next
    BY <1>1, <1>4 DEF Atomic!Next, Issued
<1>6. /\ \A y \in SessionIds :
            /\ session'[y].status = session[y].status /\ session'[y].subject = session[y].subject
            /\ session'[y].context = session[y].context
            /\ session'[y].expires = IF y = x THEN 1 ELSE session[y].expires
      /\ \A y \in SessionIds \ {x} : session'[y] = session[y]
    BY <1>1, <1>2 DEF IInv, TypeOK, Atomic!TypeOK, Atomic!Session
<1>7. /\ \A v \in Tokens \ {t, u} : token'[v] = token[v]
      /\ token'[t].session = x /\ token'[t].status = "USED" /\ token'[t].expires = 1
      /\ token'[u].session = x /\ token'[u].status = "ACTIVE" /\ token'[u].expires = 1
    BY <1>1, <1>2, <1>3 DEF IInv, TypeOK, Atomic!TypeOK, Atomic!Token, Issued
<1>8. Opened' = Opened /\ Issued' = Issued \cup {u}
    BY <1>1, <1>6, <1>7 DEF Opened, Issued
<1>9. Respects(r)
  <2>1. \A y \in Opened :
            /\ session'[y] # session[y] => lock[<<"session", y>>] = r
            /\ y \in Opened' /\ session'[y].subject = session[y].subject
            /\ session'[y].status = "ACTIVE" => session[y].status = "ACTIVE"
    BY <1>1, <1>6, <1>8 DEF Opened
  <2>2. \A y \in SessionIds \ Opened : session'[y] = session[y]
    BY <1>1, <1>6
  <2>3. \A v \in Issued :
            /\ token'[v] # token[v] => lock[<<"token", v>>] = r
            /\ v \in Issued' /\ token'[v].session = token[v].session
            /\ token[v].status # "ACTIVE" => token'[v].status = token[v].status
    BY <1>1, <1>3, <1>7, <1>8 DEF Issued
  <2>4. \A v \in Tokens \ Issued :
            token'[v] # token[v] => v = u /\ token'[v].session = x
    BY <1>1, <1>7
  <2> QED
    BY <1>1, <1>2, <2>1, <2>2, <2>3, <2>4 DEF Respects, u
<1>10. RowsOK'
  <2>1. \A y \in SessionIds \ Opened' : session'[y].subject = None
    BY <1>6, <1>8 DEF RowsOK, IInv
  <2>2. \A y \in Opened' : /\ session'[y].subject \in Subjects /\ session'[y].expires = 1
                           /\ session'[y].context \in 1..MaxContext
    BY <1>6, <1>8 DEF RowsOK, IInv, Opened
  <2>3. \A v \in Issued' : token'[v].session \in Opened' /\ token'[v].expires = 1
    BY <1>1, <1>7, <1>8 DEF RowsOK, IInv, Issued
  <2> QED
    BY <2>1, <2>2, <2>3 DEF RowsOK
<1> QED
    BY <1>2, <1>5, <1>9, <1>10 DEF Commit

\* Commits that write no session and no token.
LEMMA OtherTables ==
    ASSUME IInv, NEW r \in Slots, UNCHANGED <<session, token>>,
           \A s \in Subjects :
                /\ subject'[s] # subject[s] => lock[<<"subject", s>>] = r
                /\ member'[s] # member[s] => lock[<<"member", s>>] = r
                /\ credential'[s] # credential[s] => lock[<<"credential", s>>] = r,
           \A k \in Keys : k \in ledger' \ ledger => lock[<<"key", k>>] = r
    PROVE  Respects(r) /\ RowsOK'
<1>1. Opened' = Opened /\ Issued' = Issued
    BY DEF Opened, Issued
<1> QED
    BY <1>1 DEF Respects, RowsOK, IInv

LEMMA ReuseCommits ==
    ASSUME IInv, NEW r \in Slots, ReuseCheck(r), ~SelfUpdateAllowed
    PROVE  Commit(r) /\ Release(r)
<1> DEFINE t == tx[r].t
<1>1. /\ tx[r].op = "rotate" /\ t \in Tokens /\ token[t].status = "USED"
      /\ reused' = reused \cup {t} /\ Release(r)
      /\ UNCHANGED <<subject, member, credential, grant, revision, session, token, ledger, proved, parent>>
    BY DEF ReuseCheck, Ready, IInv, Facts, StageOK, ArgsOK, Revoking, Issued
<1>2. Atomic!ReuseDetected(t)
    BY <1>1 DEF Atomic!ReuseDetected, Atomic!Replay, Atomic!EndFamily, Atomic!tableVars,
       Atomic!accountVars
<1>3. Atomic!Next
    BY <1>1, <1>2 DEF Atomic!Next
<1> QED
    BY <1>1, <1>3, OtherTables DEF Commit

LEMMA SwitchCommits ==
    ASSUME IInv, NEW r \in Slots, SwitchCommit(r), session[tx[r].x].status = "ACTIVE",
           session[tx[r].x].context = tx[r].v
    PROVE  Commit(r) /\ Release(r)
<1> DEFINE x == tx[r].x  v == tx[r].v
<1>1. /\ tx[r].op = "switch" /\ tx[r].at = "one" /\ x \in Opened /\ tx[r].s = session[x].subject
      /\ v \in 1..MaxContext /\ v < MaxContext /\ Atomic!Usable(session[x].subject)
      /\ lock[<<"session", x>>] = r
    BY ReadyLocks DEF SwitchCommit, Ready, IInv, Facts, ArgsOK, CheckedOK, UsableOK
<1>2. /\ session' = [session EXCEPT ![x].context = v + 1] /\ Release(r)
      /\ UNCHANGED <<subject, member, credential, grant, revision, token, ledger, proved, parent, reused>>
    BY DEF SwitchCommit
<1>3. session[x].status = "ACTIVE" /\ session[x].context = v /\ session[x].expires = 1
    BY <1>1 DEF IInv, RowsOK
<1> HIDE DEF x, v
<1>4. Atomic!SwitchContext(x, v)
    BY <1>1, <1>2, <1>3 DEF Atomic!SwitchContext, Atomic!accountVars, Atomic!ghostVars
<1>5. Atomic!Next
    BY <1>1, <1>4 DEF Atomic!Next, Opened
<1>6. /\ \A y \in SessionIds :
            /\ session'[y].status = session[y].status /\ session'[y].subject = session[y].subject
            /\ session'[y].expires = session[y].expires
      /\ \A y \in SessionIds \ {x} : session'[y] = session[y]
      /\ session'[x].context = v + 1
    BY <1>1, <1>2 DEF IInv, TypeOK, Atomic!TypeOK, Atomic!Session, Opened
<1>7. Opened' = Opened /\ Issued' = Issued /\ Opened \subseteq SessionIds /\ x \in Opened
    BY <1>1, <1>2, <1>6 DEF Opened, Issued
<1>8. Respects(r)
    BY <1>1, <1>2, <1>6, <1>7 DEF Respects
<1>9. RowsOK'
  <2>1. v + 1 \in 1..MaxContext
    BY <1>1, ContextAssumption
  <2> QED
    BY <1>2, <1>6, <1>7, <2>1 DEF RowsOK, IInv
<1> QED
    BY <1>2, <1>5, <1>8, <1>9 DEF Commit

LEMMA StatusReachedCommits ==
    ASSUME IInv, NEW r \in Slots, StatusCheck(r), subject[tx[r].s].status = tx[r].target,
           subject[tx[r].s].version = tx[r].v, member[tx[r].s].version = tx[r].w
    PROVE  Commit(r) /\ Release(r)
<1> DEFINE s == tx[r].s  k == tx[r].k  target == tx[r].target
<1>1. /\ tx[r].op = "status" /\ tx[r].at = "target" /\ s \in Subjects /\ k \in Keys
      /\ target \in {"ACTIVE", "DISABLED"} /\ k \notin ledger /\ lock[<<"key", k>>] = r
    BY Known DEF StatusCheck, Ready, IInv, Facts, StageOK, ArgsOK, KeyOK, Commands, Request,
       Revoking
<1>2. /\ ledger' = ledger \cup {k} /\ Release(r)
      /\ UNCHANGED <<subject, member, credential, grant, revision, session, token, proved, parent, reused>>
    BY DEF StatusCheck
<1> HIDE DEF k
<1>3. Atomic!ChangeUserStatus(k, s, target, subject[s].version, member[s].version)
    BY <1>1, <1>2 DEF Atomic!ChangeUserStatus, Atomic!Reserve, Atomic!accountVars,
       Atomic!tableVars, Atomic!ghostVars
<1>4. Atomic!Next
    BY <1>1, <1>3 DEF Atomic!Next
<1> QED
    BY <1>1, <1>2, <1>4, OtherTables DEF Commit

\* The writes of a revocation are those of AuthSessions, and in locked rows.
LEMMA RevokeWrites ==
    ASSUME IInv, NEW r \in Slots, NEW X, X \subseteq SessionIds, RevokeMatched(tx[r]),
           tx[r].sessions = {x \in X : session[x].status = "ACTIVE"},
           tx[r].tokens = ActiveTokensOf(X),
           \A x \in tx[r].sessions : lock[<<"session", x>>] = r,
           \A t \in tx[r].tokens : lock[<<"token", t>>] = r
    PROVE  /\ Atomic!Revoke(X)
           /\ \A x \in SessionIds :
                /\ session'[x] # session[x] => lock[<<"session", x>>] = r /\ x \in Opened
                /\ session'[x].subject = session[x].subject
                /\ session'[x].status = "ACTIVE" => session[x].status = "ACTIVE"
           /\ \A t \in Tokens :
                /\ token'[t] # token[t] => lock[<<"token", t>>] = r /\ t \in Issued
                /\ token'[t].session = token[t].session
                /\ token[t].status # "ACTIVE" => token'[t].status = token[t].status
           /\ Opened' = Opened /\ Issued' = Issued /\ RowsOK'
<1>1. /\ \A x \in SessionIds :
            x \in tx[r].sessions <=> x \in X /\ session[x].status = "ACTIVE"
      /\ \A t \in Tokens :
            t \in tx[r].tokens <=> token[t].session \in X /\ token[t].status \in {"ACTIVE"}
    BY DEF ActiveTokensOf
<1>2. /\ session' = [x \in SessionIds |-> IF x \in tx[r].sessions
                                          THEN [session[x] EXCEPT !.status = "REVOKED"]
                                          ELSE session[x]]
      /\ token' = [t \in Tokens |-> IF t \in tx[r].tokens
                                    THEN [token[t] EXCEPT !.status = "REVOKED"]
                                    ELSE token[t]]
    BY DEF RevokeMatched, RevokeRows
<1>3. Atomic!Revoke(X)
    BY <1>1, <1>2 DEF Atomic!Revoke, Atomic!EndSessions, Atomic!EndTokens
<1>4. /\ \A x \in SessionIds : session[x] \in Atomic!Session
      /\ \A t \in Tokens : token[t] \in Atomic!Token
    BY DEF IInv, TypeOK, Atomic!TypeOK
<1>5. \A x \in SessionIds :
            /\ session'[x].status = IF x \in tx[r].sessions THEN "REVOKED" ELSE session[x].status
            /\ session'[x].subject = session[x].subject
            /\ session'[x].context = session[x].context
            /\ session'[x].expires = session[x].expires
            /\ x \notin tx[r].sessions => session'[x] = session[x]
    BY <1>2, <1>4 DEF Atomic!Session
<1>6. \A t \in Tokens :
            /\ token'[t].status = IF t \in tx[r].tokens THEN "REVOKED" ELSE token[t].status
            /\ token'[t].session = token[t].session
            /\ token'[t].expires = token[t].expires
            /\ t \notin tx[r].tokens => token'[t] = token[t]
    BY <1>2, <1>4 DEF Atomic!Token
<1>7. Opened' = Opened /\ Issued' = Issued
    BY <1>1, <1>5, <1>6 DEF Opened, Issued
<1>8. RowsOK'
  <2>1. Opened \subseteq SessionIds /\ Issued \subseteq Tokens
    BY DEF Opened, Issued
  <2> QED
    BY <1>5, <1>6, <1>7, <2>1 DEF RowsOK, IInv
<1> QED
    BY <1>1, <1>3, <1>5, <1>6, <1>7, <1>8 DEF Opened, Issued

LEMMA StatusCommits ==
    ASSUME IInv, NEW r \in Slots, StatusCommit(r)
    PROVE  Commit(r) /\ Release(r)
<1> DEFINE s == tx[r].s  k == tx[r].k  target == tx[r].target
           X == IF target = "DISABLED" THEN Atomic!SessionsOf(s) ELSE {}
<1>1. /\ tx[r].op = "status" /\ tx[r].at = "grants" /\ s \in Subjects /\ k \in Keys
      /\ target \in {"ACTIVE", "DISABLED"} /\ k \notin ledger /\ lock[<<"key", k>>] = r
      /\ Account(r) /\ subject[s].version = tx[r].v /\ member[s].version = tx[r].w
      /\ subject[s].status # target
    BY Known DEF StatusCommit, Ready, IInv, Facts, StageOK, ArgsOK, KeyOK, CheckedOK, StatusOK,
       Commands, Request, Revoking
<1>2. /\ subject' = [subject EXCEPT ![s] = [status |-> target, version |-> subject[s].version + 1]]
      /\ member' = [member EXCEPT ![s] = [status |-> Atomic!MemberTarget(target),
                                          version |-> member[s].version + 1]]
      /\ Atomic!CarryGrants(s, member[s].version)
      /\ ledger' = ledger \cup {k} /\ RevokeMatched(tx[r]) /\ Release(r)
      /\ UNCHANGED <<credential, proved, parent, reused>>
    BY <1>1 DEF StatusCommit, Atomic!MemberTarget, Atomic!CarryGrants
<1>3. /\ tx[r].sessions = {x \in X : session[x].status = "ACTIVE"}
      /\ tx[r].tokens = ActiveTokensOf(X)
      /\ \A x \in tx[r].sessions : lock[<<"session", x>>] = r
      /\ \A t \in tx[r].tokens : lock[<<"token", t>>] = r
    BY <1>1 DEF IInv, Facts, MatchedOK, Target, ActiveTokensOf
<1>4. X \subseteq SessionIds
    BY DEF Atomic!SessionsOf
<1>5. Atomic!Revoke(X)
    BY <1>2, <1>3, <1>4, RevokeWrites
<1>6. target = "ACTIVE" => UNCHANGED <<session, token>>
    BY <1>5 DEF Atomic!Revoke, Atomic!EndSessions, Atomic!EndTokens, IInv, TypeOK, Atomic!TypeOK
<1>7. Atomic!ChangeUserStatus(k, s, target, subject[s].version, member[s].version)
    BY <1>1, <1>2, <1>5, <1>6 DEF Atomic!ChangeUserStatus, Atomic!Reserve, Atomic!RevokeAll,
       Atomic!tableVars, Atomic!ghostVars
<1>8. Atomic!Next
    BY <1>1, <1>7 DEF Atomic!Next
<1>9. Respects(r) /\ RowsOK'
  <2>1. \A c \in Subjects : /\ subject'[c] # subject[c] => lock[<<"subject", c>>] = r
                            /\ member'[c] # member[c] => lock[<<"member", c>>] = r
                            /\ credential'[c] # credential[c] => lock[<<"credential", c>>] = r
    BY <1>1, <1>2 DEF Account, IInv, TypeOK, Atomic!TypeOK
  <2> HIDE DEF X
  <2>2. /\ \A x \in SessionIds :
            /\ session'[x] # session[x] => lock[<<"session", x>>] = r /\ x \in Opened
            /\ session'[x].subject = session[x].subject
            /\ session'[x].status = "ACTIVE" => session[x].status = "ACTIVE"
        /\ \A t \in Tokens :
            /\ token'[t] # token[t] => lock[<<"token", t>>] = r /\ t \in Issued
            /\ token'[t].session = token[t].session
            /\ token[t].status # "ACTIVE" => token'[t].status = token[t].status
        /\ Opened' = Opened /\ Issued' = Issued /\ RowsOK'
    BY <1>2, <1>3, <1>4, RevokeWrites
  <2>3. Opened \subseteq SessionIds /\ Issued \subseteq Tokens
    BY DEF Opened, Issued
  <2> QED
    BY <1>1, <1>2, <2>1, <2>2, <2>3 DEF Respects
<1> QED
    BY <1>2, <1>8, <1>9 DEF Commit

\* A credential is its secret and its version.
LEMMA CredentialFields ==
    ASSUME NEW S, NEW c \in [secret : S, version : Nat], NEW old, old = c.secret
    PROVE  c = [secret |-> old, version |-> c.version]
OBVIOUS

LEMMA RevokeCommits ==
    ASSUME IInv, NEW r \in Slots, RevokeCommit(r)
    PROVE  Commit(r) /\ Release(r)
<1> DEFINE q == tx[r]  X == Target(q)
<1>1. /\ q.at = "commit" /\ q.op \in {"rotate", "logout", "reset", "change", "revoke"}
      /\ X \subseteq SessionIds /\ RevokeMatched(q) /\ Release(r)
      /\ UNCHANGED <<subject, member, grant, revision, parent>>
  <2>1. q.op # "status"
    BY DEF RevokeCommit, Ready, IInv, Facts, StageOK, Revoking
  <2> QED
    BY <2>1, RevokingRequests DEF RevokeCommit, Ready, Commands
<1>2. /\ q.sessions = {x \in X : session[x].status = "ACTIVE"}
      /\ q.tokens = ActiveTokensOf(X)
      /\ \A x \in q.sessions : lock[<<"session", x>>] = r
      /\ \A t \in q.tokens : lock[<<"token", t>>] = r
    BY <1>1 DEF IInv, Facts, MatchedOK
<1> HIDE DEF X
<1>3. /\ Atomic!Revoke(X)
      /\ \A x \in SessionIds :
            /\ session'[x] # session[x] => lock[<<"session", x>>] = r /\ x \in Opened
            /\ session'[x].subject = session[x].subject
            /\ session'[x].status = "ACTIVE" => session[x].status = "ACTIVE"
      /\ \A t \in Tokens :
            /\ token'[t] # token[t] => lock[<<"token", t>>] = r /\ t \in Issued
            /\ token'[t].session = token[t].session
            /\ token[t].status # "ACTIVE" => token'[t].status = token[t].status
      /\ Opened' = Opened /\ Issued' = Issued /\ RowsOK'
    BY <1>1, <1>2, RevokeWrites
<1>4. q.op \in Commands => /\ q.k \in Keys /\ q.k \notin ledger /\ lock[<<"key", q.k>>] = r
                          /\ ledger' = ledger \cup {q.k}
    BY <1>1 DEF IInv, Facts, ArgsOK, KeyOK, Commands, RevokeCommit
<1>5. q.op \notin Commands => UNCHANGED ledger
    BY <1>1 DEF RevokeCommit, Commands
<1>6. /\ ~SetsSecret(q) => UNCHANGED credential
      /\ SetsSecret(q) => /\ q.s \in Subjects /\ q.p \in Secrets
                          /\ credential[q.s].version = q.v
                          /\ lock[<<"credential", q.s>>] = r
                          /\ credential' = [credential EXCEPT
                                ![q.s] = [secret |-> q.p, version |-> credential[q.s].version + 1]]
  <2>1. SetsSecret(q) => /\ q.s \in Subjects /\ q.p \in Secrets
                         /\ credential[q.s].version = q.v /\ lock[<<"credential", q.s>>] = r
    BY <1>1, Known DEF SetsSecret, IInv, Facts, ArgsOK, CheckedOK, SecretOK, Revoking, Commands
  <2> QED
    BY <2>1 DEF RevokeCommit
<1>7. /\ q.op # "change" => UNCHANGED proved
      /\ q.op # "rotate" => UNCHANGED reused
    BY DEF RevokeCommit
<1>8. Atomic!Next
  <2>1. CASE q.op = "rotate"
    <3>1. /\ q.t \in Tokens /\ token[q.t].status = "USED" /\ SelfUpdateAllowed
          /\ X = {token[q.t].session} /\ reused' = reused \cup {q.t} /\ ~SetsSecret(q)
      BY <1>1, <2>1, Known DEF IInv, Facts, CheckedOK, ReuseOK, Revoking, Target, SetsSecret,
         RevokeCommit, X
    <3>2. Atomic!ReuseDetected(q.t)
      BY <1>1, <1>3, <1>5, <1>6, <1>7, <2>1, <3>1 DEF Atomic!ReuseDetected, Atomic!Replay,
         Atomic!EndFamily, Atomic!accountVars, Commands
    <3> QED
      BY <3>1, <3>2 DEF Atomic!Next
  <2>2. CASE q.op = "logout"
    <3>1. q.t \in Tokens /\ token[q.t].status # "ABSENT" /\ X = {token[q.t].session} /\ ~SetsSecret(q)
      BY <1>1, <2>2 DEF IInv, Facts, ArgsOK, Issued, Target, SetsSecret, X
    <3>2. Atomic!Logout(q.t)
      BY <1>1, <1>3, <1>5, <1>6, <1>7, <2>2, <3>1 DEF Atomic!Logout, Atomic!accountVars,
         Atomic!ghostVars, Commands
    <3> QED
      BY <3>1, <3>2 DEF Atomic!Next
  <2>3. CASE q.op = "reset"
    <3>1. X = Atomic!SessionsOf(q.s) /\ SetsSecret(q) /\ q.op \in Commands
      BY <2>3 DEF Target, SetsSecret, X, Commands
    <3>2. Atomic!ResetCredential(q.k, q.s, q.p, credential[q.s].version)
      BY <1>1, <1>3, <1>4, <1>6, <1>7, <2>3, <3>1 DEF Atomic!ResetCredential, Atomic!Reserve,
         Atomic!RevokeAll, Atomic!ghostVars
    <3> QED
      BY <1>4, <1>6, <3>1, <3>2 DEF Atomic!Next
  <2>4. CASE q.op = "change"
    <3>1. /\ X = Atomic!SessionsOf(q.s) \ {q.x} /\ SetsSecret(q) /\ q.op \in Commands
          /\ proved' = [proved EXCEPT ![q.x] = q.p]
      BY <2>4 DEF Target, SetsSecret, X, Commands, RevokeCommit
    <3>2. /\ q.x \in SessionIds /\ session[q.x].status # "ABSENT" /\ q.s = session[q.x].subject
          /\ q.old \in Secrets /\ q.old # q.p /\ Atomic!Usable(q.s)
          /\ credential[q.s].secret = q.old
      BY <1>1, <2>4 DEF IInv, Facts, ArgsOK, Opened, CheckedOK, UsableOK, SecretOK, SetsSecret,
         Revoking
    <3>3. credential[q.s] = [secret |-> q.old, version |-> credential[q.s].version]
      <4>1. credential[q.s] \in [secret : Secrets, version : Nat]
        BY <1>6, <3>1 DEF IInv, TypeOK, Atomic!TypeOK, Atomic!Credential
      <4> QED
        BY <3>2, <4>1, CredentialFields
    <3>4. Atomic!ChangeOwnCredential(q.k, q.x, q.old, q.p, credential[q.s].version)
      BY <1>1, <1>3, <1>4, <1>6, <1>7, <2>4, <3>1, <3>2, <3>3
         DEF Atomic!ChangeOwnCredential, Atomic!Reserve
    <3> QED
      BY <1>4, <1>6, <3>1, <3>2, <3>4 DEF Atomic!Next
  <2>5. CASE q.op = "revoke"
    <3>1. q.op \in Commands /\ ~SetsSecret(q) /\ q.s \in Subjects
      BY <2>5, Known DEF Commands, SetsSecret
    <3>2. CASE q.x = None
      <4>1. X = Atomic!SessionsOf(q.s)
        BY <2>5, <3>2 DEF Target, X
      <4>2. Atomic!RevokeSessions(q.k, q.s, Atomic!SessionsOf(q.s))
        BY <1>1, <1>3, <1>4, <1>6, <1>7, <2>5, <3>1, <4>1 DEF Atomic!RevokeSessions,
           Atomic!Reserve, Atomic!accountVars, Atomic!ghostVars
      <4> QED
        BY <1>4, <3>1, <4>2 DEF Atomic!Next
    <3>3. CASE q.x # None
      <4>1. /\ X = {q.x} /\ q.x \in SessionIds /\ session[q.x].status # "ABSENT"
            /\ q.s = session[q.x].subject /\ q.x \in Atomic!SessionsOf(q.s)
        BY <2>5, <3>3 DEF Target, X, IInv, Facts, ArgsOK, Opened, Atomic!SessionsOf
      <4>2. Atomic!RevokeSessions(q.k, session[q.x].subject, {q.x})
        BY <1>1, <1>3, <1>4, <1>6, <1>7, <2>5, <3>1, <4>1 DEF Atomic!RevokeSessions,
           Atomic!Reserve, Atomic!accountVars, Atomic!ghostVars
      <4> QED
        BY <1>4, <3>1, <4>1, <4>2 DEF Atomic!Next
    <3> QED
      BY <3>2, <3>3
  <2> QED
    BY <1>1, <2>1, <2>2, <2>3, <2>4, <2>5
<1>9. Respects(r)
  <2>1. \A c \in Subjects : /\ UNCHANGED <<subject[c], member[c]>>
                            /\ credential'[c] # credential[c] => lock[<<"credential", c>>] = r
    BY <1>1, <1>6 DEF IInv, TypeOK, Atomic!TypeOK
  <2>2. \A k \in Keys : k \in ledger' \ ledger => lock[<<"key", k>>] = r
    BY <1>4, <1>5
  <2>3. Opened \subseteq SessionIds /\ Issued \subseteq Tokens
    BY DEF Opened, Issued
  <2> QED
    BY <1>3, <2>1, <2>2, <2>3 DEF Respects
<1> QED
    BY <1>1, <1>3, <1>8, <1>9 DEF Commit

-----------------------------------------------------------------------------
(* The invariant and the refinement.                                       *)

\* Nothing that leaves the committed tables alone is seen from outside.
LEMMA Unseen == UNCHANGED tables => UNCHANGED Atomic!vars
BY DEF tables, Atomic!vars, Atomic!accountVars

LEMMA Committed ==
    ASSUME IInv, NEW r \in Slots, Commit(r), Release(r)
    PROVE  IInv' /\ [Atomic!Next]_(Atomic!vars)
BY CommitKeeps DEF Commit

LEMMA Refused ==
    ASSUME IInv, NEW r \in Slots, Reject(r)
    PROVE  IInv' /\ [Atomic!Next]_(Atomic!vars)
BY RejectKeeps, Unseen DEF Reject

\* Every statement keeps the invariant, and is one transaction of AuthSessions
\* if it is the last of a transaction that commits, and invisible if it is not.
LEMMA StatementStep ==
    ASSUME IInv, NEW r \in Slots, Statement(r)
    PROVE  IInv' /\ [Atomic!Next]_(Atomic!vars)
<1>1. CASE ReserveKey(r)
    BY <1>1, ReserveKeeps, Unseen DEF ReserveKey, GoTo, Reject
<1>2. CASE LoginCheck(r)
    BY <1>2, LoginCheckKeeps, Unseen DEF LoginCheck, GoTo, Reject
<1>3. CASE LoginCommit(r)
    BY <1>3, LoginCommits, Committed
<1>4. CASE RotateCheck(r)
    BY <1>4, TokenCheckKeeps, Unseen DEF RotateCheck, GoTo, Reject
<1>5. CASE ReuseCheck(r)
  <2>1. CASE SelfUpdateAllowed
    BY <1>5, <2>1, TokenCheckKeeps, Unseen DEF ReuseCheck, GoTo
  <2>2. CASE ~SelfUpdateAllowed
    BY <1>5, <2>2, ReuseCommits, Committed
  <2> QED
    BY <2>1, <2>2
<1>6. CASE RotateCommit(r)
  <2>1. CASE token[tx[r].t].status = "ACTIVE"
    BY <1>6, <2>1, RotateCommits, Committed
  <2>2. CASE token[tx[r].t].status # "ACTIVE"
    BY <1>6, <2>2, Refused DEF RotateCommit
  <2> QED
    BY <2>1, <2>2
<1>7. CASE SwitchCheck(r) \/ ChangeCheck(r)
    BY <1>7, AccountCheckKeeps, Unseen DEF SwitchCheck, ChangeCheck, GoTo, Reject
<1>8. CASE SwitchCommit(r)
  <2>1. CASE session[tx[r].x].status = "ACTIVE" /\ session[tx[r].x].context = tx[r].v
    BY <1>8, <2>1, SwitchCommits, Committed
  <2>2. CASE ~(session[tx[r].x].status = "ACTIVE" /\ session[tx[r].x].context = tx[r].v)
    BY <1>8, <2>2, Refused DEF SwitchCommit
  <2> QED
    BY <2>1, <2>2
<1>9. CASE StatusCheck(r)
  <2>1. CASE subject[tx[r].s].status # tx[r].target
    BY <1>9, <2>1, StatusCheckKeeps, Unseen DEF StatusCheck, GoTo, Reject
  <2>2. CASE subject[tx[r].s].version # tx[r].v \/ member[tx[r].s].version # tx[r].w
    BY <1>9, <2>2, Refused DEF StatusCheck
  <2>3. CASE /\ subject[tx[r].s].status = tx[r].target
             /\ subject[tx[r].s].version = tx[r].v /\ member[tx[r].s].version = tx[r].w
    BY <1>9, <2>3, StatusReachedCommits, Committed
  <2> QED
    BY <2>1, <2>2, <2>3
<1>10. CASE StatusCommit(r)
    BY <1>10, StatusCommits, Committed
<1>11. CASE SecretCheck(r)
    BY <1>11, SecretCheckKeeps, Unseen DEF SecretCheck, GoTo, Reject
<1>12. CASE RevokeOneCheck(r)
    BY <1>12, RevokeOneKeeps, Unseen DEF RevokeOneCheck, GoTo
<1>13. CASE RevokeSessionRows(r)
    BY <1>13, SessionRowsKeep, Unseen DEF RevokeSessionRows
<1>14. CASE RevokeTokenRows(r)
  <2>1. UNCHANGED tables
    BY <1>14 DEF RevokeTokenRows
  <2> QED
    BY <1>14, <2>1, TokenRowsKeep, Unseen
<1>15. CASE RevokeCommit(r)
    BY <1>15, RevokeCommits, Committed
<1> QED
    BY ONLY Statement(r), <1>1, <1>2, <1>3, <1>4, <1>5, <1>6, <1>7, <1>8, <1>9, <1>10, <1>11, <1>12, <1>13,
       <1>14, <1>15 DEF Statement

LEMMA Begins ==
    ASSUME NEW r \in Slots, Arrive(r)
    PROVE  UNCHANGED tables
<1>1. \A q : Begin(r, q) => UNCHANGED tables
    BY DEF Begin
<1>2. BeginLogin(r) => UNCHANGED tables
    BY <1>1, Zenon DEF BeginLogin
<1>3. BeginRotate(r) => UNCHANGED tables
    BY <1>1, Zenon DEF BeginRotate
<1>4. BeginLogout(r) => UNCHANGED tables
    BY <1>1, Zenon DEF BeginLogout
<1>5. BeginSwitch(r) => UNCHANGED tables
    BY <1>1, Zenon DEF BeginSwitch
<1>6. BeginStatus(r) => UNCHANGED tables
    BY <1>1, Zenon DEF BeginStatus
<1>7. BeginReset(r) => UNCHANGED tables
    BY <1>1, Zenon DEF BeginReset
<1>8. BeginChange(r) => UNCHANGED tables
    BY <1>1, Zenon DEF BeginChange
<1>9. BeginRevoke(r) => UNCHANGED tables
    BY <1>1, Zenon DEF BeginRevoke
<1> QED
    BY <1>2, <1>3, <1>4, <1>5, <1>6, <1>7, <1>8, <1>9 DEF Arrive

LEMMA Step == IInv /\ [Next]_vars => IInv' /\ [Atomic!Next]_(Atomic!vars)
<1> SUFFICES ASSUME IInv, [Next]_vars
             PROVE  IInv' /\ [Atomic!Next]_(Atomic!vars)
    OBVIOUS
<1>1. ASSUME NEW r \in Slots, Arrive(r)
      PROVE  IInv' /\ [Atomic!Next]_(Atomic!vars)
    BY <1>1, ArriveKeeps, Begins, Unseen
<1>2. ASSUME NEW r \in Slots, LockRow(r)
      PROVE  IInv' /\ [Atomic!Next]_(Atomic!vars)
    BY <1>2, LockRowKeeps, Unseen DEF LockRow
<1>3. ASSUME NEW r \in Slots, Statement(r)
      PROVE  IInv' /\ [Atomic!Next]_(Atomic!vars)
    BY <1>3, StatementStep
<1>4. ASSUME NEW r \in Slots, DeadlockVictim(r) \/ RollBack(r)
      PROVE  IInv' /\ [Atomic!Next]_(Atomic!vars)
    BY <1>4, Refused DEF DeadlockVictim, RollBack
<1>5. ASSUME UNCHANGED vars
      PROVE  IInv' /\ [Atomic!Next]_(Atomic!vars)
  <2>1. UNCHANGED tables /\ UNCHANGED <<tx, lock>>
    BY <1>5 DEF vars, tables
  <2>2. TypeOK'
    BY <2>1, Unseen, TablesStep DEF IInv, TypeOK
  <2>3. RowsOK' /\ DrawnOnce'
    BY <2>1 DEF IInv, RowsOK, tables, Opened, Issued, DrawnOnce
  <2>4. \A p \in Slots : Facts(p)'
    BY <2>1, NothingSpares, FactsKeep
  <2> QED
    BY <2>1, <2>2, <2>3, <2>4, Unseen DEF IInv
<1> QED
    BY <1>1, <1>2, <1>3, <1>4, <1>5 DEF Next

LEMMA InitIInv == Init => IInv
<1> SUFFICES ASSUME Init PROVE IInv
    OBVIOUS
<1>1. Atomic!TypeOK
  <2>1. Proofs!Init
    BY DEF Init, Atomic!Init, Proofs!Init, Atomic!NoSession, Proofs!NoSession, Atomic!NoToken,
           Proofs!NoToken
  <2>2. Proofs!TypeOK
    BY <2>1, NoneAssumption, ContextAssumption, ServerAssumption, Proofs!TypeInit
  <2> QED
    BY <2>2 DEF Atomic!TypeOK, Proofs!TypeOK, Atomic!Subject, Proofs!Subject, Atomic!Member,
           Proofs!Member, Atomic!Credential, Proofs!Credential, Atomic!Session,
           Proofs!Session, Atomic!Token, Proofs!Token
<1>2. TypeOK
    BY <1>1, IdleOK DEF Init, TypeOK
<1>3. /\ Opened = {} /\ Issued = {}
      /\ \A x \in SessionIds : session[x].subject = None
    BY DEF Init, Atomic!Init, Atomic!NoSession, Atomic!NoToken, Opened, Issued
<1>4. RowsOK
    BY <1>3 DEF RowsOK
<1>5. \A r \in Slots : tx[r] = Idle
    BY DEF Init
<1>6. DrawnOnce
    BY <1>5 DEF DrawnOnce, Idle
<1>7. \A r \in Slots : Facts(r)
    BY <1>5 DEF Idle, Facts, StageOK, ArgsOK, KeyOK, Commands, Revoking, CheckedOK, UsableOK,
       PasswordOK, SecretOK, RenewOK, ReuseOK, StatusOK, MatchedOK, SetsSecret
<1> QED
    BY <1>2, <1>4, <1>6, <1>7 DEF IInv

\* In every reachable state what each open transaction has read of the rows it
\* has locked is still so, and every table row is well formed.
THEOREM InvariantHolds == Spec => []IInv
<1>1. IInv /\ [Next]_vars => IInv'
    BY Step
<1> QED
    BY <1>1, InitIInv, PTL DEF Spec

THEOREM TypeCorrect == Spec => []TypeOK
<1>1. IInv => TypeOK
    BY DEF IInv
<1> QED
    BY <1>1, InvariantHolds, PTL

\* The transactions of user_lifecycle.go and auth.go, whatever the order of
\* their statements, do what AuthSessions does in single steps.
THEOREM Refinement == Spec => Serializable
<1>1. Init => Atomic!Init
    BY DEF Init
<1>2. IInv /\ [Next]_vars => [Atomic!Next]_(Atomic!vars)
    BY Step
<1> QED
    BY <1>1, <1>2, InvariantHolds, PTL DEF Spec, Serializable, Atomic!Spec

\* So what is proved of AuthSessions is true while its transactions interleave:
\* no live session of a disabled account or of an outdated password, however a
\* login's statements fall between those of a disabling or a password change.
THEOREM AccountsStaySafe ==
    Spec => [](Proofs!DisabledIsLoggedOut /\ Proofs!LiveSessionsKnowThePassword
               /\ Proofs!OneLiveTokenPerLiveSession /\ Proofs!RotatedAtMostOnce)
<1>1. Atomic!Init => Proofs!Init
    BY DEF Atomic!Init, Proofs!Init, Atomic!NoSession, Proofs!NoSession, Atomic!NoToken,
           Proofs!NoToken
<1>2. Serializable => Proofs!Spec
    BY <1>1, SameNext, PTL DEF Serializable, Atomic!Spec, Proofs!Spec
<1>3. Proofs!Spec => []Proofs!IInv
    BY NoneAssumption, ContextAssumption, ServerAssumption, Proofs!InvariantHolds
<1>4. Proofs!IInv => /\ Proofs!DisabledIsLoggedOut /\ Proofs!LiveSessionsKnowThePassword
                     /\ Proofs!OneLiveTokenPerLiveSession /\ Proofs!RotatedAtMostOnce
    BY DEF Proofs!IInv
<1> QED
    BY <1>2, <1>3, <1>4, Refinement, PTL
=============================================================================
