-------------------------- MODULE AuthTransactions --------------------------
(***************************************************************************)
(* The transactions of AuthSessions statement by statement, as MySQL runs  *)
(* them under REPEATABLE READ: every request opens a transaction, each of  *)
(* its locking statements takes its row locks one at a time and holds them *)
(* until the end, a plain SELECT reads the last committed rows, and the    *)
(* writes become visible at COMMIT.  A transaction that waits in a cycle   *)
(* is rolled back by the server (error 1213) and                           *)
(* DirectoryRepository.transaction hands that error to the caller.         *)
(*                                                                         *)
(* A statement is modelled with the fewest rows it must lock under any     *)
(* query plan: a plan that scans more rows only removes interleavings.     *)
(* Time stands still here; expiry is left to AuthSessions.                 *)
(*                                                                         *)
(* An operator no action uses is its neighbour with a fault in it.         *)
(***************************************************************************)
EXTENDS Naturals, FiniteSets, Sequences

CONSTANTS Subjects, Secrets, SessionIds, Tokens, Keys, None, MaxContext,
          SelfUpdateAllowed,
          Slots,        \* HTTP handlers that run at the same time
          Operations    \* which requests the handlers may receive

VARIABLES subject, member, credential, grant, revision, session, token,
          ledger, proved, parent, reused,   \* the committed tables of AuthSessions
          tx,           \* per slot: the request it serves and how far it got
          lock          \* per row: the slot whose transaction holds its lock

tables == <<subject, member, credential, grant, revision, session, token,
            ledger, proved, parent, reused>>
vars == <<subject, member, credential, grant, revision, session, token,
          ledger, proved, parent, reused, tx, lock>>

Atomic == INSTANCE AuthSessions WITH now <- 0, MaxTime <- 0, RefreshTTL <- 1

AllOperations == {"login", "rotate", "logout", "switch", "status", "reset",
                  "change", "revoke"}
ASSUME OperationsAssumption == Operations \subseteq AllOperations
ASSUME NoneAssumption ==
    None \notin Subjects \cup Secrets \cup SessionIds \cup Tokens \cup Keys \cup Slots
ASSUME ContextAssumption == MaxContext \in Nat \ {0}
ASSUME ServerAssumption == SelfUpdateAllowed \in BOOLEAN

Steps == {"none", "reserve", "identity", "insert", "token", "swap", "context", "one", "target",
          "self", "secret", "sessions", "tokens", "grants", "commit"}

\* A request: its arguments, the statement it is at, the ids drawn for the rows
\* it may insert and the rows its revoking UPDATEs matched.
Request == [op : Operations \cup {"idle"}, at : Steps,
            s : Subjects \cup {None}, x : SessionIds \cup {None}, t : Tokens \cup {None},
            k : Keys \cup {None}, old : Secrets \cup {None}, p : Secrets \cup {None},
            target : {"ACTIVE", "DISABLED"}, v : Nat, w : Nat,
            newSession : SessionIds \cup {None}, newToken : Tokens \cup {None},
            sessions : SUBSET SessionIds, tokens : SUBSET Tokens]
Idle == [op |-> "idle", at |-> "none", s |-> None, x |-> None, t |-> None, k |-> None,
         old |-> None, p |-> None, target |-> "ACTIVE", v |-> 0, w |-> 0,
         newSession |-> None, newToken |-> None, sessions |-> {}, tokens |-> {}]
Rows == ({"subject", "member", "credential", "sessionIndex"} \X Subjects)
        \cup ({"session"} \X SessionIds) \cup ({"token"} \X Tokens)
        \cup ({"key"} \X Keys) \cup {<<"domain", None>>}

Init == /\ Atomic!Init
        /\ tx = [r \in Slots |-> Idle]
        /\ lock = [row \in Rows |-> None]

-----------------------------------------------------------------------------
(* Row locks                                                               *)

\* The sessions that the revoking statements of a request address, as a
\* current read evaluates their WHERE clause.
Target(q) ==
    CASE q.op \in {"logout", "rotate"}        -> {token[q.t].session}
      [] q.op = "revoke" /\ q.x # None        -> {q.x}
      [] q.op = "change"                      -> Atomic!SessionsOf(q.s) \ {q.x}
      [] OTHER                                -> Atomic!SessionsOf(q.s)

ActiveTokensOf(X) == {t \in Tokens : token[t].session \in X /\ token[t].status = "ACTIVE"}

SetsSecret(q) == q.op \in {"reset", "change"}
BySubject(q) == q.op \in {"status", "reset", "change"} \/ (q.op = "revoke" /\ q.x = None)

\* Login's FOR UPDATE, and the same query without it.
IdentityRowsUnlocked(q) == << >>
IdentityRows(q) == << {<<"credential", q.s>>}, {<<"subject", q.s>>}, {<<"member", q.s>>} >>

TokenRows(q) == << {<<"token", q.t>>}, {<<"session", token[q.t].session>>},
                   {<<"subject", session[token[q.t].session].subject>>} >>

\* The rows the statement at q.at locks, as a sequence of sets: a join locks
\* table after table, the rows of one table in any order.
LockList(q) ==
    CASE q.at = "reserve"  -> << {<<"key", q.k>>} >>
      [] q.at = "identity" -> IdentityRows(q)
      [] q.at = "insert"   -> << {<<"sessionIndex", q.s>>} >>
      [] q.at \in {"token", "swap"} -> TokenRows(q)
      [] q.at = "context"  -> << {<<"subject", q.s>>}, {<<"member", q.s>>} >>
      [] q.at = "one"      -> << {<<"session", q.x>>} >>
      [] q.at = "target"   -> << {<<"subject", q.s>>}, {<<"member", q.s>>}, {<<"credential", q.s>>} >>
      [] q.at = "self"     -> << {<<"member", q.s>>}, {<<"subject", q.s>>} >>
      [] q.at = "secret"   -> << {<<"credential", q.s>>} >>
      [] q.at = "sessions" -> << IF BySubject(q) THEN {<<"sessionIndex", q.s>>} ELSE {},
                                 {"session"} \X {x \in Target(q) : session[x].status = "ACTIVE"} >>
      [] q.at = "tokens"   -> << IF BySubject(q) THEN {"session"} \X Target(q) ELSE {},
                                 {"token"} \X ActiveTokensOf(Target(q)) >>
      [] q.at = "grants"   -> << IF grant[q.s] = q.w THEN {<<"domain", None>>} ELSE {} >>
      [] OTHER             -> << >>

\* What slot r still has to lock before its current statement runs: the
\* missing rows of the first table in the list that has any.
Missing(r) ==
    LET list == LockList(tx[r])
        open == {i \in DOMAIN list : \E row \in list[i] : lock[row] # r}
    IN IF open = {} THEN {}
       ELSE {row \in list[CHOOSE i \in open : \A j \in open : i <= j] : lock[row] # r}

Busy(r) == tx[r].op # "idle"
Ready(r, at) == Busy(r) /\ tx[r].at = at /\ Missing(r) = {}

LockRow(r) ==
    /\ Busy(r)
    /\ \E row \in Missing(r) : lock[row] = None /\ lock' = [lock EXCEPT ![row] = r]
    /\ UNCHANGED <<tables, tx>>

\* A set of transactions none of which can go on before another one of the set
\* ends; the smallest such sets are the wait cycles InnoDB looks for.
Stuck(D) ==
    /\ D # {}
    /\ \A r \in D : /\ Busy(r)
                    /\ Missing(r) # {}
                    /\ \A row \in Missing(r) : lock[row] \in D
InCycle(r) ==
    \E D \in SUBSET Slots : r \in D /\ Stuck(D) /\ \A E \in SUBSET D : Stuck(E) => E = D

-----------------------------------------------------------------------------
(* Ends of a transaction                                                   *)

Release(r) == /\ tx' = [tx EXCEPT ![r] = Idle]
              /\ lock' = [row \in Rows |-> IF lock[row] = r THEN None ELSE lock[row]]
GoTo(r, at) == tx' = [tx EXCEPT ![r].at = at] /\ UNCHANGED <<tables, lock>>

\* An error returned by the work function rolls the transaction back.
RejectWithoutRollback(r) == tx' = [tx EXCEPT ![r] = Idle] /\ UNCHANGED <<tables, lock>>
Reject(r) == Release(r) /\ UNCHANGED tables

\* The server kills one transaction of a wait cycle; nothing retries it.
DeadlockVictim(r) == InCycle(r) /\ Reject(r)

\* The request's context ends, the connection drops or the process dies before
\* COMMIT.
RollBack(r) == Busy(r) /\ ~InCycle(r) /\ Reject(r)

RevokeRows(X, T, final) ==
    /\ session' = [x \in SessionIds |-> IF x \in X THEN [session[x] EXCEPT !.status = final]
                                                   ELSE session[x]]
    /\ token' = [t \in Tokens |-> IF t \in T THEN [token[t] EXCEPT !.status = final]
                                              ELSE token[t]]
RevokeMatchedToExpired(q) == RevokeRows(q.sessions, q.tokens, "EXPIRED")
RevokeUnlessReuse(q) == IF q.op = "rotate" THEN UNCHANGED <<session, token>>
                        ELSE RevokeRows(q.sessions, q.tokens, "REVOKED")

\* The revoking writes of a request: exactly the rows its two UPDATEs matched.
RevokeMatched(q) == RevokeRows(q.sessions, q.tokens, "REVOKED")

-----------------------------------------------------------------------------
(* Requests                                                                *)

\* Ids a login or a rotation draws are random, so no two requests share them.
FreshSessions == {x \in SessionIds : /\ session[x].status = "ABSENT"
                                     /\ \A r \in Slots : tx[r].newSession # x}
FreshTokens   == {t \in Tokens : /\ token[t].status = "ABSENT"
                                 /\ \A r \in Slots : tx[r].newToken # t}
Issued        == {t \in Tokens : token[t].status # "ABSENT"}
Opened        == {x \in SessionIds : session[x].status # "ABSENT"}

Begin(r, request) ==
    /\ ~Busy(r) /\ request.op \in Operations
    /\ tx' = [tx EXCEPT ![r] = request]
    /\ UNCHANGED <<tables, lock>>

BeginLogin(r) == \E s \in Subjects, p \in Secrets, x \in FreshSessions, t \in FreshTokens :
    Begin(r, [Idle EXCEPT !.op = "login", !.at = "identity", !.s = s, !.p = p,
                          !.newSession = x, !.newToken = t])
\* Only an ACTIVE token can get the successor that was drawn for it.
BeginRotate(r) == \E t \in Issued :
    \E u \in IF token[t].status = "ACTIVE" THEN FreshTokens ELSE {None} :
        Begin(r, [Idle EXCEPT !.op = "rotate", !.at = "token", !.t = t, !.newToken = u])
BeginLogout(r) == \E t \in Issued :
    Begin(r, [Idle EXCEPT !.op = "logout", !.at = "sessions", !.t = t])
BeginSwitch(r) == \E x \in Opened :
    /\ session[x].context < MaxContext
    /\ Begin(r, [Idle EXCEPT !.op = "switch", !.at = "context", !.x = x,
                          !.s = session[x].subject, !.v = session[x].context])
\* Commands carry the versions their sender last saw, here those of the moment
\* the request is sent, and a key that may have been used before.
BeginStatus(r) == \E k \in Keys, s \in Subjects, target \in {"ACTIVE", "DISABLED"} :
    Begin(r, [Idle EXCEPT !.op = "status", !.at = "reserve", !.k = k, !.s = s,
                          !.target = target, !.v = subject[s].version,
                          !.w = member[s].version])
BeginReset(r) == \E k \in Keys, s \in Subjects, p \in Secrets :
    Begin(r, [Idle EXCEPT !.op = "reset", !.at = "reserve", !.k = k, !.s = s,
                          !.p = p, !.v = credential[s].version])
BeginChange(r) == \E k \in Keys, x \in Opened, old \in Secrets, p \in Secrets :
    /\ old # p
    /\ Begin(r, [Idle EXCEPT !.op = "change", !.at = "reserve", !.k = k, !.x = x,
                          !.s = session[x].subject, !.old = old, !.p = p,
                          !.v = credential[session[x].subject].version])
BeginRevoke(r) == \E k \in Keys, s \in Subjects, x \in Opened \cup {None} :
    /\ x # None => session[x].subject = s
    /\ Begin(r, [Idle EXCEPT !.op = "revoke", !.at = "reserve", !.k = k, !.s = s, !.x = x])

-----------------------------------------------------------------------------
(* Statements                                                              *)

\* reserveIdempotency: the INSERT waits for an unfinished holder of the key; a
\* key that is in the ledger by then answers from it.
ReserveKey(r) ==
    /\ Ready(r, "reserve")
    /\ IF tx[r].k \in ledger THEN Reject(r)
       ELSE GoTo(r, CASE tx[r].op = "status" -> "target"
                      [] tx[r].op = "reset"  -> "secret"
                      [] tx[r].op = "change" -> "self"
                      [] tx[r].op = "revoke" -> IF tx[r].x = None THEN "sessions" ELSE "one")

LoginCheck(r) ==
    /\ Ready(r, "identity")
    /\ IF Atomic!Usable(tx[r].s) /\ credential[tx[r].s].secret = tx[r].p
       THEN GoTo(r, "insert") ELSE Reject(r)

LoginCommit(r) ==
    LET q == tx[r] IN
    /\ Ready(r, "insert")
    /\ session' = [session EXCEPT ![q.newSession] =
           [status |-> "ACTIVE", subject |-> q.s, context |-> 1, expires |-> 1]]
    /\ token' = [token EXCEPT ![q.newToken] =
           [status |-> "ACTIVE", session |-> q.newSession, expires |-> 1]]
    /\ proved' = [proved EXCEPT ![q.newSession] = q.p]
    /\ Release(r)
    /\ UNCHANGED <<subject, member, credential, grant, revision, ledger, parent, reused>>

RotateCheck(r) ==
    LET t == tx[r].t IN
    /\ Ready(r, "token")
    /\ token[t].status # "USED"
    /\ IF token[t].status = "ACTIVE" /\ session[token[t].session].status = "ACTIVE"
       THEN GoTo(r, "swap") ELSE Reject(r)

\* The token has been rotated before.  MySQL refuses the UPDATE that would
\* revoke the family (error 1093), which rolls the transaction back.
ReuseCheck(r) ==
    LET t == tx[r].t IN
    /\ Ready(r, "token")
    /\ token[t].status = "USED"
    /\ IF SelfUpdateAllowed THEN GoTo(r, "sessions")
       ELSE /\ Release(r)
            /\ reused' = reused \cup {t}
            /\ UNCHANGED <<subject, member, credential, grant, revision, session, token,
                           ledger, proved, parent>>

Successor(q) == [status |-> "ACTIVE", session |-> token[q.t].session, expires |-> 1]
Exchange(q) == token' = [token EXCEPT ![q.t].status = "USED", ![q.newToken] = Successor(q)]

\* The UPDATE that consumes the token checks once more that it is ACTIVE.
RotateCommit(r) ==
    LET q == tx[r] IN
    /\ Ready(r, "swap")
    /\ IF token[q.t].status = "ACTIVE"
       THEN /\ Exchange(q)
            /\ session' = [session EXCEPT ![token[q.t].session].expires = 1]
            /\ parent' = [parent EXCEPT ![q.newToken] = q.t]
            /\ Release(r)
            /\ UNCHANGED <<subject, member, credential, grant, revision, ledger, proved, reused>>
       ELSE Reject(r)

SwitchCheck(r) ==
    /\ Ready(r, "context")
    /\ IF Atomic!Usable(tx[r].s) THEN GoTo(r, "one") ELSE Reject(r)

SwitchCommit(r) ==
    LET q == tx[r] IN
    /\ Ready(r, "one") /\ q.op = "switch"
    /\ IF session[q.x].status = "ACTIVE" /\ session[q.x].context = q.v
       THEN /\ session' = [session EXCEPT ![q.x].context = q.v + 1]
            /\ Release(r)
            /\ UNCHANGED <<subject, member, credential, grant, revision, token, ledger,
                           proved, parent, reused>>
       ELSE Reject(r)

\* ChangeUserStatus after its SELECT ... FOR UPDATE.  The conditional UPDATEs
\* that follow repeat these comparisons on rows that are locked by then.
StatusCheck(r) ==
    LET q == tx[r] IN
    /\ Ready(r, "target")
    /\ IF subject[q.s].version # q.v \/ member[q.s].version # q.w THEN Reject(r)
       ELSE IF subject[q.s].status = q.target
            THEN /\ Release(r) /\ ledger' = ledger \cup {q.k}
                 /\ UNCHANGED <<subject, member, credential, grant, revision, session, token,
                                proved, parent, reused>>
            ELSE GoTo(r, IF q.target = "DISABLED" THEN "sessions" ELSE "grants")

StatusCommit(r) ==
    LET q == tx[r] IN
    /\ Ready(r, "grants")
    /\ subject' = [subject EXCEPT ![q.s] = [status |-> q.target, version |-> q.v + 1]]
    /\ member' = [member EXCEPT
           ![q.s] = [status  |-> IF q.target = "ACTIVE" THEN "ACTIVE" ELSE "SUSPENDED",
                     version |-> q.w + 1]]
    /\ grant' = IF grant[q.s] = q.w THEN [grant EXCEPT ![q.s] = q.w + 1] ELSE grant
    /\ revision' = IF grant[q.s] = q.w THEN revision + 1 ELSE revision
    /\ RevokeMatched(q)
    /\ ledger' = ledger \cup {q.k}
    /\ Release(r)
    /\ UNCHANGED <<credential, proved, parent, reused>>

\* ChangeOwnCredential's check of member and subject, then of the credential,
\* which ResetCredential shares.
ChangeCheck(r) ==
    /\ Ready(r, "self")
    /\ IF Atomic!Usable(tx[r].s) THEN GoTo(r, "secret") ELSE Reject(r)

SecretCheck(r) ==
    LET q == tx[r] IN
    /\ Ready(r, "secret")
    /\ IF /\ credential[q.s].version = q.v
          /\ q.op = "change" => credential[q.s].secret = q.old
       THEN GoTo(r, "sessions") ELSE Reject(r)

\* revokeSessions of one session: SELECT ... FOR UPDATE found the row.
RevokeOneCheck(r) ==
    /\ Ready(r, "one") /\ tx[r].op = "revoke"
    /\ GoTo(r, "sessions")

\* UPDATE identity_session ... WHERE status='ACTIVE'.
RevokeSessionRows(r) ==
    /\ Ready(r, "sessions")
    /\ tx' = [tx EXCEPT ![r].at = "tokens",
                        ![r].sessions = {x \in Target(tx[r]) : session[x].status = "ACTIVE"}]
    /\ UNCHANGED <<tables, lock>>

\* UPDATE identity_refresh_token ... WHERE status='ACTIVE', the last statement
\* of every revoking request but ChangeUserStatus.
RevokeTokenRows(r) ==
    /\ Ready(r, "tokens")
    /\ tx' = [tx EXCEPT ![r].at = IF tx[r].op = "status" THEN "grants" ELSE "commit",
                        ![r].tokens = ActiveTokensOf(Target(tx[r]))]
    /\ UNCHANGED <<tables, lock>>

RevokeCommit(r) ==
    LET q == tx[r] IN
    /\ Ready(r, "commit")
    /\ RevokeMatched(q)
    /\ credential' = IF SetsSecret(q)
                     THEN [credential EXCEPT ![q.s] = [secret |-> q.p, version |-> q.v + 1]]
                     ELSE credential
    /\ proved' = IF q.op = "change" THEN [proved EXCEPT ![q.x] = q.p] ELSE proved
    /\ reused' = IF q.op = "rotate" THEN reused \cup {q.t} ELSE reused
    /\ ledger' = IF q.op \in {"reset", "change", "revoke"} THEN ledger \cup {q.k} ELSE ledger
    /\ Release(r)
    /\ UNCHANGED <<subject, member, grant, revision, parent>>

-----------------------------------------------------------------------------
Arrive(r) ==
    \/ BeginLogin(r) \/ BeginRotate(r) \/ BeginLogout(r) \/ BeginSwitch(r)
    \/ BeginStatus(r) \/ BeginReset(r) \/ BeginChange(r) \/ BeginRevoke(r)

Statement(r) ==
    \/ ReserveKey(r)
    \/ LoginCheck(r) \/ LoginCommit(r)
    \/ RotateCheck(r) \/ ReuseCheck(r) \/ RotateCommit(r)
    \/ SwitchCheck(r) \/ SwitchCommit(r)
    \/ StatusCheck(r) \/ StatusCommit(r)
    \/ ChangeCheck(r) \/ SecretCheck(r) \/ RevokeOneCheck(r)
    \/ RevokeSessionRows(r) \/ RevokeTokenRows(r) \/ RevokeCommit(r)

Next == \E r \in Slots :
    Arrive(r) \/ LockRow(r) \/ Statement(r) \/ DeadlockVictim(r) \/ RollBack(r)

\* Handlers run on, InnoDB serves a lock queue and resolves every wait cycle.
\* Nothing obliges a request to arrive or a connection to drop.
Fairness == /\ \A r \in Slots : WF_vars(Statement(r)) /\ SF_vars(LockRow(r))
            /\ WF_vars(\E r \in Slots : DeadlockVictim(r))

Spec == Init /\ [][Next]_vars
FairSpec == Spec /\ Fairness

-----------------------------------------------------------------------------
(* Correctness                                                             *)

TypeOK == /\ Atomic!TypeOK
          /\ tx \in [Slots -> Request]
          /\ lock \in [Rows -> Slots \cup {None}]

\* Every commit is a step of the atomic specification and every other step is
\* invisible in the committed tables: whatever the interleaving of statements,
\* the transactions have the effect of running one after the other.  So every
\* invariant proved of AuthSessions holds of the interleaved system as well.
Serializable == Atomic!Spec

\* Every request that opened a transaction comes to an end: no order of row
\* locks leaves handlers waiting for each other for ever.
EveryRequestEnds == \A r \in Slots : Busy(r) ~> ~Busy(r)
=============================================================================
