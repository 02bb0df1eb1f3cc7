------------------------- MODULE PlatformOperators -------------------------
(***************************************************************************)
(* The operators of the platform organization and their role grants:       *)
(*   data/mysql/user_lifecycle.go  CreatePlatformOperator,                 *)
(*                                 ChangeUserStatus, ResetCredential       *)
(*   data/mysql/authorization.go   ReplaceSubjectGrants, PutRole           *)
(* One platform organization, so one authorization domain.  Transactions   *)
(* run under REPEATABLE READ: a locking statement reads the committed rows *)
(* of the moment it gets its lock, a plain SELECT the snapshot opened by   *)
(* the first one of its transaction, writes are visible at COMMIT.  A step *)
(* is a stretch of a transaction between two waits for a lock; the fewest  *)
(* locks any query plan must take are modelled.                            *)
(*                                                                         *)
(* An operator no action uses is its neighbour with a fault in it.         *)
(***************************************************************************)
EXTENDS Naturals, FiniteSets

CONSTANTS
    Operators,      \* subjects that are or can become platform operators
    Admin,          \* the bootstrap administrator, one of Operators
    Roles,          \* roles of the platform domain
    SystemRole,     \* the role with system_role = 1, one of Roles
    Keys,           \* idempotency keys and operation ids of commands
    Slots,          \* HTTP handlers that run at the same time
    Operations,     \* which commands the handlers may receive
    None,
    MaxRoleChanges  \* bound on PutRole, which has no key of its own

ASSUME AdminAssumption == Admin \in Operators /\ SystemRole \in Roles
ASSUME SlotsAssumption == None \notin Slots
ASSUME BoundsAssumption == MaxRoleChanges \in Nat
ASSUME OperationsAssumption == Operations \subseteq {"create", "status", "reset", "grants"}

VARIABLES
    operator,       \* identity_subject with its identity_workforce_member
    grant,          \* ACTIVE identity_subject_grant rows: roles and access_version
    role,           \* status of identity_authorization_role
    credential,     \* version of the GLOBAL credential
    revision,       \* identity_authorization_domain.revision
    ledger,         \* identity_idempotency, identity_authorization_operation
    roleChanges,    \* number of PutRole calls so far
    tx,             \* per slot: the command it serves and how far it got
    lock            \* per row: the slot whose transaction holds its lock

tables == <<operator, grant, role, credential, revision, ledger, roleChanges>>
vars   == <<operator, grant, role, credential, revision, ledger, roleChanges, tx, lock>>

Idle == [op |-> "idle"]
Rows == ({"operator", "credential"} \X Operators)
        \cup {<<"domain", None>>, <<"organization", None>>}
        \cup ({"create", "status", "reset"} \X Keys)

\* Subject and member change status and version together (ChangeUserStatus is
\* the only writer of either), so one status and one version stand for both.
Operator == [status : {"ABSENT", "ACTIVE", "DISABLED"}, version : Nat]
Grant    == [roles : SUBSET Roles, version : Nat]

NoGrant == [roles |-> {}, version |-> 0]

\* The state authorizationimport leaves: the administrator holds the system
\* role, every other operator is still to be created.
Init ==
    /\ operator = [o \in Operators |-> IF o = Admin THEN [status |-> "ACTIVE", version |-> 1]
                                       ELSE [status |-> "ABSENT", version |-> 0]]
    /\ grant = [o \in Operators |-> IF o = Admin THEN [roles |-> {SystemRole}, version |-> 1]
                                    ELSE NoGrant]
    /\ role = [c \in Roles |-> IF c = SystemRole THEN "ACTIVE" ELSE "DISABLED"]
    /\ credential = [o \in Operators |-> IF o = Admin THEN 1 ELSE 0]
    /\ revision = 1 /\ ledger = {} /\ roleChanges = 0
    /\ tx = [r \in Slots |-> Idle]
    /\ lock = [row \in Rows |-> None]

-----------------------------------------------------------------------------
(* Row locks and the ends of a transaction                                 *)

Busy(r) == tx[r] # Idle

\* The row that the statement slot r is at waits for.
Wanted(q) ==
    CASE q.at = "reserve"      -> <<q.op, q.k>>
      [] q.at = "organization" -> <<"organization", None>>
      [] q.at = "operator"     -> <<"operator", q.o>>
      [] q.at = "credential"   -> <<"credential", q.o>>
      [] q.at = "domain"       -> <<"domain", None>>

Ready(r, op, at) ==
    /\ Busy(r) /\ tx[r].op = op /\ tx[r].at = at
    /\ lock[Wanted(tx[r])] \in {None, r}

\* The statement takes its lock and the transaction goes on to the next one.
GoTo(r, at) == /\ tx' = [tx EXCEPT ![r].at = at]
               /\ lock' = [lock EXCEPT ![Wanted(tx[r])] = r]
               /\ UNCHANGED tables

\* COMMIT or ROLLBACK: every lock of the transaction is released.
Release(r) == /\ tx' = [tx EXCEPT ![r] = Idle]
              /\ lock' = [row \in Rows |-> IF lock[row] = r THEN None ELSE lock[row]]

\* An error returned by the work function, the end of the request's context,
\* a lost connection and the server's choice of a deadlock victim all end so.
RollBack(r) == Busy(r) /\ Release(r) /\ UNCHANGED tables

Begin(r, command) ==
    /\ ~Busy(r) /\ command.op \in Operations
    /\ tx' = [tx EXCEPT ![r] = command]
    /\ UNCHANGED <<tables, lock>>

\* reserveIdempotency: a key some committed command used answers from the
\* ledger (or is refused, when the request differs).
ReserveKey(r, op, next) ==
    /\ Ready(r, op, "reserve")
    /\ <<op, tx[r].k>> \notin ledger
    /\ GoTo(r, next)

-----------------------------------------------------------------------------
(* Queries on the rows a statement sees                                    *)

Active    == {o \in Operators : operator[o].status = "ACTIVE"}
Existing  == {o \in Operators : operator[o].status # "ABSENT"}
Usable(R) == \A c \in R : role[c] = "ACTIVE"

\* hasSystemRoleTx.
HoldsSystemRole(o) == SystemRole \in grant[o].roles /\ role[SystemRole] = "ACTIVE"

\* What `effective` evaluates for an operator: the active roles granted at the
\* access version of a member that is active.
Effective(o) == IF operator[o].status = "ACTIVE" /\ grant[o].version = operator[o].version
                THEN {c \in grant[o].roles : role[c] = "ACTIVE"} ELSE {}

-----------------------------------------------------------------------------
(* CreatePlatformOperator                                                  *)

BeginCreate(r) == \E k \in Keys, o \in Operators, R \in (SUBSET Roles) \ {{}} :
    Begin(r, [op |-> "create", at |-> "reserve", k |-> k, o |-> o, roles |-> R])

\* The organization row is locked; the first role count opens the snapshot.
CreateCheck(r) ==
    /\ Ready(r, "create", "organization")
    /\ Usable(tx[r].roles)
    /\ GoTo(r, "domain")

\* The inserts and, behind the domain's row lock, the new revision.
CreateCommit(r) ==
    LET q == tx[r] IN
    /\ Ready(r, "create", "domain")
    /\ operator[q.o].status = "ABSENT"
    /\ operator' = [operator EXCEPT ![q.o] = [status |-> "ACTIVE", version |-> 1]]
    /\ credential' = [credential EXCEPT ![q.o] = 1]
    /\ grant' = [grant EXCEPT ![q.o] = [roles |-> q.roles, version |-> 1]]
    /\ revision' = revision + 1
    /\ ledger' = ledger \cup {<<q.op, q.k>>}
    /\ Release(r)
    /\ UNCHANGED <<role, roleChanges>>

-----------------------------------------------------------------------------
(* ChangeUserStatus in the platform scope                                  *)

\* A command carries the versions its sender saw: those of the moment it is
\* sent, since older ones are refused whatever happens.
BeginStatus(r) == \E k \in Keys, o \in Existing, target \in {"ACTIVE", "DISABLED"} :
    Begin(r, [op |-> "status", at |-> "reserve", k |-> k, o |-> o, target |-> target,
              v |-> operator[o].version])

\* Whom a disabling spares: holders of the system role and the last operator.
Protected(o) == HoldsSystemRole(o) \/ Cardinality(Active) <= 1

\* SELECT ... FOR UPDATE locks the target's own rows only.  Its scalar subquery
\* is the first consistent read, so the snapshot is of the same moment, and
\* the system role and the count of active operators are read from it.  What
\* is left to wait for is the domain row, which every operator's grants need.
StatusCheck(r) ==
    LET q == tx[r] IN
    /\ Ready(r, "status", "operator")
    /\ operator[q.o].version = q.v
    /\ operator[q.o].status # q.target
    /\ q.target = "DISABLED" => ~Protected(q.o)
    /\ GoTo(r, "domain")

\* The target has the status already: only the ledger is completed.
StatusReached(r) ==
    LET q == tx[r] IN
    /\ Ready(r, "status", "operator")
    /\ operator[q.o].version = q.v /\ operator[q.o].status = q.target
    /\ ledger' = ledger \cup {<<q.op, q.k>>}
    /\ Release(r)
    /\ UNCHANGED <<operator, grant, role, credential, revision, roleChanges>>

\* The active grants of version v move on with the member; the revision tells.
CarryGrantsSilently(o, v) == /\ grant' = [grant EXCEPT ![o].version = v + 1]
                             /\ UNCHANGED revision
CarryGrants(o, v) ==
    IF grant[o].roles # {} /\ grant[o].version = v
    THEN /\ grant' = [grant EXCEPT ![o].version = v + 1]
         /\ revision' = revision + 1
    ELSE UNCHANGED <<grant, revision>>

\* The rows a status change writes; the member's word for disabled is another.
SuspendedRow(q) == [status |-> IF q.target = "ACTIVE" THEN "ACTIVE" ELSE "SUSPENDED",
                    version |-> q.v + 1]
ChangedRow(q)   == [status |-> q.target, version |-> q.v + 1]

StatusCommit(r) ==
    LET q == tx[r] IN
    /\ Ready(r, "status", "domain")
    /\ operator' = [operator EXCEPT ![q.o] = ChangedRow(q)]
    /\ CarryGrants(q.o, q.v)
    /\ ledger' = ledger \cup {<<q.op, q.k>>}
    /\ Release(r)
    /\ UNCHANGED <<role, credential, roleChanges>>

-----------------------------------------------------------------------------
(* ResetCredential in the platform scope                                   *)

BeginReset(r) == \E k \in Keys, o \in Existing :
    Begin(r, [op |-> "reset", at |-> "reserve", k |-> k, o |-> o, v |-> credential[o]])

\* The plain SELECTs behind the key: a holder of the system role is refused.
ResetCheck(r) == ReserveKey(r, "reset", "credential") /\ ~HoldsSystemRole(tx[r].o)

ResetCommit(r) ==
    LET q == tx[r] IN
    /\ Ready(r, "reset", "credential")
    /\ credential[q.o] = q.v
    /\ credential' = [credential EXCEPT ![q.o] = q.v + 1]
    /\ ledger' = ledger \cup {<<q.op, q.k>>}
    /\ Release(r)
    /\ UNCHANGED <<operator, grant, role, revision, roleChanges>>

-----------------------------------------------------------------------------
(* ReplaceSubjectGrants and PutRole in the platform domain                 *)

\* The look-up of the operation id is a plain SELECT: it opens the snapshot
\* that the role statuses are read from later.
BeginGrants(r) == \E k \in Keys, o \in Existing, R \in (SUBSET Roles) \ {{}} :
    /\ <<"grants", k>> \notin ledger
    /\ Begin(r, [op |-> "grants", at |-> "domain", k |-> k, o |-> o, roles |-> R,
                 v |-> operator[o].version, seen |-> role])

GrantsLockDomain(r) == Ready(r, "grants", "domain") /\ GoTo(r, "operator")

\* SELECT access_version ... WHERE status='ACTIVE' ... FOR UPDATE.
MayBeGrantedAnyStatus(q) == operator[q.o].version = q.v
MayBeGrantedAnyVersion(q) == operator[q.o].status = "ACTIVE"
MayBeGranted(q) == operator[q.o].status = "ACTIVE" /\ operator[q.o].version = q.v

\* Every active grant is replaced; a used operation id is a duplicate key.
GrantsCommit(r) ==
    LET q == tx[r] IN
    /\ Ready(r, "grants", "operator")
    /\ MayBeGranted(q)
    /\ \A c \in q.roles : q.seen[c] = "ACTIVE"
    /\ <<q.op, q.k>> \notin ledger
    /\ grant' = [grant EXCEPT ![q.o] = [roles |-> q.roles, version |-> q.v]]
    /\ revision' = revision + 1
    /\ ledger' = ledger \cup {<<q.op, q.k>>}
    /\ Release(r)
    /\ UNCHANGED <<operator, role, credential, roleChanges>>

\* PutRole takes the domain's lock and no other that anyone waits for.  A role
\* that is not created yet counts as disabled; a system role is never written.
PutRole(c, status) ==
    /\ c # SystemRole /\ roleChanges < MaxRoleChanges
    /\ lock[<<"domain", None>>] = None
    /\ role' = [role EXCEPT ![c] = status]
    /\ revision' = revision + 1
    /\ roleChanges' = roleChanges + 1
    /\ UNCHANGED <<operator, grant, credential, ledger, tx, lock>>

-----------------------------------------------------------------------------
Arrive(r) == BeginCreate(r) \/ BeginStatus(r) \/ BeginReset(r) \/ BeginGrants(r)

Statement(r) ==
    \/ ReserveKey(r, "create", "organization") \/ CreateCheck(r) \/ CreateCommit(r)
    \/ ReserveKey(r, "status", "operator") \/ StatusCheck(r) \/ StatusReached(r)
    \/ StatusCommit(r)
    \/ ResetCheck(r) \/ ResetCommit(r)
    \/ GrantsLockDomain(r) \/ GrantsCommit(r)

Next ==
    \/ \E r \in Slots : Arrive(r) \/ Statement(r) \/ RollBack(r)
    \/ \E c \in Roles, status \in {"ACTIVE", "DISABLED"} : PutRole(c, status)

Spec == Init /\ [][Next]_vars

-----------------------------------------------------------------------------
(* Correctness                                                             *)

TypeOK ==
    /\ operator \in [Operators -> Operator]
    /\ grant \in [Operators -> Grant]
    /\ role \in [Roles -> {"ACTIVE", "DISABLED"}]
    /\ credential \in [Operators -> Nat]
    /\ revision \in Nat /\ roleChanges \in 0..MaxRoleChanges
    /\ ledger \subseteq {"create", "status", "reset", "grants"} \X Keys
    /\ DOMAIN tx = Slots
    /\ lock \in [Rows -> Slots \cup {None}]

\* Whoever holds the active system role is active: a disabling that looked for
\* the role before a grant of it was committed cannot commit after the grant,
\* nor the grant after the disabling (user_lifecycle.go:272-279,
\* authorization.go:241-245).
HoldersAreActive == \A o \in Operators : HoldsSystemRole(o) => operator[o].status = "ACTIVE"

\* Active grants carry the access version of their member, whichever of a
\* status change and a replacement of the grants commits first; grants left
\* behind would silently take every permission from the operator
\* (authorization.go:441).
GrantsFollowTheOperator ==
    \A o \in Existing : grant[o].version = operator[o].version

\* Capabilities carry the revision they were issued at, and a write is refused
\* when it has moved on (ID-INV-24): so no step may change what an operator may
\* do and leave the revision as it was.
PermissionsMoveTheRevision ==
    [][(\E o \in Operators : Effective(o)' # Effective(o)) => revision' > revision]_vars

\* The platform keeps an active operator (ID-INV-21, docs/domain/状态机.md:20).
SomeOperatorIsActive == Active # {}
=============================================================================
