---------------------- MODULE PlatformOperators_proofs ----------------------
(***************************************************************************)
(* Proofs about PlatformOperators, for any number of operators, roles,     *)
(* keys and handlers that run at the same time.                            *)
(***************************************************************************)
EXTENDS PlatformOperators, FiniteSetTheorems, TLAPS

-----------------------------------------------------------------------------
(* The inductive invariant                                                 *)

\* What a handler may be serving, and how far it may have got.
Create == [op : {"create"}, at : {"reserve", "organization", "domain"}, k : Keys,
           o : Operators, roles : (SUBSET Roles) \ {{}}]
Status == [op : {"status"}, at : {"reserve", "operator", "domain"}, k : Keys,
           o : Operators, target : {"ACTIVE", "DISABLED"}, v : Nat]
Reset  == [op : {"reset"}, at : {"reserve", "credential"}, k : Keys, o : Operators, v : Nat]
Replace == [op : {"grants"}, at : {"domain", "operator"}, k : Keys, o : Operators,
            roles : (SUBSET Roles) \ {{}}, v : Nat, seen : [Roles -> {"ACTIVE", "DISABLED"}]]
Commands == Create \cup Status \cup Reset \cup Replace

\* A change of status that has checked its operator holds the operator's row
\* until it commits, so what it checked still holds.
Checked(r) == tx[r].op = "status" /\ tx[r].at = "domain"
StillTrue(r) ==
    LET q == tx[r] IN
    /\ lock[<<"operator", q.o>>] = r
    /\ operator[q.o].version = q.v
    /\ q.target = "DISABLED" => ~HoldsSystemRole(q.o)

SlotOK(r) ==
    /\ tx[r].op = "status" => operator[tx[r].o].status # "ABSENT"
    /\ Checked(r) => StillTrue(r)

\* Every operator has roles, at its own version.
GrantsKept ==
    \A o \in Operators : operator[o].status # "ABSENT" =>
        grant[o].roles # {} /\ grant[o].version = operator[o].version

IInv ==
    /\ TypeOK
    /\ tx \in [Slots -> Commands \cup {Idle}]
    /\ \A r \in Slots : SlotOK(r)
    /\ GrantsKept
    /\ HoldersAreActive

\* The tables' part of TypeOK.
TablesTyped ==
    /\ operator \in [Operators -> Operator]
    /\ grant \in [Operators -> Grant]
    /\ role \in [Roles -> {"ACTIVE", "DISABLED"}]
    /\ credential \in [Operators -> Nat]
    /\ revision \in Nat /\ roleChanges \in 0..MaxRoleChanges
    /\ ledger \subseteq {"create", "status", "reset", "grants"} \X Keys

LEMMA Initially == Init => IInv
<1> SUFFICES ASSUME Init PROVE IInv
    OBVIOUS
<1>1. /\ \A o \in Operators : operator[o] \in Operator /\ grant[o] \in Grant
      /\ \A o \in Operators : operator[o].status # "ABSENT" => o = Admin
      /\ operator[Admin].status = "ACTIVE" /\ operator[Admin].version = 1
      /\ grant[Admin].roles = {SystemRole} /\ grant[Admin].version = 1
      /\ \A o \in Operators : o # Admin => grant[o].roles = {}
    BY AdminAssumption DEF Init, Operator, Grant, NoGrant
<1>2. TypeOK
  <2>1. operator \in [Operators -> Operator]
    BY <1>1 DEF Init
  <2>2. grant \in [Operators -> Grant]
    BY <1>1 DEF Init
  <2>3. /\ role \in [Roles -> {"ACTIVE", "DISABLED"}] /\ credential \in [Operators -> Nat]
        /\ lock \in [Rows -> Slots \cup {None}]
    BY DEF Init
  <2>4. /\ revision \in Nat /\ roleChanges \in 0..MaxRoleChanges /\ DOMAIN tx = Slots
        /\ ledger \subseteq {"create", "status", "reset", "grants"} \X Keys
    BY BoundsAssumption DEF Init
  <2> QED
    BY <2>1, <2>2, <2>3, <2>4 DEF TypeOK
<1>3. \A r \in Slots : tx[r] = Idle
    BY DEF Init
<1>4. \A r \in Slots : SlotOK(r)
    BY <1>3 DEF SlotOK, Checked, Idle
<1>5. tx \in [Slots -> Commands \cup {Idle}]
    BY DEF Init
<1>6. GrantsKept /\ HoldersAreActive
    BY <1>1, AdminAssumption DEF GrantsKept, HoldersAreActive, HoldsSystemRole
<1> QED
    BY <1>2, <1>4, <1>5, <1>6 DEF IInv

-----------------------------------------------------------------------------
(* How a transaction begins, waits and ends                                *)

\* A row is named for every statement of every command.
LEMMA WantedRows ==
    ASSUME NEW q \in Commands
    PROVE  Wanted(q) \in Rows
<1>1. CASE q \in Create
    BY <1>1 DEF Create, Wanted, Rows
<1>2. CASE q \in Status
    BY <1>2 DEF Status, Wanted, Rows
<1>3. CASE q \in Reset
    BY <1>3 DEF Reset, Wanted, Rows
<1>4. CASE q \in Replace
    BY <1>4 DEF Replace, Wanted, Rows
<1> QED
    BY <1>1, <1>2, <1>3, <1>4 DEF Commands

LEMMA BusyIsCommand ==
    ASSUME IInv, NEW r \in Slots, Busy(r)
    PROVE  tx[r] \in Commands
BY DEF IInv, Busy

\* Without the tables, a slot may do what it likes with itself, as long as it
\* takes no lock from another.
LEMMA SlotMoves ==
    ASSUME IInv, UNCHANGED tables, NEW r \in Slots,
           tx' \in [Slots -> Commands \cup {Idle}], lock' \in [Rows -> Slots \cup {None}],
           \A a \in Slots \ {r} : tx'[a] = tx[a],
           \A row \in Rows : lock[row] \in Slots \ {r} => lock'[row] = lock[row],
           SlotOK(r)'
    PROVE  IInv'
<1>1. UNCHANGED <<operator, grant, role, credential, revision, ledger, roleChanges>>
    BY DEF tables
<1>2. TypeOK'
    BY <1>1 DEF IInv, TypeOK
<1>3. GrantsKept' /\ HoldersAreActive'
    BY <1>1 DEF IInv, GrantsKept, HoldersAreActive, HoldsSystemRole
<1>4. ASSUME NEW a \in Slots \ {r} PROVE SlotOK(a)'
  <2>1. SlotOK(a) /\ tx'[a] = tx[a]
    BY DEF IInv
  <2>2. ASSUME Checked(a) PROVE StillTrue(a)'
    <3>1. tx[a] \in Commands /\ tx[a].op = "status"
        BY <2>2 DEF Checked, Idle, IInv
    <3>2. <<"operator", tx[a].o>> \in Rows
        BY <3>1 DEF Commands, Create, Status, Reset, Replace, Rows
    <3>3. lock[<<"operator", tx[a].o>>] = a
        BY <2>1, <2>2 DEF SlotOK, StillTrue
    <3>4. lock'[<<"operator", tx[a].o>>] = a
        BY <3>2, <3>3
    <3> QED
        BY <1>1, <2>1, <2>2, <3>4 DEF SlotOK, StillTrue, HoldsSystemRole
  <2> QED
    BY <1>1, <2>1, <2>2 DEF SlotOK, Checked
<1> QED
    BY <1>2, <1>3, <1>4 DEF IInv

LEMMA BeginKeeps ==
    ASSUME IInv, NEW r \in Slots, NEW q \in Commands, Begin(r, q),
           q.op = "status" => operator[q.o].status # "ABSENT" /\ q.at # "domain"
    PROVE  IInv'
<1>1. /\ tx' = [tx EXCEPT ![r] = q] /\ UNCHANGED <<operator, grant, role, lock>>
      /\ UNCHANGED tables
    BY DEF Begin, tables
<1>2. tx' \in [Slots -> Commands \cup {Idle}] /\ tx'[r] = q
      /\ lock' \in [Rows -> Slots \cup {None}]
      /\ \A a \in Slots \ {r} : tx'[a] = tx[a]
    BY <1>1 DEF IInv, TypeOK
<1>3. SlotOK(r)'
    BY <1>1, <1>2 DEF SlotOK, Checked
<1> QED
    BY <1>1, <1>2, <1>3, SlotMoves

\* A lock that is taken was nobody's.
LEMMA GoToKeeps ==
    ASSUME IInv, NEW r \in Slots, NEW op, NEW at, Ready(r, op, tx[r].at), GoTo(r, at),
           [tx[r] EXCEPT !.at = at] \in Commands,
           op = "status" /\ at = "domain" => StillTrue(r)'
    PROVE  IInv'
<1>1. tx[r] \in Commands /\ tx[r].op = op /\ lock[Wanted(tx[r])] \in {None, r}
    BY BusyIsCommand DEF Ready
<1>2. /\ tx' = [tx EXCEPT ![r] = [tx[r] EXCEPT !.at = at]]
      /\ lock' = [lock EXCEPT ![Wanted(tx[r])] = r]
      /\ UNCHANGED tables
    BY DEF GoTo
<1>3. /\ tx' \in [Slots -> Commands \cup {Idle}]
      /\ \A a \in Slots \ {r} : tx'[a] = tx[a]
      /\ tx'[r] = [tx[r] EXCEPT !.at = at]
    BY <1>1, <1>2 DEF IInv
<1>4. Wanted(tx[r]) \in Rows
    BY <1>1, WantedRows
<1>5. lock' \in [Rows -> Slots \cup {None}]
      /\ \A row \in Rows : lock[row] \in Slots \ {r} => lock'[row] = lock[row]
    BY <1>1, <1>2, <1>4, SlotsAssumption DEF IInv, TypeOK
<1>6. tx'[r].op = op /\ tx'[r].at = at /\ (op = "status" => tx'[r].o = tx[r].o)
    BY <1>1, <1>3 DEF Commands, Create, Status, Reset, Replace
<1>7. SlotOK(r)'
  <2>1. op = "status" => operator'[tx'[r].o].status # "ABSENT"
    BY <1>1, <1>2, <1>6 DEF IInv, SlotOK, tables
  <2> QED
    BY <1>6, <2>1 DEF SlotOK, Checked
<1> QED
    BY <1>2, <1>3, <1>5, <1>7, SlotMoves

\* COMMIT or ROLLBACK: whoever has checked another operator still holds it.
LEMMA EndKeeps ==
    ASSUME IInv, NEW r \in Slots, Release(r), TablesTyped', GrantsKept', HoldersAreActive',
           role'[SystemRole] = role[SystemRole],
           \A o \in Operators : operator[o].status # "ABSENT" => operator'[o].status # "ABSENT",
           \A a \in Slots \ {r} : Checked(a) => /\ operator'[tx[a].o] = operator[tx[a].o]
                                                /\ grant'[tx[a].o] = grant[tx[a].o]
    PROVE  IInv'
<1>1. /\ tx' = [tx EXCEPT ![r] = Idle]
      /\ lock' = [row \in Rows |-> IF lock[row] = r THEN None ELSE lock[row]]
    BY DEF Release
<1>2. /\ tx' \in [Slots -> Commands \cup {Idle}] /\ tx'[r] = Idle
      /\ \A a \in Slots \ {r} : tx'[a] = tx[a]
    BY <1>1 DEF IInv
<1>3. TypeOK'
    BY <1>1, <1>2 DEF TypeOK, TablesTyped, IInv
<1>4. SlotOK(r)'
    BY <1>2 DEF SlotOK, Checked, Idle
<1>5. ASSUME NEW a \in Slots \ {r} PROVE SlotOK(a)'
  <2>1. SlotOK(a) /\ tx'[a] = tx[a]
    BY <1>2 DEF IInv
  <2>2. tx[a].op = "status" => tx[a].o \in Operators /\ <<"operator", tx[a].o>> \in Rows
    BY DEF IInv, Idle, Commands, Create, Status, Reset, Replace, Rows
  <2>3. Checked(a) => StillTrue(a)'
    <3> SUFFICES ASSUME Checked(a) PROVE StillTrue(a)'
        OBVIOUS
    <3>1. lock[<<"operator", tx[a].o>>] = a /\ StillTrue(a)
        BY <2>1 DEF SlotOK, StillTrue
    <3>2. lock'[<<"operator", tx[a].o>>] = a
        BY <1>1, <2>2, <3>1 DEF Checked
    <3> QED
        BY <2>1, <3>1, <3>2 DEF StillTrue, HoldsSystemRole
  <2> QED
    BY <2>1, <2>2, <2>3 DEF SlotOK, Checked
<1> QED
    BY <1>2, <1>3, <1>4, <1>5 DEF IInv

\* Nobody else has checked an operator whose row this transaction may lock.
LEMMA OneChecks ==
    ASSUME IInv, NEW r \in Slots, NEW o \in Operators, lock[<<"operator", o>>] \in {None, r},
           NEW a \in Slots \ {r}, Checked(a)
    PROVE  tx[a].o # o
BY SlotsAssumption DEF IInv, SlotOK, StillTrue

\* A transaction that leaves operators, grants and roles alone.
LEMMA QuietEnd ==
    ASSUME IInv, NEW r \in Slots, Release(r), UNCHANGED <<operator, grant, role>>, TablesTyped'
    PROVE  IInv'
<1>1. GrantsKept' /\ HoldersAreActive'
    BY DEF IInv, GrantsKept, HoldersAreActive, HoldsSystemRole
<1> QED
    BY <1>1, EndKeeps

LEMMA CommandFields ==
    ASSUME IInv, NEW r \in Slots, NEW op, NEW at, Ready(r, op, at)
    PROVE  /\ op = "create" => tx[r] \in Create
           /\ op = "status" => tx[r] \in Status
           /\ op = "reset" => tx[r] \in Reset
           /\ op = "grants" => tx[r] \in Replace
           /\ tx[r].op = op /\ tx[r].at = at
           /\ <<tx[r].op, tx[r].k>> \in {"create", "status", "reset", "grants"} \X Keys
<1>1. tx[r] \in Commands /\ tx[r].op = op /\ tx[r].at = at
    BY BusyIsCommand DEF Ready
<1> QED
    BY <1>1 DEF Commands, Create, Status, Reset, Replace

-----------------------------------------------------------------------------
(* The commits                                                             *)

LEMMA CreateCommitKeeps ==
    ASSUME IInv, NEW r \in Slots, CreateCommit(r)
    PROVE  IInv'
<1> DEFINE q == tx[r]
           row == [status |-> "ACTIVE", version |-> 1]
           g == [roles |-> q.roles, version |-> 1]
<1>1. q \in Create /\ <<q.op, q.k>> \in {"create", "status", "reset", "grants"} \X Keys
    BY CommandFields DEF CreateCommit
<1>2. /\ operator[q.o].status = "ABSENT" /\ operator' = [operator EXCEPT ![q.o] = row]
      /\ grant' = [grant EXCEPT ![q.o] = g] /\ credential' = [credential EXCEPT ![q.o] = 1]
      /\ revision' = revision + 1 /\ ledger' = ledger \cup {<<q.op, q.k>>}
      /\ Release(r) /\ UNCHANGED <<role, roleChanges>>
    BY DEF CreateCommit
<1>3. q.o \in Operators /\ q.roles \in SUBSET Roles /\ q.roles # {}
    BY <1>1 DEF Create
<1>4. row \in Operator /\ g \in Grant
    BY <1>3 DEF Operator, Grant
<1>5. /\ row.status = "ACTIVE" /\ row.version = 1 /\ g.roles = q.roles /\ g.version = 1
    OBVIOUS
<1> HIDE DEF row, g
<1>6. TypeOK
    BY DEF IInv
<1>7. TablesTyped'
    BY <1>1, <1>2, <1>3, <1>4, <1>6 DEF TypeOK, TablesTyped
<1>8. \A o \in Operators : IF o = q.o THEN operator'[o] = row /\ grant'[o] = g
                           ELSE operator'[o] = operator[o] /\ grant'[o] = grant[o]
    BY <1>2, <1>6 DEF TypeOK
<1>9. GrantsKept'
    BY <1>3, <1>5, <1>8 DEF IInv, GrantsKept
<1>10. HoldersAreActive'
    BY <1>2, <1>5, <1>8 DEF IInv, HoldersAreActive, HoldsSystemRole
<1>11. ASSUME NEW a \in Slots \ {r}, Checked(a)
       PROVE  operator'[tx[a].o] = operator[tx[a].o] /\ grant'[tx[a].o] = grant[tx[a].o]
  <2>1. tx[a].o \in Operators
    BY <1>11 DEF IInv, Checked, Idle, Commands, Create, Status, Reset, Replace
  <2>2. operator[tx[a].o].status # "ABSENT"
    BY <1>11 DEF IInv, SlotOK, Checked
  <2> QED
    BY <1>2, <1>8, <2>1, <2>2
<1>12. \A o \in Operators : operator[o].status # "ABSENT" => operator'[o].status # "ABSENT"
    BY <1>5, <1>8
<1> QED
    BY <1>2, <1>7, <1>9, <1>10, <1>11, <1>12, EndKeeps

\* The grants move on with the operator, since they had its version.
LEMMA StatusRows ==
    ASSUME IInv, NEW r \in Slots, StatusCommit(r)
    PROVE  /\ tx[r] \in Status /\ <<tx[r].op, tx[r].k>> \in {"create", "status", "reset", "grants"} \X Keys
           /\ lock[<<"operator", tx[r].o>>] = r
           /\ operator[tx[r].o].status # "ABSENT" /\ operator[tx[r].o].version = tx[r].v
           /\ grant[tx[r].o].roles # {} /\ grant[tx[r].o].version = tx[r].v
           /\ tx[r].target = "DISABLED" => ~HoldsSystemRole(tx[r].o)
           /\ grant' = [grant EXCEPT ![tx[r].o].version = tx[r].v + 1]
           /\ revision' = revision + 1
<1>1. tx[r] \in Status /\ Checked(r) /\ <<tx[r].op, tx[r].k>> \in {"create", "status", "reset", "grants"} \X Keys
    BY CommandFields DEF StatusCommit, Checked
<1>2. StillTrue(r) /\ operator[tx[r].o].status # "ABSENT"
    BY <1>1 DEF IInv, SlotOK, Checked
<1>3. grant[tx[r].o].roles # {} /\ grant[tx[r].o].version = tx[r].v
    BY <1>1, <1>2 DEF IInv, GrantsKept, StillTrue, Status
<1>4. CarryGrants(tx[r].o, tx[r].v)
    BY DEF StatusCommit
<1> QED
    BY <1>1, <1>2, <1>3, <1>4 DEF StillTrue, CarryGrants

LEMMA StatusCommitKeeps ==
    ASSUME IInv, NEW r \in Slots, StatusCommit(r)
    PROVE  IInv'
<1> DEFINE q == tx[r]
           row == [status |-> q.target, version |-> q.v + 1]
           g == [grant[q.o] EXCEPT !.version = q.v + 1]
<1>1. /\ q \in Status /\ <<q.op, q.k>> \in {"create", "status", "reset", "grants"} \X Keys
      /\ lock[<<"operator", q.o>>] = r
      /\ operator[q.o].status # "ABSENT" /\ operator[q.o].version = q.v
      /\ grant[q.o].roles # {} /\ grant[q.o].version = q.v
      /\ q.target = "DISABLED" => ~HoldsSystemRole(q.o)
      /\ grant' = [grant EXCEPT ![q.o].version = q.v + 1] /\ revision' = revision + 1
    BY StatusRows
<1>2. /\ operator' = [operator EXCEPT ![q.o] = row]
      /\ ledger' = ledger \cup {<<q.op, q.k>>}
      /\ Release(r) /\ UNCHANGED <<role, credential, roleChanges>>
    BY DEF StatusCommit, ChangedRow
<1>3. q.o \in Operators /\ q.v + 1 \in Nat /\ q.target \in {"ACTIVE", "DISABLED"}
    BY <1>1 DEF Status
<1>4. TypeOK
    BY DEF IInv
<1>5. /\ row \in Operator /\ row.status = q.target /\ row.version = q.v + 1
      /\ g \in Grant /\ g.roles = grant[q.o].roles /\ g.version = q.v + 1
    BY <1>3, <1>4 DEF TypeOK, Operator, Grant
<1>6. grant' = [grant EXCEPT ![q.o] = g]
    BY <1>1
<1> HIDE DEF row, g
<1>7. TablesTyped'
    BY <1>1, <1>2, <1>3, <1>4, <1>5, <1>6 DEF TypeOK, TablesTyped
<1>8. \A o \in Operators : IF o = q.o THEN operator'[o] = row /\ grant'[o] = g
                           ELSE operator'[o] = operator[o] /\ grant'[o] = grant[o]
    BY <1>2, <1>4, <1>6 DEF TypeOK
<1>9. GrantsKept'
    BY <1>1, <1>5, <1>8 DEF IInv, GrantsKept
<1>10. HoldersAreActive'
    BY <1>1, <1>2, <1>3, <1>5, <1>8 DEF IInv, HoldersAreActive, HoldsSystemRole
<1>11. ASSUME NEW a \in Slots \ {r}, Checked(a)
       PROVE  operator'[tx[a].o] = operator[tx[a].o] /\ grant'[tx[a].o] = grant[tx[a].o]
  <2>1. tx[a].o \in Operators
    BY <1>11 DEF IInv, Checked, Idle, Commands, Create, Status, Reset, Replace
  <2>2. tx[a].o # q.o
    BY <1>1, <1>3, <1>11, OneChecks
  <2> QED
    BY <1>8, <2>1, <2>2
<1>12. \A o \in Operators : operator[o].status # "ABSENT" => operator'[o].status # "ABSENT"
    BY <1>3, <1>5, <1>8
<1> QED
    BY <1>2, <1>7, <1>9, <1>10, <1>11, <1>12, EndKeeps

LEMMA GrantsCommitKeeps ==
    ASSUME IInv, NEW r \in Slots, GrantsCommit(r)
    PROVE  IInv'
<1> DEFINE q == tx[r]
           g == [roles |-> q.roles, version |-> q.v]
<1>1. q \in Replace /\ <<q.op, q.k>> \in {"create", "status", "reset", "grants"} \X Keys
      /\ q.at = "operator"
    BY CommandFields DEF GrantsCommit
<1>2. /\ operator[q.o].status = "ACTIVE" /\ operator[q.o].version = q.v
      /\ grant' = [grant EXCEPT ![q.o] = g] /\ revision' = revision + 1
      /\ ledger' = ledger \cup {<<q.op, q.k>>}
      /\ Release(r) /\ UNCHANGED <<operator, role, credential, roleChanges>>
      /\ lock[<<"operator", q.o>>] \in {None, r}
    BY <1>1 DEF GrantsCommit, MayBeGranted, Ready, Wanted
<1>3. q.o \in Operators /\ q.roles \in SUBSET Roles /\ q.roles # {} /\ q.v \in Nat
    BY <1>1 DEF Replace
<1>4. g \in Grant /\ g.roles = q.roles /\ g.version = q.v
    BY <1>3 DEF Grant
<1> HIDE DEF g
<1>5. TypeOK
    BY DEF IInv
<1>6. TablesTyped'
    BY <1>1, <1>2, <1>3, <1>4, <1>5 DEF TypeOK, TablesTyped
<1>7. \A o \in Operators : IF o = q.o THEN grant'[o] = g ELSE grant'[o] = grant[o]
    BY <1>2, <1>5 DEF TypeOK
<1>8. GrantsKept'
    BY <1>2, <1>3, <1>4, <1>7 DEF IInv, GrantsKept
<1>9. HoldersAreActive'
    BY <1>2, <1>7 DEF IInv, HoldersAreActive, HoldsSystemRole
<1>10. ASSUME NEW a \in Slots \ {r}, Checked(a)
       PROVE  operator'[tx[a].o] = operator[tx[a].o] /\ grant'[tx[a].o] = grant[tx[a].o]
  <2>1. tx[a].o \in Operators
    BY <1>10 DEF IInv, Checked, Idle, Commands, Create, Status, Reset, Replace
  <2>2. tx[a].o # q.o
    BY <1>2, <1>3, <1>10, OneChecks
  <2> QED
    BY <1>2, <1>7, <2>1, <2>2
<1> QED
    BY <1>2, <1>6, <1>8, <1>9, <1>10, EndKeeps

-----------------------------------------------------------------------------
(* Every step                                                              *)

LEMMA ArriveKeeps ==
    ASSUME IInv, NEW r \in Slots, Arrive(r)
    PROVE  IInv'
<1>1. TypeOK
    BY DEF IInv
<1>2. CASE BeginCreate(r)
  <2>1. PICK k \in Keys, o \in Operators, R \in (SUBSET Roles) \ {{}} :
            Begin(r, [op |-> "create", at |-> "reserve", k |-> k, o |-> o, roles |-> R])
    BY <1>2 DEF BeginCreate
  <2> DEFINE q == [op |-> "create", at |-> "reserve", k |-> k, o |-> o, roles |-> R]
  <2>2. q \in Commands /\ q.op = "create"
    BY DEF Commands, Create
  <2> QED
    BY <2>1, <2>2, BeginKeeps
<1>3. CASE BeginStatus(r)
  <2>1. PICK k \in Keys, o \in Existing, target \in {"ACTIVE", "DISABLED"} :
            Begin(r, [op |-> "status", at |-> "reserve", k |-> k, o |-> o, target |-> target,
                      v |-> operator[o].version])
    BY <1>3 DEF BeginStatus
  <2> DEFINE q == [op |-> "status", at |-> "reserve", k |-> k, o |-> o, target |-> target,
                   v |-> operator[o].version]
  <2>2. o \in Operators /\ operator[o].status # "ABSENT" /\ operator[o].version \in Nat
    BY <1>1 DEF Existing, TypeOK, Operator
  <2>3. q \in Commands /\ q.at = "reserve" /\ q.o = o
    BY <2>2 DEF Commands, Status
  <2> QED
    BY <2>1, <2>2, <2>3, BeginKeeps
<1>4. CASE BeginReset(r)
  <2>1. PICK k \in Keys, o \in Existing :
            Begin(r, [op |-> "reset", at |-> "reserve", k |-> k, o |-> o, v |-> credential[o]])
    BY <1>4 DEF BeginReset
  <2> DEFINE q == [op |-> "reset", at |-> "reserve", k |-> k, o |-> o, v |-> credential[o]]
  <2>2. o \in Operators /\ credential[o] \in Nat
    BY <1>1 DEF Existing, TypeOK
  <2>3. q \in Commands /\ q.op = "reset"
    BY <2>2 DEF Commands, Reset
  <2> QED
    BY <2>1, <2>3, BeginKeeps
<1>5. CASE BeginGrants(r)
  <2>1. PICK k \in Keys, o \in Existing, R \in (SUBSET Roles) \ {{}} :
            Begin(r, [op |-> "grants", at |-> "domain", k |-> k, o |-> o, roles |-> R,
                      v |-> operator[o].version, seen |-> role])
    BY <1>5 DEF BeginGrants
  <2> DEFINE q == [op |-> "grants", at |-> "domain", k |-> k, o |-> o, roles |-> R,
                   v |-> operator[o].version, seen |-> role]
  <2>2. o \in Operators /\ operator[o].version \in Nat /\ role \in [Roles -> {"ACTIVE", "DISABLED"}]
    BY <1>1 DEF Existing, TypeOK, Operator
  <2>3. q \in Commands /\ q.op = "grants"
    BY <2>2 DEF Commands, Replace
  <2> QED
    BY <2>1, <2>3, BeginKeeps
<1> QED
    BY <1>2, <1>3, <1>4, <1>5 DEF Arrive

\* Statements that only take a lock.
LEMMA LockKeeps ==
    ASSUME IInv, NEW r \in Slots,
           \/ ReserveKey(r, "create", "organization") \/ CreateCheck(r)
           \/ ReserveKey(r, "status", "operator") \/ StatusCheck(r)
           \/ ResetCheck(r) \/ GrantsLockDomain(r)
    PROVE  IInv'
<1>1. CASE ReserveKey(r, "create", "organization") \/ CreateCheck(r)
  <2>1. PICK at \in {"organization", "domain"} : Ready(r, "create", tx[r].at) /\ GoTo(r, at)
    BY <1>1 DEF ReserveKey, CreateCheck, Ready
  <2>2. tx[r] \in Create
    BY <2>1, CommandFields DEF Ready
  <2>3. [tx[r] EXCEPT !.at = at] \in Commands
    BY <2>1, <2>2 DEF Commands, Create
  <2> QED
    BY <2>1, <2>3, GoToKeeps
<1>2. CASE ReserveKey(r, "status", "operator")
  <2>1. Ready(r, "status", tx[r].at) /\ GoTo(r, "operator")
    BY <1>2 DEF ReserveKey, Ready
  <2>2. tx[r] \in Status
    BY <2>1, CommandFields DEF Ready
  <2>3. [tx[r] EXCEPT !.at = "operator"] \in Commands
    BY <2>1, <2>2 DEF Commands, Status
  <2> QED
    BY <2>1, <2>3, GoToKeeps
<1>3. CASE StatusCheck(r)
  <2>1. /\ Ready(r, "status", "operator") /\ GoTo(r, "domain") /\ tx[r].at = "operator"
        /\ operator[tx[r].o].version = tx[r].v
        /\ tx[r].target = "DISABLED" => ~HoldsSystemRole(tx[r].o)
    BY <1>3 DEF StatusCheck, Protected, Ready
  <2>2. tx[r] \in Status
    BY <2>1, CommandFields
  <2>3. [tx[r] EXCEPT !.at = "domain"] \in Commands
    BY <2>2 DEF Commands, Status
  <2>4. /\ tx'[r].o = tx[r].o /\ tx'[r].v = tx[r].v /\ tx'[r].target = tx[r].target
    BY <2>1, <2>2 DEF GoTo, IInv, Status
  <2>5. lock'[<<"operator", tx[r].o>>] = r
    BY <2>1, <2>2 DEF GoTo, Wanted, IInv, TypeOK, Rows, Status
  <2>6. StillTrue(r)'
    BY <2>1, <2>4, <2>5 DEF StillTrue, GoTo, tables, HoldsSystemRole
  <2> QED
    BY <2>1, <2>3, <2>6, GoToKeeps
<1>4. CASE ResetCheck(r)
  <2>1. Ready(r, "reset", tx[r].at) /\ GoTo(r, "credential")
    BY <1>4 DEF ResetCheck, ReserveKey, Ready
  <2>2. tx[r] \in Reset
    BY <2>1, CommandFields DEF Ready
  <2>3. [tx[r] EXCEPT !.at = "credential"] \in Commands
    BY <2>1, <2>2 DEF Commands, Reset
  <2> QED
    BY <2>1, <2>3, GoToKeeps
<1>5. CASE GrantsLockDomain(r)
  <2>1. Ready(r, "grants", tx[r].at) /\ GoTo(r, "operator")
    BY <1>5 DEF GrantsLockDomain, Ready
  <2>2. tx[r] \in Replace
    BY <2>1, CommandFields DEF Ready
  <2>3. [tx[r] EXCEPT !.at = "operator"] \in Commands
    BY <2>1, <2>2 DEF Commands, Replace
  <2> QED
    BY <2>1, <2>3, GoToKeeps
<1> QED
    BY <1>1, <1>2, <1>3, <1>4, <1>5

\* Ends that write neither operators nor grants.
LEMMA QuietKeeps ==
    ASSUME IInv, NEW r \in Slots, StatusReached(r) \/ ResetCommit(r) \/ RollBack(r)
    PROVE  IInv'
<1>1. CASE StatusReached(r)
  <2>1. <<tx[r].op, tx[r].k>> \in {"create", "status", "reset", "grants"} \X Keys
    BY <1>1, CommandFields DEF StatusReached
  <2>2. TablesTyped'
    BY <1>1, <2>1 DEF StatusReached, IInv, TypeOK, TablesTyped
  <2> QED
    BY <1>1, <2>2, QuietEnd DEF StatusReached
<1>2. CASE ResetCommit(r)
  <2>1. tx[r] \in Reset /\ <<tx[r].op, tx[r].k>> \in {"create", "status", "reset", "grants"} \X Keys
    BY <1>2, CommandFields DEF ResetCommit
  <2>2. tx[r].v + 1 \in Nat
    BY <2>1 DEF Reset
  <2>3. TablesTyped'
    BY <1>2, <2>1, <2>2 DEF ResetCommit, IInv, TypeOK, TablesTyped
  <2> QED
    BY <1>2, <2>3, QuietEnd DEF ResetCommit
<1>3. CASE RollBack(r)
  <2>1. TablesTyped'
    BY <1>3 DEF RollBack, IInv, TypeOK, TablesTyped, tables
  <2> QED
    BY <1>3, <2>1, QuietEnd DEF RollBack, tables
<1> QED
    BY <1>1, <1>2, <1>3

LEMMA PutRoleKeeps ==
    ASSUME IInv, NEW c \in Roles, NEW status \in {"ACTIVE", "DISABLED"}, PutRole(c, status)
    PROVE  IInv'
<1>1. /\ c # SystemRole /\ roleChanges < MaxRoleChanges
      /\ role' = [role EXCEPT ![c] = status]
      /\ revision' = revision + 1 /\ roleChanges' = roleChanges + 1
      /\ UNCHANGED <<operator, grant, credential, ledger, tx, lock>>
    BY DEF PutRole
<1>2. TypeOK'
    BY <1>1, BoundsAssumption DEF IInv, TypeOK
<1>3. role'[SystemRole] = role[SystemRole]
    BY <1>1, AdminAssumption DEF IInv, TypeOK
<1>4. \A o \in Operators : HoldsSystemRole(o)' <=> HoldsSystemRole(o)
    BY <1>1, <1>3 DEF HoldsSystemRole
<1>5. GrantsKept' /\ HoldersAreActive'
    BY <1>1, <1>4 DEF IInv, GrantsKept, HoldersAreActive
<1>6. \A r \in Slots : SlotOK(r)'
  <2> TAKE r \in Slots
  <2>1. SlotOK(r)
    BY DEF IInv
  <2> QED
    BY <1>1, <1>3, <2>1 DEF SlotOK, Checked, StillTrue, HoldsSystemRole
<1> QED
    BY <1>1, <1>2, <1>5, <1>6 DEF IInv

LEMMA Step == IInv /\ [Next]_vars => IInv'
<1> SUFFICES ASSUME IInv, [Next]_vars PROVE IInv'
    OBVIOUS
<1>1. CASE UNCHANGED vars
  <2>1. \A r \in Slots : SlotOK(r)'
    BY <1>1 DEF vars, IInv, SlotOK, Checked, StillTrue, HoldsSystemRole
  <2> QED
    BY <1>1, <2>1 DEF vars, IInv, TypeOK, GrantsKept, HoldersAreActive, HoldsSystemRole
<1>2. ASSUME NEW r \in Slots, Statement(r) PROVE IInv'
    BY <1>2, LockKeeps, QuietKeeps, CreateCommitKeeps, StatusCommitKeeps, GrantsCommitKeeps
    DEF Statement
<1> QED
    BY <1>1, <1>2, ArriveKeeps, QuietKeeps, PutRoleKeeps DEF Next

-----------------------------------------------------------------------------
(* The theorems                                                            *)

THEOREM InvariantHolds == Spec => []IInv
BY Initially, Step, PTL DEF Spec

\* Every row is well formed.
THEOREM TypeCorrect == Spec => []TypeOK
<1>1. IInv => TypeOK
    BY DEF IInv
<1> QED
    BY <1>1, InvariantHolds, PTL

\* A disabling that looked for the system role before a grant of it commits, and
\* the grant, never both commit: whoever holds the active system role is active.
THEOREM HoldersActive == Spec => []HoldersAreActive
<1>1. IInv => HoldersAreActive
    BY DEF IInv
<1> QED
    BY <1>1, InvariantHolds, PTL

\* Whichever of a status change and a replacement commits first, the grants have
\* the version of their operator.
THEOREM GrantsFollow == Spec => []GrantsFollowTheOperator
<1>1. IInv => GrantsFollowTheOperator
    BY DEF IInv, GrantsKept, GrantsFollowTheOperator, Existing
<1> QED
    BY <1>1, InvariantHolds, PTL

\* No step changes what an operator may do and leaves the revision as it was.
THEOREM RevisionMoves == Spec => PermissionsMoveTheRevision
<1>1. ASSUME IInv, [Next]_vars
      PROVE  \/ revision' > revision
             \/ UNCHANGED <<operator, grant, role>>
  <2>1. revision \in Nat
    BY <1>1 DEF IInv, TypeOK
  <2>2. ASSUME NEW r \in Slots, Arrive(r) PROVE UNCHANGED <<operator, grant, role>>
    BY <2>2 DEF Arrive, BeginCreate, BeginStatus, BeginReset, BeginGrants, Begin, tables
  <2>3. ASSUME NEW r \in Slots, CreateCommit(r) \/ GrantsCommit(r) PROVE revision' = revision + 1
    BY <2>3 DEF CreateCommit, GrantsCommit
  <2>4. ASSUME NEW r \in Slots, StatusCommit(r) PROVE revision' = revision + 1
    BY <1>1, <2>4, StatusRows
  <2>5. ASSUME NEW r \in Slots, Statement(r), ~CreateCommit(r), ~GrantsCommit(r), ~StatusCommit(r)
        PROVE  UNCHANGED <<operator, grant, role>>
    BY <2>5 DEF Statement, ReserveKey, CreateCheck, StatusCheck, StatusReached, ResetCheck,
        ResetCommit, GrantsLockDomain, GoTo, tables
  <2>6. ASSUME NEW r \in Slots, RollBack(r) PROVE UNCHANGED <<operator, grant, role>>
    BY <2>6 DEF RollBack, tables
  <2>7. ASSUME NEW c \in Roles, NEW status \in {"ACTIVE", "DISABLED"}, PutRole(c, status)
        PROVE  revision' = revision + 1
    BY <2>7 DEF PutRole
  <2> QED
    BY <1>1, <2>1, <2>2, <2>3, <2>4, <2>5, <2>6, <2>7 DEF Next, vars
<1>2. IInv /\ [Next]_vars
        => [(\E o \in Operators : Effective(o)' # Effective(o)) => revision' > revision]_vars
    BY <1>1 DEF Effective
<1> QED
    BY <1>2, InvariantHolds, PTL DEF Spec, PermissionsMoveTheRevision

-----------------------------------------------------------------------------
(* The last operator.  SomeOperatorIsActive fails because two disablings   *)
(* can be between their count of active operators and their commit at the  *)
(* same time, each about the other's operator.  Nothing else takes the last*)
(* active operator away.                                                   *)

Disabling(r) == Checked(r) /\ tx[r].target = "DISABLED"

OneDisabling == \A a, b \in Slots : Disabling(a) /\ Disabling(b) => a = b

Another(o) == \E p \in Operators : p # o /\ operator[p].status = "ACTIVE"

LastInv == SomeOperatorIsActive /\ \A r \in Slots : Disabling(r) => Another(tx[r].o)

LEMMA MoreThanOne ==
    ASSUME NEW o \in Operators, ~Protected(o)
    PROVE  Another(o)
<1> SUFFICES ASSUME Active \subseteq {o} PROVE FALSE
    BY DEF Another, Active
<1>1. IsFiniteSet({o}) /\ Cardinality({o}) = 1
    BY FS_Singleton
<1>2. Cardinality(Active) <= 1
    BY <1>1, FS_Subset, SMT
<1> QED
    BY <1>2 DEF Protected

\* Operators that are active stay so, and at most r comes to be disabling.
LEMMA NoneLost ==
    ASSUME LastInv, NEW r \in Slots,
           \A p \in Operators : operator[p].status = "ACTIVE" => operator'[p].status = "ACTIVE",
           \A a \in Slots \ {r} : tx'[a] = tx[a],
           Disabling(r)' => Another(tx'[r].o) \/ (Disabling(r) /\ tx'[r].o = tx[r].o)
    PROVE  LastInv'
<1>1. SomeOperatorIsActive'
    BY DEF LastInv, SomeOperatorIsActive, Active
<1>2. \A o : Another(o) => Another(o)'
    BY DEF Another
<1>3. ASSUME NEW a \in Slots, Disabling(a)' PROVE Another(tx[a].o)'
    <2>1. Another(tx'[a].o)
        BY <1>3 DEF LastInv, Disabling, Checked
    <2> QED
        BY <2>1 DEF Another
<1> QED
    BY <1>1, <1>3 DEF LastInv

LEMMA LastInit == Init => LastInv
BY AdminAssumption DEF Init, LastInv, SomeOperatorIsActive, Active, Disabling, Checked, Idle

LEMMA LastStays ==
    ASSUME IInv, LastInv, OneDisabling, [Next]_vars
    PROVE  LastInv'
<1>1. CASE UNCHANGED vars
    BY <1>1 DEF vars, LastInv, SomeOperatorIsActive, Active, Disabling, Checked, Another
<1>2. ASSUME NEW c \in Roles, NEW status \in {"ACTIVE", "DISABLED"}, PutRole(c, status)
      PROVE  LastInv'
    BY <1>2 DEF PutRole, LastInv, SomeOperatorIsActive, Active, Disabling, Checked, Another
<1>3. ASSUME NEW r \in Slots, Arrive(r) PROVE LastInv'
  <2>1. PICK q : Begin(r, q) /\ (q.at # "domain" \/ q.op = "grants")
    <3>1. CASE BeginCreate(r)
        BY <3>1 DEF BeginCreate
    <3>2. CASE BeginStatus(r)
        BY <3>2 DEF BeginStatus
    <3>3. CASE BeginReset(r)
        BY <3>3 DEF BeginReset
    <3>4. CASE BeginGrants(r)
        BY <3>4 DEF BeginGrants
    <3> QED
        BY <1>3, <3>1, <3>2, <3>3, <3>4 DEF Arrive
  <2>2. UNCHANGED operator /\ tx' = [tx EXCEPT ![r] = q]
    BY <2>1 DEF Begin, tables
  <2>3. ~Disabling(r)'
    BY <2>1, <2>2 DEF IInv, Disabling, Checked
  <2>4. \A a \in Slots \ {r} : tx'[a] = tx[a]
    BY <2>2 DEF IInv
  <2> QED
    BY <2>2, <2>3, <2>4, NoneLost
<1>4. ASSUME NEW r \in Slots, Release(r),
             \A p \in Operators : operator[p].status = "ACTIVE" => operator'[p].status = "ACTIVE"
      PROVE  LastInv'
  <2>1. tx' = [tx EXCEPT ![r] = Idle]
    BY <1>4 DEF Release
  <2>2. ~Disabling(r)' /\ \A a \in Slots \ {r} : tx'[a] = tx[a]
    BY <2>1 DEF IInv, Disabling, Checked, Idle
  <2> QED
    BY <1>4, <2>2, NoneLost
<1>5. ASSUME NEW r \in Slots, NEW at, GoTo(r, at),
             tx[r].op = "status" /\ at = "domain" /\ tx[r].target = "DISABLED" =>
                Another(tx[r].o),
             tx[r] \in Commands
      PROVE  LastInv'
  <2>1. UNCHANGED operator /\ tx' = [tx EXCEPT ![r].at = at]
    BY <1>5 DEF GoTo, tables
  <2>2. \A a \in Slots \ {r} : tx'[a] = tx[a]
    BY <2>1 DEF IInv
  <2>3. Disabling(r)' => Another(tx'[r].o)
    <3>1. tx'[r] = [tx[r] EXCEPT !.at = at]
        BY <2>1 DEF IInv
    <3> SUFFICES ASSUME Disabling(r)' PROVE Another(tx'[r].o)
        OBVIOUS
    <3>2. CASE tx[r] \in Status
        BY <1>5, <3>1, <3>2 DEF Disabling, Checked, Status
    <3>3. CASE tx[r] \in Create \cup Reset \cup Replace
        BY <3>1, <3>3 DEF Disabling, Checked, Create, Reset, Replace
    <3> QED
        BY <1>5, <3>2, <3>3 DEF Commands
  <2> QED
    BY <2>1, <2>2, <2>3, NoneLost
<1>6. ASSUME NEW r \in Slots, Statement(r) PROVE LastInv'
  <2>1. tx[r] \in Commands
    BY <1>6, BusyIsCommand
    DEF Statement, ReserveKey, CreateCheck, CreateCommit, StatusCheck, StatusReached, StatusCommit,
        ResetCheck, ResetCommit, GrantsLockDomain, GrantsCommit, Ready
  <2>2. CASE \/ ReserveKey(r, "create", "organization") \/ CreateCheck(r) \/ ResetCheck(r)
             \/ GrantsLockDomain(r) \/ ReserveKey(r, "status", "operator")
    <3>1. \E at : GoTo(r, at) /\ ~(tx[r].op = "status" /\ at = "domain")
        BY <2>2 DEF ReserveKey, CreateCheck, ResetCheck, GrantsLockDomain, Ready
    <3> QED
        BY <1>5, <2>1, <3>1
  <2>3. CASE StatusCheck(r)
    <3>1. tx[r] \in Status
        BY <2>3, CommandFields DEF StatusCheck
    <3>2. tx[r].target = "DISABLED" => Another(tx[r].o)
        BY <2>3, <3>1, MoreThanOne DEF StatusCheck, Status
    <3> QED
        BY <1>5, <2>1, <2>3, <3>2 DEF StatusCheck
  <2>4. CASE StatusReached(r) \/ ResetCommit(r) \/ GrantsCommit(r)
    BY <1>4, <2>4 DEF StatusReached, ResetCommit, GrantsCommit
  <2>5. CASE CreateCommit(r)
    BY <1>4, <2>5 DEF CreateCommit, IInv, TypeOK
  <2>6. CASE StatusCommit(r)
    <3>1. tx[r] \in Status /\ tx[r].o \in Operators /\ Checked(r) /\ Release(r)
          /\ operator' = [operator EXCEPT ![tx[r].o] = ChangedRow(tx[r])]
        BY <2>6, StatusRows DEF StatusCommit, Status, Checked, Ready
    <3>2. operator'[tx[r].o].status = tx[r].target
          /\ \A p \in Operators : p # tx[r].o => operator'[p] = operator[p]
        BY <3>1 DEF ChangedRow, IInv, TypeOK
    <3>3. CASE tx[r].target = "ACTIVE"
        BY <1>4, <3>1, <3>2, <3>3
    <3>4. CASE tx[r].target = "DISABLED"
        <4>1. Disabling(r) /\ Another(tx[r].o)
            BY <3>1, <3>4 DEF Disabling, LastInv
        <4>2. SomeOperatorIsActive'
            BY <3>2, <4>1 DEF Another, SomeOperatorIsActive, Active
        <4>3. tx' = [tx EXCEPT ![r] = Idle]
            BY <3>1 DEF Release
        <4>4. \A a \in Slots : ~Disabling(a)'
            BY <4>1, <4>3 DEF OneDisabling, Disabling, Checked, Idle, IInv
        <4> QED
            BY <4>2, <4>4 DEF LastInv
    <3> QED
        BY <3>1, <3>3, <3>4 DEF Status
  <2> QED
    BY <1>6, <2>2, <2>3, <2>4, <2>5, <2>6 DEF Statement
<1>7. ASSUME NEW r \in Slots, RollBack(r) PROVE LastInv'
    BY <1>4, <1>7 DEF RollBack, tables
<1> QED
    BY <1>1, <1>2, <1>3, <1>6, <1>7 DEF Next

\* The platform keeps an active operator as long as no two disablings are past
\* their checks at the same time: what the documents promise fails by that
\* interleaving and by no other (user_lifecycle.go:272-281).
THEOREM LastOperatorStays == Spec /\ []OneDisabling => []SomeOperatorIsActive
<1>1. LastInv => SomeOperatorIsActive
    BY DEF LastInv
<1>2. IInv /\ LastInv /\ OneDisabling /\ [Next]_vars => LastInv'
    BY LastStays
<1> QED
    BY <1>1, <1>2, LastInit, InvariantHolds, PTL DEF Spec
=============================================================================
