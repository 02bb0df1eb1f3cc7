---------------------------- MODULE Authorization ----------------------------
(***************************************************************************)
(* Who may do what in one merchant, and the capabilities that say so:      *)
(*   data/mysql/directory.go       organization units, members, access     *)
(*   data/mysql/authorization.go   roles, policies, grants, snapshots      *)
(*   data/mysql/user_lifecycle.go  ValidateCurrentAuthorization            *)
(*   biz/capability.go             Issue                                   *)
(* Commands are atomic commits, except the two whose checks read a snapshot*)
(* opened before the lock that decides their order (UpdateMember and       *)
(* ReplaceSubjectGrants).  A capability is issued from reads of several    *)
(* statements and one snapshot, with anything in between.  Commands carry  *)
(* the versions of the moment they are sent; a repeated idempotency key    *)
(* changes nothing, so keys are left out.                                  *)
(***************************************************************************)
EXTENDS Projections, FiniteSets

CONSTANTS
    Owner,          \* the subject of the merchant's owner
    Workforce,      \* subjects that are or can become members
    Roles,          \* role ids
    Shops,          \* the shops of the merchant
    Units,          \* organization units
    Scopes          \* the scope kinds that roles are given

ASSUME OwnerAssumption == Owner \notin Workforce
ASSUME ScopesAssumption ==
    Scopes \subseteq {"NONE", "SELF", "CURRENT_SHOP", "ASSIGNED_SHOPS", "CURRENT_ORG_UNIT"}

VARIABLES
    organization,   \* version and units of the merchant's organization
    open,           \* the shops with status ACTIVE
    member,         \* identity_subject and identity_workforce_member, assignments
    role,           \* identity_authorization_role with its policy
    grant,          \* ACTIVE identity_subject_grant rows: roles, access_version
    session,        \* per subject: the session its client holds
    pending,        \* a command between its snapshot and its commit
    read,           \* a principal being resolved for module-sessions
    capability      \* a module capability that was issued

directory == <<organization, open, member, role, grant, session>>
requests  == <<pending, read, capability>>
vars      == <<projections, left, directory, requests>>

Subjects == Workforce \cup {Owner}
Policy   == [permissions : SUBSET Permissions, scope : Scopes]
Absent   == [status |-> "ABSENT", type |-> "STAFF", identity |-> 0, access |-> 0,
             kind |-> "OPERATE", shops |-> {}, units |-> {}]
NoGrant   == [roles |-> {}, version |-> 0]
NoSession == [id |-> 0, context |-> 0, shop |-> None, live |-> FALSE]

\* A principal of which only the session in its claims is known.
Unresolved(s) == [at |-> "row", subject |-> s, session |-> session[s],
                  type |-> "STAFF", status |-> "ABSENT", identity |-> 0, access |-> 0,
                  organization |-> 0, units |-> {}, shops |-> {}]

\* The kind a member type is assigned to shops with.
KindOf(type) == IF type = "ANCHOR" THEN "ANCHOR" ELSE "OPERATE"

\* Employees who were given a shop, the units there are and the roles.
Staffed(staff, units, h) ==
    /\ organization = [version |-> 1, units |-> units]
    /\ member = [x \in Subjects |->
         CASE x = Owner   -> [Absent EXCEPT !.status = "ACTIVE", !.type = "OWNER",
                                            !.identity = 1, !.access = 1]
           [] x \in staff -> [Absent EXCEPT !.status = "ACTIVE", !.identity = 1,
                                            !.access = 1, !.shops = {h}, !.units = units]
           [] OTHER       -> Absent]
    /\ grant = [x \in Subjects |->
            IF x \in staff THEN [roles |-> Roles, version |-> 1] ELSE NoGrant]
    /\ session = [x \in Subjects |->
            IF x \in staff THEN [id |-> 1, context |-> 1, shop |-> h, live |-> TRUE]
            ELSE NoSession]

\* A merchant entitled to everything, synchronised; its employees are logged in.
Init ==
    /\ ProjectionsInit(Permissions, Contributions)
    /\ open = Shops
    /\ \E staff \in SUBSET Workforce, units \in SUBSET Units, h \in Shops : Staffed(staff, units, h)
    /\ \E scope \in Scopes :
        role = [r \in Roles |-> [status |-> "ACTIVE", version |-> 1,
                                 permissions |-> projection.codes, scope |-> scope]]
    /\ pending = None /\ read = None /\ capability = None

-----------------------------------------------------------------------------
(* What the commands share                                                 *)

\* The member and subject rows a pending UpdateMember holds locked.
Unlocked(s) == ~(pending # None /\ pending.op = "update" /\ pending.subject = s)

Exists(s) == member[s].status # "ABSENT"

\* bumpDomain.
Bump == domain' = [domain EXCEPT !.revision = @ + 1]

\* assignmentValid.
ValidAssignment(kind, shops) ==
    IF kind = "ANCHOR" THEN Cardinality(shops) = 1 ELSE shops # {}

\* insertAssignments: each shop is ACTIVE, and the unique slot of the anchor of
\* a shop is not another member's (the upsert then changes no row).
ShopsFree(s, kind, shops) ==
    /\ shops \subseteq open
    /\ kind = "ANCHOR" => \A x \in Subjects \ {s} :
            member[x].kind = "ANCHOR" => member[x].shops \cap shops = {}

\* The role check of ProvisionMember and UpdateMember, against the rows of a
\* snapshot: the roles are ACTIVE and within the entitlement of the domain.
RolesUsable(roles, R, P) ==
    /\ roles # {}
    /\ \A r \in roles :
        /\ R[r].status = "ACTIVE"
        /\ R[r].permissions # {} => /\ P.revision = domain.entitlement
                                    /\ R[r].permissions \subseteq P.codes

\* Every ACTIVE session of the subject and its tokens.
Logout(s) == session' = [session EXCEPT ![s].live = FALSE]

\* The grants of the version that is left move on with the member; the domain's
\* revision tells when there were any.
CarryGrantsNever(s, old, new) ==
    IF grant[s].roles # {} /\ grant[s].version = old
    THEN Bump /\ UNCHANGED grant ELSE UNCHANGED <<grant, domain>>
CarryGrants(s, old, new) ==
    IF grant[s].roles # {} /\ grant[s].version = old
    THEN grant' = [grant EXCEPT ![s].version = new] /\ Bump
    ELSE UNCHANGED <<grant, domain>>

Commit == Spend("commands")
          /\ UNCHANGED <<now, sources, projection, registry, fetched, read, capability>>

-----------------------------------------------------------------------------
(* Organization units and members                                          *)

CreateOrganizationUnit(u) ==
    /\ Commit
    /\ u \notin organization.units
    /\ organization' = [version |-> organization.version + 1,
                        units |-> organization.units \cup {u}]
    /\ UNCHANGED <<domain, open, member, role, grant, session, pending>>

\* CreateMember and ProvisionMember: subject, member, units, shops, credential
\* and grants in one transaction, its snapshot opened behind the domain's lock.
ProvisionMember(s, type, shops, units, roles) ==
    /\ Commit
    /\ ~Exists(s)
    /\ ValidAssignment(KindOf(type), shops)
    /\ domain.entitlement # 0
    /\ RolesUsable(roles, role, projection)
    /\ ShopsFree(s, KindOf(type), shops)
    /\ units \subseteq organization.units
    /\ member' = [member EXCEPT ![s] =
            [status |-> "ACTIVE", type |-> type, identity |-> 1, access |-> 1,
             kind |-> KindOf(type), shops |-> shops, units |-> units]]
    /\ grant' = [grant EXCEPT ![s] = [roles |-> roles, version |-> 1]]
    /\ Bump
    /\ UNCHANGED <<organization, open, role, session, pending>>

\* The kind follows the member type the request names, not the stored one.
ReplaceMemberAccess(s, kind, shops, units) ==
    LET m == member[s] IN
    /\ Commit
    /\ m.status = "ACTIVE" /\ m.type # "OWNER" /\ Unlocked(s)
    /\ ValidAssignment(kind, shops) /\ ShopsFree(s, kind, shops)
    /\ units \subseteq organization.units
    /\ member' = [member EXCEPT ![s].access = @ + 1, ![s].kind = kind,
                                ![s].shops = shops, ![s].units = units]
    /\ CarryGrants(s, m.access, m.access + 1)
    /\ Logout(s)
    /\ UNCHANGED <<organization, open, role, pending>>

\* UpdateMember locks member and subject; its first plain SELECT (of the units)
\* opens the snapshot.  Then it may wait for the lock of the domain.
BeginUpdate(s, rename, shops, units, roles) ==
    /\ pending = None
    /\ Exists(s) /\ member[s].type # "OWNER"
    /\ ValidAssignment(KindOf(member[s].type), shops) /\ roles # {}
    /\ pending' = [op |-> "update", subject |-> s, rename |-> rename, shops |-> shops,
                   units |-> units, roles |-> roles, access |-> member[s].access,
                   seenRoles |-> role, seenProjection |-> projection]
    /\ UNCHANGED <<projections, left, directory, read, capability>>

\* What UpdateMember finds changed, compared with sameIDs.
AccessChanged(q) == q.shops # member[q.subject].shops \/ q.units # member[q.subject].units
                    \/ q.roles # grant[q.subject].roles

\* Roles are replaced at the member's next access version; otherwise the grants are
\* carried along if the access changed, and a mere rename touches neither them nor
\* the domain.
GrantAt(q, next) == grant' = [grant EXCEPT ![q.subject] = [roles |-> q.roles, version |-> next]]
UpdateGrants(q, next) ==
    IF q.roles # grant[q.subject].roles
    THEN /\ domain.entitlement # 0
         /\ RolesUsable(q.roles, q.seenRoles, q.seenProjection)
         /\ GrantAt(q, next) /\ Bump
    ELSE IF AccessChanged(q) THEN CarryGrants(q.subject, member[q.subject].access, next)
    ELSE UNCHANGED <<grant, domain>>

CommitUpdate ==
    LET q == pending  m == member[q.subject]
        next == IF AccessChanged(q) THEN m.access + 1 ELSE m.access IN
    /\ Commit
    /\ q # None /\ q.op = "update"
    /\ q.shops # m.shops => ShopsFree(q.subject, KindOf(m.type), q.shops)
    /\ q.units \subseteq organization.units
    /\ member' = [member EXCEPT
            ![q.subject].identity = IF q.rename THEN @ + 1 ELSE @,
            ![q.subject].access = next, ![q.subject].units = q.units,
            ![q.subject].shops = q.shops,
            ![q.subject].kind = IF q.shops # m.shops THEN KindOf(m.type) ELSE @]
    /\ UpdateGrants(q, next)
    /\ IF AccessChanged(q) THEN Logout(q.subject) ELSE UNCHANGED session
    /\ pending' = None
    /\ UNCHANGED <<organization, open, role>>

\* ChangeUserStatus moves subject and member together.
ChangeUserStatus(s, target) ==
    LET m == member[s] IN
    /\ Commit
    /\ Exists(s) /\ m.type # "OWNER" /\ m.status # target /\ Unlocked(s)
    /\ member' = [member EXCEPT ![s].status = target, ![s].identity = @ + 1,
                                ![s].access = @ + 1]
    /\ CarryGrants(s, m.access, m.access + 1)
    /\ IF target = "DISABLED" THEN Logout(s) ELSE UNCHANGED session
    /\ UNCHANGED <<organization, open, role, pending>>

\* A shop is switched on or off by its own command, which knows no revision.
SetShopEnabled(h) ==
    /\ Commit
    /\ open' = IF h \in open THEN open \ {h} ELSE open \cup {h}
    /\ UNCHANGED <<domain, organization, member, role, grant, session, pending>>

-----------------------------------------------------------------------------
(* Roles and grants.  All take the domain's lock first.                    *)

PutRoleSilently(r, status) == role' = [role EXCEPT ![r].status = status] /\ UNCHANGED domain
PutRole(r, status) ==
    /\ role' = [role EXCEPT ![r].status = status, ![r].version = @ + 1]
    /\ Bump

\* ValidatePolicy and the checks of SetRolePolicy: known permissions within the
\* entitlement, scopes only of their resources and never ALL.
PolicyAllowed(p) ==
    /\ p.permissions \subseteq registry.active
    /\ p.permissions \subseteq projection.codes /\ ProjectionMatches
    /\ p.scope = "NONE" \/ p.permissions # {}

SetRolePolicy(r, p) ==
    /\ PolicyAllowed(p)
    /\ role' = [role EXCEPT ![r].permissions = p.permissions, ![r].scope = p.scope,
                            ![r].version = @ + 1]
    /\ Bump

ChangeRole ==
    /\ Commit
    /\ \/ \E r \in Roles, status \in {"ACTIVE", "DISABLED"} : PutRole(r, status)
       \/ \E r \in Roles, p \in Policy : SetRolePolicy(r, p)
    /\ UNCHANGED <<organization, open, member, grant, session, pending>>

\* The look-up of the operation id opens the snapshot; no lock is held yet.
BeginGrants(s, roles) ==
    /\ pending = None
    /\ Exists(s) /\ roles # {}
    /\ pending' = [op |-> "grants", subject |-> s, roles |-> roles,
                   access |-> member[s].access, seenRoles |-> role]
    /\ UNCHANGED <<projections, left, directory, read, capability>>

\* Behind the locks of domain and member: the member is ACTIVE staff with the
\* version that was sent; the roles were ACTIVE in the snapshot.
CommitGrants ==
    LET q == pending IN
    /\ Commit
    /\ q # None /\ q.op = "grants"
    /\ member[q.subject].status = "ACTIVE" /\ member[q.subject].type # "OWNER"
    /\ member[q.subject].access = q.access
    /\ \A r \in q.roles : q.seenRoles[r].status = "ACTIVE"
    /\ GrantAt(q, q.access) /\ Bump
    /\ pending' = None
    /\ UNCHANGED <<organization, open, member, role, session>>

\* A check fails, the caller goes away, or a deadlock is broken.
Abandon == /\ pending # None /\ pending' = None
           /\ UNCHANGED <<projections, left, directory, read, capability>>

-----------------------------------------------------------------------------
(* Resolving a principal                                                   *)

\* principalShops.
AvailableShops(s) == IF member[s].type = "OWNER" THEN open ELSE member[s].shops \cap open

\* ValidateSelected: the owner may be in no shop.
MaySelect(type, shop, shops) == shop \in shops \/ (type = "OWNER" /\ shop = None)

\* Login and SwitchContext: a session of a member in a shop it may select.
Login(s, shop) ==
    /\ Commit
    /\ member[s].status = "ACTIVE" /\ ~session[s].live
    /\ MaySelect(member[s].type, shop, AvailableShops(s))
    /\ session' = [session EXCEPT ![s] = [id |-> @.id + 1, context |-> 1,
                                          shop |-> shop, live |-> TRUE]]
    /\ UNCHANGED <<domain, organization, open, member, role, grant, pending>>

SwitchContext(s, shop) ==
    /\ Commit
    /\ session[s].live /\ member[s].status = "ACTIVE"
    /\ MaySelect(member[s].type, shop, AvailableShops(s))
    /\ session' = [session EXCEPT ![s].context = @ + 1, ![s].shop = shop]
    /\ UNCHANGED <<domain, organization, open, member, role, grant, pending>>

ReadStep == UNCHANGED <<projections, left, directory, pending>>

\* ValidateActiveSession: the claims name a live session in its present context.
\* One capability is followed, from its first read on.
ReadSession(s) ==
    /\ read = None /\ capability = None /\ session[s].live
    /\ read' = Unresolved(s)
    /\ UNCHANGED capability /\ ReadStep

\* ResolvePrincipalContext: subject, member and organization in one statement,
ReadRow ==
    LET m == member[read.subject] IN
    /\ read # None /\ read.at = "row"
    /\ read' = [read EXCEPT !.at = "units", !.type = m.type, !.status = m.status,
                            !.identity = m.identity, !.access = m.access,
                            !.organization = organization.version]
    /\ UNCHANGED capability /\ ReadStep

\* then the units,
ReadUnits ==
    /\ read # None /\ read.at = "units"
    /\ read' = [read EXCEPT !.at = "shops", !.units = member[read.subject].units]
    /\ UNCHANGED capability /\ ReadStep

\* then the shops; then the selected context is held against them.
ReadShops ==
    /\ read # None /\ read.at = "shops"
    /\ read.status = "ACTIVE"
    /\ MaySelect(read.type, read.session.shop, AvailableShops(read.subject))
    /\ read' = [read EXCEPT !.at = "snapshot", !.shops = AvailableShops(read.subject)]
    /\ UNCHANGED capability /\ ReadStep

Refuse == /\ read # None /\ read' = None
          /\ UNCHANGED capability /\ ReadStep

-----------------------------------------------------------------------------
(* effective and the capability                                            *)

\* The roles that count: granted at the access version of the principal.
GrantedRoles(s, access) == IF grant[s].version = access THEN grant[s].roles ELSE {}
ActiveRoles(s, access) == {r \in GrantedRoles(s, access) : role[r].status = "ACTIVE"}

\* effective and merchantOwnerAuthorization: the permissions of the roles, or
\* for the owner of everything, within the entitlement and the registry.
Effective(s, access) ==
    (IF member[s].type = "OWNER" THEN Permissions
     ELSE UNION {role[r].permissions : r \in ActiveRoles(s, access)})
    \cap registry.active \cap (IF ProjectionMatches THEN projection.codes ELSE {})

\* The scope kinds that apply: those of the active roles, for a resource with an
\* effective permission; the permissions here are all of one resource.
ScopeKinds(p, permissions) ==
    CASE permissions = {} -> {}
      [] p.type = "OWNER" -> {"ASSIGNED_SHOPS"}
      [] OTHER -> {role[r].scope : r \in ActiveRoles(p.subject, p.access)}
ScopeShops(p, permissions) ==
    LET kinds == ScopeKinds(p, permissions) IN
    (IF "ASSIGNED_SHOPS" \in kinds THEN p.shops ELSE {})
    \cup (IF "CURRENT_SHOP" \in kinds THEN {p.session.shop} \ {None} ELSE {})
ScopeUnits(p, permissions) ==
    IF "CURRENT_ORG_UNIT" \in ScopeKinds(p, permissions) THEN p.units ELSE {}

\* CapabilitySnapshot: fresh, and every permission the contribution needs is
\* active in the registry's revision.
Snapshottable(c) ==
    /\ c \in registry.contributions /\ FreshRegistry
    /\ Needs(c) \subseteq registry.active
    /\ domain.entitlement # 0 /\ FreshEntitlement

\* authorizedFor; Issue also wants one of the routes, if there are any.
Authorized(c, permissions) ==
    /\ c.required \subseteq permissions
    /\ c.routes # {} => \E route \in c.routes : route \subseteq permissions

\* The claims carry the versions of the principal and of the snapshot.
Issue(c) ==
    LET p == read  permissions == Effective(p.subject, p.access) IN
    /\ p # None /\ p.at = "snapshot"
    /\ Snapshottable(c) /\ Authorized(c, permissions)
    /\ capability' = [subject |-> p.subject, session |-> p.session.id,
                      context |-> p.session.context, shop |-> p.session.shop,
                      permissions |-> permissions,
                      shops |-> ScopeShops(p, permissions),
                      units |-> ScopeUnits(p, permissions),
                      identity |-> p.identity, organization |-> p.organization,
                      authorization |-> domain.revision,
                      entitlement |-> domain.entitlement, registry |-> registry.revision]
    /\ read' = None
    /\ ReadStep

\* The entitlement part of ValidateCurrentAuthorization.
EntitlementCurrentAnyAge(k) == ProjectionMatches /\ k.entitlement = domain.entitlement
EntitlementCurrent(k) == FreshEntitlement /\ k.entitlement = domain.entitlement

\* ValidateCurrentAuthorization: a write is let through.  Neither the access
\* version nor the status of the shop is compared.
Accepted(k) ==
    /\ member[k.subject].status = "ACTIVE" /\ member[k.subject].identity = k.identity
    /\ organization.version = k.organization
    /\ session[k.subject] = [id |-> k.session, context |-> k.context,
                             shop |-> k.shop, live |-> TRUE]
    /\ domain.revision = k.authorization /\ EntitlementCurrent(k)
    /\ registry.revision = k.registry /\ FreshRegistry

-----------------------------------------------------------------------------
MemberCommand ==
    \/ \E u \in Units : CreateOrganizationUnit(u)
    \/ \E s \in Workforce, type \in {"STAFF", "ANCHOR"}, shops \in SUBSET Shops,
          units \in SUBSET Units, roles \in SUBSET Roles :
            ProvisionMember(s, type, shops, units, roles)
    \/ \E s \in Subjects, kind \in {"OPERATE", "ANCHOR"}, shops \in SUBSET Shops,
          units \in SUBSET Units : ReplaceMemberAccess(s, kind, shops, units)
    \/ \E s \in Subjects, rename \in BOOLEAN, shops \in SUBSET Shops,
          units \in SUBSET Units, roles \in SUBSET Roles :
            BeginUpdate(s, rename, shops, units, roles)
    \/ CommitUpdate
    \/ \E s \in Subjects, target \in {"ACTIVE", "DISABLED"} : ChangeUserStatus(s, target)
    \/ \E h \in Shops : SetShopEnabled(h)
    \/ \E s \in Subjects, roles \in SUBSET Roles : BeginGrants(s, roles)
    \/ CommitGrants
    \/ Abandon

Access ==
    \/ \E s \in Subjects, shop \in Shops \cup {None} : Login(s, shop) \/ SwitchContext(s, shop)
    \/ \E s \in Subjects : ReadSession(s)
    \/ ReadRow \/ ReadUnits \/ ReadShops \/ Refuse
    \/ \E c \in Contributions : Issue(c)

Next ==
    \/ ProjectionsNext /\ UNCHANGED <<directory, requests>>
    \/ ChangeRole \/ MemberCommand \/ Access

Spec == Init /\ [][Next]_vars

-----------------------------------------------------------------------------
(* Correctness                                                             *)

Member == [status : {"ABSENT", "ACTIVE", "DISABLED"}, type : {"OWNER", "STAFF", "ANCHOR"},
           identity : Nat, access : Nat, kind : {"OPERATE", "ANCHOR"},
           shops : SUBSET Shops, units : SUBSET Units]
Session == [id : Nat, context : Nat, shop : Shops \cup {None}, live : BOOLEAN]
Principal == [at : {"row", "units", "shops", "snapshot"}, subject : Subjects,
              session : Session, type : {"OWNER", "STAFF", "ANCHOR"},
              status : {"ABSENT", "ACTIVE", "DISABLED"}, identity : Nat, access : Nat,
              organization : Nat, units : SUBSET Units, shops : SUBSET Shops]

TypeOK ==
    /\ ProjectionsTypeOK
    /\ organization \in [version : Nat, units : SUBSET Units]
    /\ open \subseteq Shops
    /\ member \in [Subjects -> Member]
    /\ role \in [Roles -> [status : {"ACTIVE", "DISABLED"}, version : Nat,
                           permissions : SUBSET Permissions, scope : Scopes]]
    /\ grant \in [Subjects -> [roles : SUBSET Roles, version : Nat]]
    /\ session \in [Subjects -> Session]
    /\ read \in Principal \cup {None}

\* A write that is let through does what its subject may do now, in shops and
\* units it is assigned to now, although the principal, the scopes and the
\* permissions were read at different moments (ID-INV-24, ID-INV-16,
\* biz/capability.go:48-83, user_lifecycle.go:546-598).
AcceptedCapabilityIsCurrent ==
    LET k == capability  m == member[k.subject] IN
    (k # None /\ Accepted(k)) =>
        /\ k.permissions \subseteq Effective(k.subject, m.access)
        /\ m.type # "OWNER" => k.shops \subseteq m.shops /\ k.units \subseteq m.units

\* Grants carry the access version of their member whichever command moved it;
\* grants left behind would silently take every permission away
\* (directory.go:488, directory.go:632-648, authorization.go:241).
GrantsFollowMembers ==
    \A s \in Workforce : grant[s].roles # {} => grant[s].version = member[s].access

\* What the subscription takes away is gone from every write that is let
\* through within the staleness allowed plus the time a sync call may take,
\* however late a replica stores what it fetched (entitlement_projection.go:152).
EntitlementsExpire ==
    capability # None /\ Accepted(capability) =>
        \A p \in capability.permissions : \E i \in 1..Len(entitled) :
            /\ p \in entitled[i].codes
            /\ entitled[i].until = None
               \/ entitled[i].until + EntitlementStaleness + CallTimeout >= now
=============================================================================
