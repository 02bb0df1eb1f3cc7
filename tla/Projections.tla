----------------------------- MODULE Projections -----------------------------
(***************************************************************************)
(* The two read models that authorization is decided on, for one merchant: *)
(*   app/entitlementsync/sync.go, data/mysql/entitlement_projection.go     *)
(*       what the merchant's subscription entitles it to;                  *)
(*   app/registrysync/sync.go, data/mysql/registry_projection.go           *)
(*       the contributions of the modules the platform has activated.      *)
(* Every replica of the process fetches a snapshot and stores it, on its   *)
(* own timer: fetch and store are two steps, so snapshots may be stored    *)
(* late and in any order.  Time counts in ticks of the database clock.     *)
(*                                                                         *)
(* An operator no action uses is its neighbour with a fault in it.         *)
(***************************************************************************)
EXTENDS Naturals, Sequences

CONSTANTS
    Permissions,            \* permission codes
    Contributions,          \* what modules may contribute: [required, routes]
    Replicas,               \* processes that run the two syncers
    EntitlementStaleness,   \* entitlementMaxStaleness, in ticks
    RegistryStaleness,      \* registryMaxStaleness, in ticks
    CallTimeout,            \* the 5 s the entitlement sync may take, in ticks
    Budgets,                \* bounds: of ticks, changes, fetches and commands
    None

ASSUME ContributionsAssumption ==
    Contributions \subseteq [required : SUBSET Permissions, routes : SUBSET (SUBSET Permissions)]
ASSUME StalenessAssumption ==
    EntitlementStaleness \in Nat /\ RegistryStaleness \in Nat /\ CallTimeout \in Nat
ASSUME BudgetsAssumption ==
    Budgets \subseteq [ticks : Nat, changes : Nat, fetches : Nat, commands : Nat]

VARIABLES
    now,            \* CURRENT_TIMESTAMP(3)
    entitled,       \* subscription_permission_entitlement: a snapshot per revision
    released,       \* the Platform Registry: the contributions of each revision
    projection,     \* identity_entitlement_projection and its state row
    registry,       \* the identity_*_projection tables of the registry
    domain,         \* the identity_authorization_domain row of the merchant
    fetched,        \* per replica: the snapshot it is about to store
    left            \* what the bounds still allow

sources     == <<entitled, released>>
readModels  == <<projection, registry, domain>>
projections == <<now, entitled, released, projection, registry, domain, fetched>>

\* A step the bounds allow.
Spend(kind) == left[kind] > 0 /\ left' = [left EXCEPT ![kind] = @ - 1]

\* The permissions of a contribution and its routes; completeAllowedRoute and
\* completeContributionIdentity admit empty ones (the surface shop).  What the
\* frontend's actions and the module's session operations name counts as required.
Needs(c) == c.required \cup UNION c.routes

\* Only permissions something refers to are projected.
Assignable(contributions) == UNION {Needs(c) : c \in contributions}

ProjectionsInit(codes, contributions) ==
    /\ now = 0
    /\ entitled = <<[codes |-> codes, until |-> None]>>
    /\ released = <<contributions>>
    /\ projection = [revision |-> 1, codes |-> codes, at |-> 0]
    /\ registry = [revision |-> 1, contributions |-> contributions,
                   active |-> Assignable(contributions), at |-> 0]
    /\ domain = [revision |-> 2, entitlement |-> 1]
    /\ fetched = [r \in Replicas |-> None]
    /\ left \in Budgets

Tick == Spend("ticks") /\ now' = now + 1
        /\ UNCHANGED <<sources, readModels, fetched>>

-----------------------------------------------------------------------------
(* The sources                                                             *)

\* PermissionEntitlements.Apply commits the next revision of the full set.
Entitle(codes) ==
    /\ Spend("changes")
    /\ entitled' = Append([entitled EXCEPT ![Len(entitled)].until = now],
                          [codes |-> codes, until |-> None])
    /\ UNCHANGED <<now, released, readModels, fetched>>

\* The platform activates another set of contributions.
Activate(contributions) ==
    /\ Spend("changes")
    /\ released' = Append(released, contributions)
    /\ UNCHANGED <<now, entitled, readModels, fetched>>

-----------------------------------------------------------------------------
(* entitlementsync                                                         *)

FetchEntitlement(r) ==
    /\ Spend("fetches")
    /\ fetched[r] = None
    /\ fetched' = [fetched EXCEPT ![r] =
            [of |-> "entitlement", revision |-> Len(entitled), at |-> now,
             content |-> entitled[Len(entitled)].codes]]
    /\ UNCHANGED <<now, sources, readModels>>

\* decideEntitlementProjection: an older revision is refused, and so is the
\* same revision with another digest; the same one only proves it is current.
DecideWhateverComes(current, incoming) == "replace"
Decide(current, incoming) ==
    CASE incoming.revision < current.revision -> "refuse"
      [] incoming.revision > current.revision -> "replace"
      [] OTHER -> IF current.codes = incoming.content THEN "refresh" ELSE "refuse"

\* ReplaceEntitlementSnapshot: rows, state and domain move in one transaction.
ReplaceEntitlement(incoming) ==
    CASE Decide(projection, incoming) = "refresh" ->
            projection' = [projection EXCEPT !.at = now] /\ UNCHANGED domain
      [] Decide(projection, incoming) = "replace" ->
            /\ projection' = [revision |-> incoming.revision,
                              codes |-> incoming.content, at |-> now]
            /\ domain' = [revision |-> domain.revision + 1,
                          entitlement |-> incoming.revision]
      [] OTHER -> UNCHANGED <<projection, domain>>

\* The context of the call expires: nothing is stored after the timeout.
StoreEntitlement(r) ==
    /\ fetched[r] # None /\ fetched[r].of = "entitlement"
    /\ now <= fetched[r].at + CallTimeout
    /\ ReplaceEntitlement(fetched[r])
    /\ fetched' = [fetched EXCEPT ![r] = None]
    /\ UNCHANGED <<now, sources, registry, left>>

-----------------------------------------------------------------------------
(* registrysync                                                            *)

FetchRegistry(r) ==
    /\ Spend("fetches")
    /\ fetched[r] = None
    /\ fetched' = [fetched EXCEPT ![r] =
            [of |-> "registry", revision |-> Len(released), at |-> now,
             content |-> released[Len(released)]]]
    /\ UNCHANGED <<now, sources, readModels>>

\* Every row is deactivated and the snapshot's rows are activated; the domain
\* does not move, capabilities carry the registry's own revision.
RegistryRowsUndated(incoming) ==
    [revision |-> incoming.revision, contributions |-> incoming.content,
     active |-> Assignable(incoming.content), at |-> None]
RegistryRowsKept(incoming) ==
    [revision |-> incoming.revision, contributions |-> incoming.content,
     active |-> Assignable(incoming.content) \cup registry.active, at |-> now]
RegistryRows(incoming) ==
    [revision |-> incoming.revision, contributions |-> incoming.content,
     active |-> Assignable(incoming.content), at |-> now]

\* ReplaceRegistrySnapshot.  Its call has no timeout of its own.
ReplaceRegistry(incoming) ==
    CASE incoming.revision < registry.revision -> UNCHANGED registry
      [] incoming.revision = registry.revision ->
            IF registry.contributions = incoming.content
            THEN registry' = [registry EXCEPT !.at = now] ELSE UNCHANGED registry
      [] OTHER -> registry' = RegistryRows(incoming)

StoreRegistry(r) ==
    /\ fetched[r] # None /\ fetched[r].of = "registry"
    /\ ReplaceRegistry(fetched[r])
    /\ fetched' = [fetched EXCEPT ![r] = None]
    /\ UNCHANGED <<now, sources, projection, domain, left>>

\* The call fails, times out, or the process restarts: the timer fires again.
GiveUp(r) == /\ fetched[r] # None
             /\ fetched' = [fetched EXCEPT ![r] = None]
             /\ UNCHANGED <<now, sources, readModels, left>>

ProjectionsNext ==
    \/ Tick
    \/ \E codes \in SUBSET Permissions : Entitle(codes)
    \/ \E contributions \in SUBSET Contributions : Activate(contributions)
    \/ \E r \in Replicas : \/ FetchEntitlement(r) \/ StoreEntitlement(r)
                           \/ FetchRegistry(r) \/ StoreRegistry(r) \/ GiveUp(r)

-----------------------------------------------------------------------------
(* Freshness                                                               *)

\* requireFreshEntitlement, and the same test in Permissions and
\* ValidateCurrentAuthorization: the projection is the domain's and not old.
ProjectionMatches == projection.revision = domain.entitlement
FreshEntitlement == ProjectionMatches /\ now - projection.at <= EntitlementStaleness

\* freshRegistryTx and RegistryReady.
FreshRegistry == now - registry.at <= RegistryStaleness

-----------------------------------------------------------------------------
(* Correctness                                                             *)

Fetched == [of : {"entitlement"}, revision : Nat, at : Nat, content : SUBSET Permissions]
           \cup [of : {"registry"}, revision : Nat, at : Nat, content : SUBSET Contributions]

ProjectionsTypeOK ==
    /\ now \in Nat
    /\ entitled \in Seq([codes : SUBSET Permissions, until : Nat \cup {None}])
    /\ released \in Seq(SUBSET Contributions)
    /\ projection \in [revision : Nat, codes : SUBSET Permissions, at : Nat]
    /\ registry \in [revision : Nat, contributions : SUBSET Contributions,
                     active : SUBSET Permissions, at : Nat]
    /\ domain \in [revision : Nat, entitlement : Nat]
    /\ fetched \in [Replicas -> Fetched \cup {None}]

\* Whatever order the replicas' snapshots are stored in, each read model is one
\* snapshot of its source, whole, and the domain knows which
\* (entitlement_projection.go:78-107, registry_projection.go:118-155).
ProjectionsAreSnapshots ==
    /\ projection.revision \in 1..Len(entitled)
    /\ projection.codes = entitled[projection.revision].codes
    /\ domain.entitlement = projection.revision
    /\ registry.revision \in 1..Len(released)
    /\ registry.contributions = released[registry.revision]
    /\ registry.active = Assignable(released[registry.revision])

\* A late snapshot never takes a read model back (ID-INV-14,
\* entitlement_projection.go:117-128, registry_projection.go:106-117).
ProjectionsNeverGoBack ==
    [][/\ projection'.revision >= projection.revision
       /\ registry'.revision >= registry.revision
       /\ domain'.revision >= domain.revision
       /\ projection'.codes # projection.codes => domain'.revision > domain.revision]_projections
=============================================================================
