------------------------- MODULE Authorization_proofs -------------------------
(***************************************************************************)
(* Proofs about Authorization, for any number of members, roles, replicas, *)
(* permissions and commands: what the projections hold is one snapshot of  *)
(* each source and never an older one, grants keep pace with members, and  *)
(* a capability that is let through is worth what its subject may do now.  *)
(***************************************************************************)
EXTENDS Authorization, SequenceTheorems, TLAPS

-----------------------------------------------------------------------------
(* The projections.  A snapshot under way is one the source had: the source*)
(* only appends, and the end of an entitlement does not change its codes.  *)

Entitlement == [codes : SUBSET Permissions, until : Nat \cup {None}]

RowsTyped ==
    /\ now \in Nat
    /\ entitled \in Seq(Entitlement)
    /\ released \in Seq(SUBSET Contributions)
    /\ projection \in [revision : Nat, codes : SUBSET Permissions, at : Nat]
    /\ registry \in [revision : Nat, contributions : SUBSET Contributions,
                     active : SUBSET Permissions, at : Nat]
    /\ domain \in [revision : Nat, entitlement : Nat]
    /\ fetched = [r \in Replicas |-> fetched[r]]

\* What replica r is about to store.
Genuine(q) ==
    q # None =>
        /\ q.of = "entitlement" => /\ q.revision \in 1..Len(entitled)
                                   /\ q.content = entitled[q.revision].codes
        /\ q.of = "registry" => /\ q.revision \in 1..Len(released)
                                /\ q.content = released[q.revision]

ProjectionInv ==
    /\ RowsTyped
    /\ ProjectionsAreSnapshots
    /\ \A r \in Replicas : Genuine(fetched[r])

\* The sources keep every revision they had.
SourcesGrow ==
    /\ Len(entitled) <= Len(entitled')
    /\ \A i \in 1..Len(entitled) : entitled'[i].codes = entitled[i].codes
    /\ Len(released) <= Len(released')
    /\ \A i \in 1..Len(released) : released'[i] = released[i]

LEMMA GenuineStays ==
    ASSUME RowsTyped, RowsTyped', SourcesGrow, NEW q, Genuine(q)
    PROVE  Genuine(q)'
<1>1. Len(entitled) \in Nat /\ Len(released) \in Nat /\ Len(entitled') \in Nat /\ Len(released') \in Nat
    BY LenProperties DEF RowsTyped
<1> QED
    BY <1>1 DEF Genuine, SourcesGrow

\* Permissions that contributions refer to are permissions.
LEMMA AssignableTyped ==
    ASSUME NEW c \in SUBSET Contributions
    PROVE  Assignable(c) \in SUBSET Permissions
BY ContributionsAssumption DEF Assignable, Needs

LEMMA ProjectionInit == Init => ProjectionInv
<1> SUFFICES ASSUME Init PROVE ProjectionInv
    OBVIOUS
<1>1. /\ now = 0
      /\ entitled = <<[codes |-> Permissions, until |-> None]>>
      /\ released = <<Contributions>>
      /\ projection = [revision |-> 1, codes |-> Permissions, at |-> 0]
      /\ registry = [revision |-> 1, contributions |-> Contributions,
                     active |-> Assignable(Contributions), at |-> 0]
      /\ domain = [revision |-> 2, entitlement |-> 1]
      /\ fetched = [r \in Replicas |-> None]
    BY DEF Init, ProjectionsInit
<1>2. RowsTyped
    BY <1>1, AssignableTyped DEF RowsTyped, Entitlement
<1>3. ProjectionsAreSnapshots
    BY <1>1 DEF ProjectionsAreSnapshots
<1>4. \A r \in Replicas : Genuine(fetched[r])
    BY <1>1 DEF Genuine
<1> QED
    BY <1>2, <1>3, <1>4 DEF ProjectionInv

\* The commands and requests touch the revision of the domain at most.
LEMMA CommandsKeepProjections ==
    ASSUME ChangeRole \/ MemberCommand \/ Access
    PROVE  /\ UNCHANGED <<now, entitled, released, projection, registry, fetched>>
           /\ domain' = domain \/ Bump
<1>1. ASSUME ChangeRole
      PROVE  UNCHANGED <<now, entitled, released, projection, registry, fetched>> /\ Bump
    BY <1>1 DEF ChangeRole, Commit, PutRole, SetRolePolicy, sources
<1> DEFINE Kept == /\ UNCHANGED <<now, entitled, released, projection, registry, fetched>>
                   /\ domain' = domain \/ Bump
<1>2. ASSUME MemberCommand PROVE Kept
  <2>1. Commit => UNCHANGED <<now, entitled, released, projection, registry, fetched>>
    BY DEF Commit, sources
  <2>2. \A s, old, new : CarryGrants(s, old, new) => domain' = domain \/ Bump
    BY DEF CarryGrants
  <2>3. \A u : CreateOrganizationUnit(u) => Kept
    BY <2>1 DEF CreateOrganizationUnit
  <2>4. \A s, type, shops, units, roles : ProvisionMember(s, type, shops, units, roles) => Kept
    BY <2>1 DEF ProvisionMember
  <2>5. \A s, kind, shops, units : ReplaceMemberAccess(s, kind, shops, units) => Kept
    BY <2>1, <2>2 DEF ReplaceMemberAccess
  <2>6. \A s, rename, shops, units, roles : BeginUpdate(s, rename, shops, units, roles) => Kept
    BY DEF BeginUpdate, projections
  <2>7. CommitUpdate => Kept
    <3>1. \A q, next : UpdateGrants(q, next) => domain' = domain \/ Bump
        BY <2>2 DEF UpdateGrants
    <3> QED
        BY <2>1, <3>1 DEF CommitUpdate
  <2>8. \A s, target : ChangeUserStatus(s, target) => Kept
    BY <2>1, <2>2 DEF ChangeUserStatus
  <2>9. \A h : SetShopEnabled(h) => Kept
    BY <2>1 DEF SetShopEnabled
  <2>10. \A s, roles : BeginGrants(s, roles) => Kept
    BY DEF BeginGrants, projections
  <2>11. CommitGrants => Kept
    BY <2>1 DEF CommitGrants
  <2>12. Abandon => Kept
    BY DEF Abandon, projections
  <2> HIDE DEF Kept
  <2> QED
    BY <1>2, <2>3, <2>4, <2>5, <2>6, <2>7, <2>8, <2>9, <2>10, <2>11, <2>12 DEF MemberCommand
<1>3. ASSUME Access
      PROVE  UNCHANGED <<now, entitled, released, projection, registry, fetched, domain>>
    BY <1>3 DEF Access, Commit, sources, Login, SwitchContext, ReadSession, ReadRow, ReadUnits,
           ReadShops, Refuse, Issue, ReadStep, projections
<1> QED
    BY <1>1, <1>2, <1>3 DEF Kept

-----------------------------------------------------------------------------
(* The steps.  Those that store nothing leave the read models as they are. *)

Forward ==
    /\ projection'.revision >= projection.revision
    /\ registry'.revision >= registry.revision
    /\ domain'.revision >= domain.revision
    /\ projection'.codes # projection.codes => domain'.revision > domain.revision

\* The clock, the sources, and the commands, which move the domain's revision.
LEMMA NothingStored ==
    ASSUME ProjectionInv, RowsTyped', SourcesGrow,
           UNCHANGED <<projection, registry, fetched>>,
           domain'.entitlement = domain.entitlement, domain'.revision >= domain.revision
    PROVE  ProjectionInv' /\ Forward
<1>1. Len(entitled) \in Nat /\ Len(released) \in Nat /\ Len(entitled') \in Nat /\ Len(released') \in Nat
    BY LenProperties DEF ProjectionInv, RowsTyped
<1>2. ProjectionsAreSnapshots'
    BY <1>1 DEF ProjectionInv, ProjectionsAreSnapshots, SourcesGrow
<1>3. \A r \in Replicas : Genuine(fetched[r])'
    BY GenuineStays DEF ProjectionInv
<1>4. Forward
    BY DEF Forward, ProjectionInv, RowsTyped
<1> QED
    BY <1>2, <1>3, <1>4 DEF ProjectionInv

\* A replica fetches what its source has now, or drops what it fetched.
LEMMA SnapshotTaken ==
    ASSUME ProjectionInv, UNCHANGED <<now, sources, readModels>>,
           NEW r \in Replicas, NEW q, Genuine(q), fetched' = [fetched EXCEPT ![r] = q]
    PROVE  ProjectionInv' /\ Forward
<1>1. UNCHANGED <<now, entitled, released, projection, registry, domain>>
    BY DEF sources, readModels
<1>2. RowsTyped'
    BY <1>1 DEF ProjectionInv, RowsTyped
<1>3. ProjectionsAreSnapshots'
    BY <1>1 DEF ProjectionInv, ProjectionsAreSnapshots
<1>4. \A x \in Replicas : Genuine(fetched[x])'
  <2> TAKE x \in Replicas
  <2>1. fetched'[x] = IF x = r THEN q ELSE fetched[x]
    BY DEF ProjectionInv, RowsTyped
  <2>2. Genuine(fetched'[x])
    BY <2>1 DEF ProjectionInv
  <2> QED
    BY <1>1, <2>2 DEF Genuine
<1>5. Forward
    BY <1>1 DEF Forward, ProjectionInv, RowsTyped
<1> QED
    BY <1>2, <1>3, <1>4, <1>5 DEF ProjectionInv

LEMMA SourceSteps ==
    ASSUME ProjectionInv,
           \/ Tick
           \/ \E codes \in SUBSET Permissions : Entitle(codes)
           \/ \E contributions \in SUBSET Contributions : Activate(contributions)
    PROVE  ProjectionInv' /\ Forward
<1>1. /\ Len(entitled) \in Nat \ {0} /\ Len(released) \in Nat
      /\ entitled \in Seq(Entitlement) /\ released \in Seq(SUBSET Contributions)
      /\ now \in Nat
    BY LenProperties DEF ProjectionInv, RowsTyped, ProjectionsAreSnapshots
<1>2. CASE Tick
  <2>1. UNCHANGED <<entitled, released, projection, registry, domain, fetched>> /\ now' = now + 1
    BY <1>2 DEF Tick, sources, readModels
  <2>2. RowsTyped' /\ SourcesGrow
    BY <1>1, <2>1 DEF ProjectionInv, RowsTyped, SourcesGrow
  <2> QED
    BY <2>1, <2>2, NothingStored DEF ProjectionInv, RowsTyped
<1>3. ASSUME NEW codes \in SUBSET Permissions, Entitle(codes)
      PROVE  ProjectionInv' /\ Forward
  <2> DEFINE n == Len(entitled)
             ended == [codes |-> entitled[n].codes, until |-> now]
             last == [codes |-> codes, until |-> None]
             closed == [entitled EXCEPT ![n] = ended]
  <2>1. /\ UNCHANGED <<now, released, projection, registry, domain, fetched>>
        /\ entitled' = Append([entitled EXCEPT ![n].until = now], last)
    BY <1>3 DEF Entitle, readModels
  <2>2. n \in 1..n /\ entitled[n] \in Entitlement
    BY <1>1, ElementOfSeq
  <2>3. ended \in Entitlement /\ last \in Entitlement
    BY <1>1, <2>2 DEF Entitlement
  <2>4. [entitled EXCEPT ![n].until = now] = closed
    <3>1. [entitled[n] EXCEPT !.until = now] = ended
        BY <2>2 DEF Entitlement
    <3> QED
        BY <3>1
  <2>5. /\ closed \in Seq(Entitlement) /\ Len(closed) = n
        /\ \A j \in 1..n : closed[j] = IF j = n THEN ended ELSE entitled[j]
    BY <1>1, <2>2, <2>3, ExceptSeq
  <2>6. entitled' = Append(closed, last)
    BY <2>1, <2>4
  <2> HIDE DEF closed
  <2>7. /\ entitled' \in Seq(Entitlement) /\ Len(entitled') = n + 1
        /\ \A j \in 1..n : entitled'[j] = closed[j]
    BY <2>3, <2>5, <2>6, AppendProperties
  <2>8. SourcesGrow
    BY <1>1, <2>1, <2>5, <2>7 DEF SourcesGrow
  <2>9. RowsTyped'
    BY <2>1, <2>7 DEF ProjectionInv, RowsTyped
  <2> QED
    BY <2>1, <2>8, <2>9, NothingStored DEF ProjectionInv, RowsTyped
<1>4. ASSUME NEW c \in SUBSET Contributions, Activate(c)
      PROVE  ProjectionInv' /\ Forward
  <2>1. /\ UNCHANGED <<now, entitled, projection, registry, domain, fetched>>
        /\ released' = Append(released, c)
    BY <1>4 DEF Activate, readModels
  <2>2. /\ released' \in Seq(SUBSET Contributions) /\ Len(released') = Len(released) + 1
        /\ \A j \in 1..Len(released) : released'[j] = released[j]
    BY <1>1, <2>1, AppendProperties
  <2>3. RowsTyped' /\ SourcesGrow
    BY <1>1, <2>1, <2>2 DEF ProjectionInv, RowsTyped, SourcesGrow
  <2> QED
    BY <2>1, <2>3, NothingStored DEF ProjectionInv, RowsTyped
<1> QED
    BY <1>2, <1>3, <1>4

\* A snapshot is stored, refreshes the one that is there, or is refused.
LEMMA EntitlementStored ==
    ASSUME ProjectionInv, NEW r \in Replicas, StoreEntitlement(r)
    PROVE  ProjectionInv' /\ Forward
<1> DEFINE q == fetched[r]
<1>1. /\ UNCHANGED <<now, entitled, released, registry>>
      /\ q # None /\ q.of = "entitlement"
      /\ ReplaceEntitlement(q)
      /\ fetched' = [fetched EXCEPT ![r] = None]
    BY DEF StoreEntitlement, sources
<1>2. /\ q.revision \in 1..Len(entitled) /\ q.content = entitled[q.revision].codes
      /\ Len(entitled) \in Nat /\ entitled[q.revision] \in Entitlement
    BY <1>1, LenProperties, ElementOfSeq DEF ProjectionInv, RowsTyped, Genuine
<1>3. q.content \in SUBSET Permissions /\ q.revision \in Nat
    BY <1>2 DEF Entitlement
<1> HIDE DEF q
<1>4. /\ projection'.revision \in {projection.revision, q.revision}
      /\ projection'.revision >= projection.revision
      /\ projection' \in [revision : Nat, codes : SUBSET Permissions, at : Nat]
      /\ domain' \in [revision : Nat, entitlement : Nat]
      /\ domain'.entitlement = projection'.revision
      /\ projection'.codes = entitled[projection'.revision].codes
      /\ domain'.revision >= domain.revision
      /\ projection'.codes # projection.codes => domain'.revision > domain.revision
  <2>1. CASE Decide(projection, q) = "refresh"
    <3>1. projection' = [projection EXCEPT !.at = now] /\ UNCHANGED domain
        BY <1>1, <2>1 DEF ReplaceEntitlement
    <3> QED
        BY <3>1 DEF ProjectionInv, RowsTyped, ProjectionsAreSnapshots
  <2>2. CASE Decide(projection, q) = "replace"
    <3>1. /\ projection' = [revision |-> q.revision, codes |-> q.content, at |-> now]
          /\ domain' = [revision |-> domain.revision + 1, entitlement |-> q.revision]
        BY <1>1, <2>2 DEF ReplaceEntitlement
    <3>2. q.revision > projection.revision
        BY <1>3, <2>2 DEF Decide, ProjectionInv, RowsTyped
    <3> QED
        BY <1>2, <1>3, <3>1, <3>2 DEF ProjectionInv, RowsTyped, ProjectionsAreSnapshots
  <2>3. CASE Decide(projection, q) \notin {"refresh", "replace"}
    <3>1. UNCHANGED <<projection, domain>>
        BY <1>1, <2>3 DEF ReplaceEntitlement
    <3> QED
        BY <3>1 DEF ProjectionInv, RowsTyped, ProjectionsAreSnapshots
  <2> QED
    BY <2>1, <2>2, <2>3
<1>5. RowsTyped'
    BY <1>1, <1>4 DEF ProjectionInv, RowsTyped
<1>6. ProjectionsAreSnapshots'
    BY <1>1, <1>2, <1>4 DEF ProjectionInv, ProjectionsAreSnapshots
<1>7. \A x \in Replicas : Genuine(fetched[x])'
  <2> TAKE x \in Replicas
  <2>1. fetched'[x] = IF x = r THEN None ELSE fetched[x]
    BY <1>1 DEF ProjectionInv, RowsTyped
  <2>2. Genuine(fetched'[x])
    BY <2>1 DEF ProjectionInv, Genuine
  <2> QED
    BY <1>1, <2>2 DEF Genuine
<1>8. Forward
    BY <1>1, <1>4 DEF Forward, ProjectionInv, RowsTyped
<1> QED
    BY <1>5, <1>6, <1>7, <1>8 DEF ProjectionInv

LEMMA RegistryStored ==
    ASSUME ProjectionInv, NEW r \in Replicas, StoreRegistry(r)
    PROVE  ProjectionInv' /\ Forward
<1> DEFINE q == fetched[r]
<1>1. /\ UNCHANGED <<now, entitled, released, projection, domain>>
      /\ q # None /\ q.of = "registry"
      /\ ReplaceRegistry(q)
      /\ fetched' = [fetched EXCEPT ![r] = None]
    BY DEF StoreRegistry, sources
<1>2. /\ q.revision \in 1..Len(released) /\ q.content = released[q.revision]
      /\ Len(released) \in Nat /\ released[q.revision] \in SUBSET Contributions
    BY <1>1, LenProperties, ElementOfSeq DEF ProjectionInv, RowsTyped, Genuine
<1>3. q.content \in SUBSET Contributions /\ q.revision \in Nat
      /\ Assignable(q.content) \in SUBSET Permissions
    BY <1>2, AssignableTyped
<1> HIDE DEF q
<1>4. /\ registry'.revision \in {registry.revision, q.revision}
      /\ registry'.revision >= registry.revision
      /\ registry' \in [revision : Nat, contributions : SUBSET Contributions,
                        active : SUBSET Permissions, at : Nat]
      /\ registry'.contributions = released[registry'.revision]
      /\ registry'.active = Assignable(released[registry'.revision])
  <2>1. CASE UNCHANGED registry
    BY <2>1 DEF ProjectionInv, RowsTyped, ProjectionsAreSnapshots
  <2>2. CASE registry' = [registry EXCEPT !.at = now]
    <3>1. /\ registry' \in [revision : Nat, contributions : SUBSET Contributions,
                            active : SUBSET Permissions, at : Nat]
          /\ registry'.revision = registry.revision
          /\ registry'.contributions = registry.contributions
          /\ registry'.active = registry.active
        BY <2>2 DEF ProjectionInv, RowsTyped
    <3>2. registry.revision \in Nat
        BY DEF ProjectionInv, RowsTyped
    <3> QED
        BY <3>1, <3>2 DEF ProjectionInv, ProjectionsAreSnapshots
  <2>3. CASE q.revision > registry.revision /\ registry' = RegistryRows(q)
    BY <1>2, <1>3, <2>3 DEF RegistryRows, ProjectionInv, RowsTyped, ProjectionsAreSnapshots
  <2>4. registry.revision \in Nat
    BY DEF ProjectionInv, RowsTyped
  <2> QED
    BY <1>1, <1>3, <2>1, <2>2, <2>3, <2>4 DEF ReplaceRegistry
<1>5. RowsTyped'
    BY <1>1, <1>4 DEF ProjectionInv, RowsTyped
<1>6. ProjectionsAreSnapshots'
    BY <1>1, <1>2, <1>4 DEF ProjectionInv, ProjectionsAreSnapshots
<1>7. \A x \in Replicas : Genuine(fetched[x])'
  <2> TAKE x \in Replicas
  <2>1. fetched'[x] = IF x = r THEN None ELSE fetched[x]
    BY <1>1 DEF ProjectionInv, RowsTyped
  <2>2. Genuine(fetched'[x])
    BY <2>1 DEF ProjectionInv, Genuine
  <2> QED
    BY <1>1, <2>2 DEF Genuine
<1>8. Forward
    BY <1>1, <1>4 DEF Forward, ProjectionInv, RowsTyped
<1> QED
    BY <1>5, <1>6, <1>7, <1>8 DEF ProjectionInv

LEMMA EveryStep == ProjectionInv /\ [Next]_vars => ProjectionInv' /\ Forward
<1> SUFFICES ASSUME ProjectionInv, [Next]_vars PROVE ProjectionInv' /\ Forward
    OBVIOUS
<1>1. CASE ChangeRole \/ MemberCommand \/ Access
  <2>1. /\ UNCHANGED <<now, entitled, released, projection, registry, fetched>>
        /\ domain' = domain \/ Bump
    BY <1>1, CommandsKeepProjections
  <2>2. /\ domain' \in [revision : Nat, entitlement : Nat]
        /\ domain'.entitlement = domain.entitlement /\ domain'.revision >= domain.revision
    BY <2>1 DEF Bump, ProjectionInv, RowsTyped
  <2>3. RowsTyped' /\ SourcesGrow
    BY <2>1, <2>2 DEF ProjectionInv, RowsTyped, SourcesGrow
  <2> QED
    BY <2>1, <2>2, <2>3, NothingStored
<1>2. ASSUME NEW r \in Replicas, FetchEntitlement(r) PROVE ProjectionInv' /\ Forward
  <2> DEFINE q == [of |-> "entitlement", revision |-> Len(entitled), at |-> now,
                   content |-> entitled[Len(entitled)].codes]
  <2>1. Genuine(q)
    BY LenProperties DEF Genuine, ProjectionInv, RowsTyped, ProjectionsAreSnapshots
  <2>2. fetched' = [fetched EXCEPT ![r] = q] /\ UNCHANGED <<now, sources, readModels>>
    BY <1>2 DEF FetchEntitlement
  <2> QED
    BY <2>1, <2>2, SnapshotTaken
<1>3. ASSUME NEW r \in Replicas, FetchRegistry(r) PROVE ProjectionInv' /\ Forward
  <2> DEFINE q == [of |-> "registry", revision |-> Len(released), at |-> now,
                   content |-> released[Len(released)]]
  <2>1. Genuine(q)
    BY LenProperties DEF Genuine, ProjectionInv, RowsTyped, ProjectionsAreSnapshots
  <2>2. fetched' = [fetched EXCEPT ![r] = q] /\ UNCHANGED <<now, sources, readModels>>
    BY <1>3 DEF FetchRegistry
  <2> QED
    BY <2>1, <2>2, SnapshotTaken
<1>4. ASSUME NEW r \in Replicas, GiveUp(r) PROVE ProjectionInv' /\ Forward
  <2>1. Genuine(None)
    BY DEF Genuine
  <2> QED
    BY <1>4, <2>1, SnapshotTaken DEF GiveUp
<1>5. CASE UNCHANGED vars
  <2>1. UNCHANGED <<now, entitled, released, projection, registry, domain, fetched>>
    BY <1>5 DEF vars, projections
  <2>2. RowsTyped' /\ SourcesGrow
    BY <2>1, LenProperties DEF ProjectionInv, RowsTyped, SourcesGrow
  <2> QED
    BY <2>1, <2>2, NothingStored DEF ProjectionInv, RowsTyped
<1> QED
    BY <1>1, <1>2, <1>3, <1>4, <1>5, SourceSteps, EntitlementStored, RegistryStored
    DEF Next, ProjectionsNext

-----------------------------------------------------------------------------
(* The theorems                                                            *)

\* Both read models always are one whole snapshot of their source, and the
\* domain names the one of the entitlements, for any number of replicas that
\* fetch and store in any order, while members and roles change.
THEOREM SnapshotsAreWhole == Spec => []ProjectionsAreSnapshots
<1>1. Spec => []ProjectionInv
    BY ProjectionInit, EveryStep, PTL DEF Spec
<1> QED
    BY <1>1, PTL DEF ProjectionInv

\* No step takes a read model, or the revision of the domain, back, and the
\* revision counts every change of the entitled permissions.
THEOREM NeverBack == Spec => ProjectionsNeverGoBack
<1>1. Spec => []ProjectionInv
    BY ProjectionInit, EveryStep, PTL DEF Spec
<1>2. ProjectionInv /\ [Next]_vars
        => [/\ projection'.revision >= projection.revision
            /\ registry'.revision >= registry.revision
            /\ domain'.revision >= domain.revision
            /\ projection'.codes # projection.codes
                    => domain'.revision > domain.revision]_projections
    BY EveryStep DEF Forward
<1> QED
    BY <1>1, <1>2, PTL DEF Spec, ProjectionsNeverGoBack

-----------------------------------------------------------------------------
(* Grants keep pace with members.  Of the rows only the access versions and*)
(* the shape matter; a pending command names a member.                     *)

Grant == [roles : SUBSET Roles, version : Nat]

InPace(s) == grant[s].roles # {} => grant[s].version = member[s].access

PendingTyped ==
    pending # None =>
        /\ pending.subject \in Subjects /\ pending.roles \in SUBSET Roles
        /\ pending.op = "update" => /\ pending.shops \in SUBSET Shops
                                    /\ pending.units \in SUBSET Units

GrantInv ==
    /\ member \in [Subjects -> Member]
    /\ grant \in [Subjects -> Grant]
    /\ PendingTyped
    /\ \A s \in Subjects : InPace(s)

LEMMA GrantInit == Init => GrantInv
<1> SUFFICES ASSUME Init PROVE GrantInv
    OBVIOUS
<1>1. PICK staff \in SUBSET Workforce, units \in SUBSET Units, h \in Shops :
        Staffed(staff, units, h)
    BY DEF Init
<1>2. Owner \notin staff
    BY OwnerAssumption
<1>3. ASSUME NEW x \in Subjects
      PROVE  member[x] \in Member /\ grant[x] \in Grant /\ InPace(x)
  <2>1. CASE x \in staff
    BY <1>1, <1>2, <2>1 DEF Staffed, Absent, Member, Grant, InPace
  <2>2. CASE x \notin staff
    BY <1>1, <1>2, <2>2 DEF Staffed, Absent, Member, Grant, NoGrant, InPace
  <2> QED
    BY <2>1, <2>2
<1>4. pending = None
    BY DEF Init
<1> QED
    BY <1>1, <1>3, <1>4 DEF Staffed, GrantInv, PendingTyped

\* One member changes, its grants with it, and everything else stays.
LEMMA OneMemberMoves ==
    ASSUME GrantInv, PendingTyped', NEW s \in Subjects, NEW m \in Member, NEW g \in Grant,
           member' = [member EXCEPT ![s] = m], grant' = [grant EXCEPT ![s] = g],
           g.roles # {} => g.version = m.access
    PROVE  GrantInv'
<1>1. member' \in [Subjects -> Member] /\ grant' \in [Subjects -> Grant]
    BY DEF GrantInv
<1>2. ASSUME NEW x \in Subjects PROVE InPace(x)'
  <2>1. CASE x = s
    BY <2>1 DEF GrantInv, InPace
  <2>2. CASE x # s
    BY <2>2 DEF GrantInv, InPace
  <2> QED
    BY <2>1, <2>2
<1> QED
    BY <1>1, <1>2 DEF GrantInv

\* Carried grants are those the member had, at its new version.
LEMMA Carried ==
    ASSUME GrantInv, NEW s \in Subjects, NEW new \in Nat,
           CarryGrants(s, member[s].access, new)
    PROVE  \E g \in Grant : /\ grant' = [grant EXCEPT ![s] = g]
                            /\ g.roles # {} => g.version = new
<1>1. grant[s] \in Grant /\ InPace(s)
    BY DEF GrantInv
<1>2. CASE grant[s].roles # {}
  <2>1. grant' = [grant EXCEPT ![s].version = new]
    BY <1>1, <1>2 DEF CarryGrants, InPace
  <2> DEFINE g == [grant[s] EXCEPT !.version = new]
  <2>2. g \in Grant /\ g.version = new
    BY <1>1 DEF Grant
  <2>3. grant' = [grant EXCEPT ![s] = g]
    BY <2>1
  <2> QED
    BY <2>2, <2>3
<1>3. CASE grant[s].roles = {}
  <2>1. grant' = grant
    BY <1>3 DEF CarryGrants
  <2>2. grant' = [grant EXCEPT ![s] = grant[s]]
    BY <2>1 DEF GrantInv
  <2> QED
    BY <1>1, <1>3, <2>2
<1> QED
    BY <1>2, <1>3

\* The commands that move a member, each a step of OneMemberMoves.
LEMMA AccessReplaced ==
    ASSUME GrantInv, NEW s \in Subjects, NEW kind \in {"OPERATE", "ANCHOR"},
           NEW shops \in SUBSET Shops, NEW units \in SUBSET Units,
           ReplaceMemberAccess(s, kind, shops, units)
    PROVE  GrantInv'
<1> DEFINE next == member[s].access + 1
           m == [member[s] EXCEPT !.access = next, !.kind = kind, !.shops = shops,
                                  !.units = units]
<1>1. member[s] \in Member /\ next \in Nat
    BY DEF GrantInv, Member
<1>2. m \in Member /\ m.access = next
    BY <1>1 DEF Member
<1>3. member' = [member EXCEPT ![s] = m]
    BY DEF ReplaceMemberAccess
<1>4. CarryGrants(s, member[s].access, next) /\ UNCHANGED pending
    BY DEF ReplaceMemberAccess
<1>5. PICK g \in Grant : /\ grant' = [grant EXCEPT ![s] = g]
                         /\ g.roles # {} => g.version = next
    BY <1>1, <1>4, Carried
<1>6. PendingTyped'
    BY <1>4 DEF GrantInv, PendingTyped
<1> QED
    BY <1>2, <1>3, <1>5, <1>6, OneMemberMoves

LEMMA StatusChanged ==
    ASSUME GrantInv, NEW s \in Subjects, NEW target \in {"ACTIVE", "DISABLED"},
           ChangeUserStatus(s, target)
    PROVE  GrantInv'
<1> DEFINE next == member[s].access + 1
           m == [member[s] EXCEPT !.status = target, !.identity = member[s].identity + 1,
                                  !.access = next]
<1>1. member[s] \in Member /\ next \in Nat /\ member[s].identity + 1 \in Nat
    BY DEF GrantInv, Member
<1>2. m \in Member /\ m.access = next
    BY <1>1 DEF Member
<1>3. member' = [member EXCEPT ![s] = m]
    BY DEF ChangeUserStatus
<1>4. CarryGrants(s, member[s].access, next) /\ UNCHANGED pending
    BY DEF ChangeUserStatus
<1>5. PICK g \in Grant : /\ grant' = [grant EXCEPT ![s] = g]
                         /\ g.roles # {} => g.version = next
    BY <1>1, <1>4, Carried
<1>6. PendingTyped'
    BY <1>4 DEF GrantInv, PendingTyped
<1> QED
    BY <1>2, <1>3, <1>5, <1>6, OneMemberMoves

LEMMA UpdateCommitted ==
    ASSUME GrantInv, CommitUpdate
    PROVE  GrantInv'
<1> DEFINE q == pending
           s == q.subject
           next == IF AccessChanged(q) THEN member[s].access + 1 ELSE member[s].access
           identity == IF q.rename THEN member[s].identity + 1 ELSE member[s].identity
           kind == IF q.shops # member[s].shops THEN KindOf(member[s].type) ELSE member[s].kind
           m == [member[s] EXCEPT !.identity = identity, !.access = next, !.units = q.units,
                                  !.shops = q.shops, !.kind = kind]
<1>1. /\ q # None /\ q.op = "update" /\ pending' = None
      /\ UpdateGrants(q, next)
    BY DEF CommitUpdate
<1>2. /\ s \in Subjects /\ q.roles \in SUBSET Roles
      /\ q.shops \in SUBSET Shops /\ q.units \in SUBSET Units
    BY <1>1 DEF GrantInv, PendingTyped
<1>3. member[s] \in Member /\ grant[s] \in Grant /\ InPace(s)
    BY <1>2 DEF GrantInv
<1>4. next \in Nat /\ identity \in Nat /\ kind \in {"OPERATE", "ANCHOR"}
    BY <1>3 DEF Member, KindOf
<1>5. m \in Member /\ m.access = next
    BY <1>2, <1>3, <1>4 DEF Member
<1>6. member' = [member EXCEPT ![s] = m]
    BY DEF CommitUpdate
<1>7. PICK g \in Grant : /\ grant' = [grant EXCEPT ![s] = g]
                         /\ g.roles # {} => g.version = next
  <2>1. CASE q.roles # grant[s].roles
    <3>1. grant' = [grant EXCEPT ![s] = [roles |-> q.roles, version |-> next]]
        BY <1>1, <2>1 DEF UpdateGrants, GrantAt
    <3>2. [roles |-> q.roles, version |-> next] \in Grant
        BY <1>2, <1>4 DEF Grant
    <3> QED
        BY <3>1, <3>2
  <2>2. CASE q.roles = grant[s].roles /\ AccessChanged(q)
    <3>1. CarryGrants(s, member[s].access, next)
        BY <1>1, <2>2 DEF UpdateGrants
    <3> QED
        BY <1>2, <1>4, <3>1, Carried
  <2>3. CASE q.roles = grant[s].roles /\ ~AccessChanged(q)
    <3>1. UNCHANGED grant /\ next = member[s].access
        BY <1>1, <2>3 DEF UpdateGrants
    <3>2. grant' = [grant EXCEPT ![s] = grant[s]]
        BY <3>1 DEF GrantInv
    <3> QED
        BY <1>3, <3>1, <3>2 DEF InPace
  <2> QED
    BY <2>1, <2>2, <2>3
<1>8. PendingTyped'
    BY <1>1 DEF PendingTyped
<1> HIDE DEF m, next, s
<1> QED
    BY <1>2, <1>5, <1>6, <1>7, <1>8, OneMemberMoves

LEMMA GrantsCommitted ==
    ASSUME GrantInv, CommitGrants
    PROVE  GrantInv'
<1> DEFINE q == pending
           s == q.subject
           g == [roles |-> q.roles, version |-> q.access]
<1>1. /\ q # None /\ pending' = None /\ member' = member
      /\ grant' = [grant EXCEPT ![s] = g] /\ member[s].access = q.access
    BY DEF CommitGrants, GrantAt
<1>2. s \in Subjects /\ q.roles \in SUBSET Roles /\ member[s] \in Member
    BY <1>1 DEF GrantInv, PendingTyped
<1>3. g \in Grant /\ g.version = member[s].access
    BY <1>1, <1>2 DEF Grant, Member
<1>4. member' = [member EXCEPT ![s] = member[s]]
    BY <1>1 DEF GrantInv
<1>5. PendingTyped'
    BY <1>1 DEF PendingTyped
<1> HIDE DEF g, s
<1> QED
    BY <1>1, <1>2, <1>3, <1>4, <1>5, OneMemberMoves

LEMMA MemberProvisioned ==
    ASSUME GrantInv, NEW s \in Workforce, NEW type \in {"STAFF", "ANCHOR"},
           NEW shops \in SUBSET Shops, NEW units \in SUBSET Units, NEW roles \in SUBSET Roles,
           ProvisionMember(s, type, shops, units, roles)
    PROVE  GrantInv'
<1> DEFINE m == [status |-> "ACTIVE", type |-> type, identity |-> 1, access |-> 1,
                 kind |-> KindOf(type), shops |-> shops, units |-> units]
           g == [roles |-> roles, version |-> 1]
<1>1. member' = [member EXCEPT ![s] = m] /\ grant' = [grant EXCEPT ![s] = g] /\ UNCHANGED pending
    BY DEF ProvisionMember
<1>2. m \in Member /\ m.access = 1 /\ g \in Grant /\ g.version = 1 /\ s \in Subjects
    BY DEF Member, Grant, KindOf, Subjects
<1>3. PendingTyped'
    BY <1>1 DEF GrantInv, PendingTyped
<1> HIDE DEF m, g
<1> QED
    BY <1>1, <1>2, <1>3, OneMemberMoves

\* Everything else leaves members and grants alone.
LEMMA RowsUntouched ==
    ASSUME GrantInv, UNCHANGED <<member, grant>>, PendingTyped'
    PROVE  GrantInv'
<1>1. \A s \in Subjects : InPace(s)'
    BY DEF GrantInv, InPace
<1> QED
    BY <1>1 DEF GrantInv

LEMMA GrantStep == GrantInv /\ [Next]_vars => GrantInv'
<1> SUFFICES ASSUME GrantInv, [Next]_vars PROVE GrantInv'
    OBVIOUS
<1>1. CASE MemberCommand
  <2>1. ASSUME NEW u \in Units, CreateOrganizationUnit(u) PROVE GrantInv'
    BY <2>1, RowsUntouched DEF CreateOrganizationUnit, GrantInv, PendingTyped
  <2>2. ASSUME NEW s \in Subjects, NEW rename \in BOOLEAN, NEW shops \in SUBSET Shops,
               NEW units \in SUBSET Units, NEW roles \in SUBSET Roles,
               BeginUpdate(s, rename, shops, units, roles)
        PROVE  GrantInv'
    <3>1. PendingTyped' /\ UNCHANGED <<member, grant>>
        BY <2>2 DEF BeginUpdate, PendingTyped, directory
    <3> QED
        BY <3>1, RowsUntouched
  <2>3. ASSUME NEW h \in Shops, SetShopEnabled(h) PROVE GrantInv'
    BY <2>3, RowsUntouched DEF SetShopEnabled, GrantInv, PendingTyped
  <2>4. ASSUME NEW s \in Subjects, NEW roles \in SUBSET Roles, BeginGrants(s, roles)
        PROVE  GrantInv'
    <3>1. PendingTyped' /\ UNCHANGED <<member, grant>>
        BY <2>4 DEF BeginGrants, PendingTyped, directory
    <3> QED
        BY <3>1, RowsUntouched
  <2>5. CASE Abandon
    BY <2>5, RowsUntouched DEF Abandon, PendingTyped, directory
  <2> QED
    BY <1>1, <2>1, <2>2, <2>3, <2>4, <2>5, MemberProvisioned, AccessReplaced, UpdateCommitted,
       StatusChanged, GrantsCommitted DEF MemberCommand
<1>2. CASE ChangeRole
    BY <1>2, RowsUntouched DEF ChangeRole, GrantInv, PendingTyped
<1>3. CASE Access
  <2>1. UNCHANGED <<member, grant, pending>>
    BY <1>3 DEF Access, Login, SwitchContext, ReadSession, ReadRow, ReadUnits, ReadShops, Refuse,
           Issue, ReadStep, directory
  <2> QED
    BY <2>1, RowsUntouched DEF GrantInv, PendingTyped
<1>4. CASE UNCHANGED <<member, grant, pending>>
    BY <1>4, RowsUntouched DEF GrantInv, PendingTyped
<1> QED
    BY <1>1, <1>2, <1>3, <1>4 DEF Next, vars, directory, requests

\* Whichever command moves a member's access version, and however UpdateMember
\* and ReplaceSubjectGrants overlap with the others, no grant is left behind.
THEOREM GrantsKeepPace == Spec => []GrantsFollowMembers
<1>1. GrantInv => GrantsFollowMembers
    BY DEF GrantInv, InPace, GrantsFollowMembers, Subjects
<1> QED
    BY <1>1, GrantInit, GrantStep, PTL DEF Spec

-----------------------------------------------------------------------------
(* Ages.  A snapshot of the entitlements was in force when it was fetched, *)
(* and is stored at most CallTimeout later.                                *)

\* Revision i was in force at time t, or until at most slack before.
InForce(i, t, slack) == entitled[i].until # None => entitled[i].until + slack >= t

AgeInv ==
    /\ fetched \in [Replicas -> Fetched \cup {None}]
    /\ entitled[Len(entitled)].until = None
    /\ projection.at <= now
    /\ InForce(projection.revision, projection.at, CallTimeout)
    /\ \A r \in Replicas : fetched[r] # None /\ fetched[r].of = "entitlement" =>
            fetched[r].at <= now /\ InForce(fetched[r].revision, fetched[r].at, 0)

LEMMA AgeInit == Init => AgeInv
<1> SUFFICES ASSUME Init PROVE AgeInv
    OBVIOUS
<1>1. /\ now = 0
      /\ entitled = <<[codes |-> Permissions, until |-> None]>>
      /\ projection = [revision |-> 1, codes |-> Permissions, at |-> 0]
      /\ fetched = [r \in Replicas |-> None]
    BY DEF Init, ProjectionsInit
<1> QED
    BY <1>1 DEF AgeInv, InForce

LEMMA Untils ==
    ASSUME ProjectionInv, NEW i \in 1..Len(entitled)
    PROVE  entitled[i].until \in Nat \cup {None}
<1>1. entitled[i] \in Entitlement
    BY ElementOfSeq DEF ProjectionInv, RowsTyped
<1> QED
    BY <1>1 DEF Entitlement

\* What an entitlement's end does to the others: nothing, and its own is now.
LEMMA Ended ==
    ASSUME ProjectionInv, NEW codes \in SUBSET Permissions, Entitle(codes)
    PROVE  /\ Len(entitled') = Len(entitled) + 1 /\ entitled'[Len(entitled')].until = None
           /\ \A i \in 1..Len(entitled) :
                entitled'[i].until = IF i = Len(entitled) THEN now ELSE entitled[i].until
<1> DEFINE n == Len(entitled)
           ended == [codes |-> entitled[n].codes, until |-> now]
           last == [codes |-> codes, until |-> None]
           closed == [entitled EXCEPT ![n] = ended]
<1>1. n \in Nat \ {0} /\ entitled \in Seq(Entitlement) /\ now \in Nat
    BY LenProperties DEF ProjectionInv, RowsTyped, ProjectionsAreSnapshots
<1>2. n \in 1..n /\ entitled[n] \in Entitlement
    BY <1>1, ElementOfSeq
<1>3. ended \in Entitlement /\ last \in Entitlement /\ ended.until = now /\ last.until = None
    BY <1>1, <1>2 DEF Entitlement
<1>4. [entitled EXCEPT ![n].until = now] = closed
  <2>1. [entitled[n] EXCEPT !.until = now] = ended
    BY <1>2 DEF Entitlement
  <2> QED
    BY <2>1
<1>5. /\ closed \in Seq(Entitlement) /\ Len(closed) = n
      /\ \A j \in 1..n : closed[j] = IF j = n THEN ended ELSE entitled[j]
    BY <1>1, <1>2, <1>3, ExceptSeq
<1>6. entitled' = Append(closed, last)
    BY <1>4 DEF Entitle
<1> HIDE DEF closed, ended, last
<1>7. /\ Len(entitled') = n + 1 /\ entitled'[n + 1] = last
      /\ \A j \in 1..n : entitled'[j] = closed[j]
    BY <1>3, <1>5, <1>6, AppendProperties
<1> QED
    BY <1>1, <1>3, <1>5, <1>7

\* A replica gets another snapshot or none.
LEMMA FetchedAge ==
    ASSUME AgeInv, UNCHANGED <<now, entitled, projection>>, NEW r \in Replicas,
           NEW q \in Fetched \cup {None}, fetched' = [fetched EXCEPT ![r] = q],
           q # None /\ q.of = "entitlement" => q.at <= now /\ InForce(q.revision, q.at, 0)
    PROVE  AgeInv'
<1>1. /\ fetched' \in [Replicas -> Fetched \cup {None}]
      /\ \A x \in Replicas : fetched'[x] = IF x = r THEN q ELSE fetched[x]
    BY DEF AgeInv
<1> QED
    BY <1>1 DEF AgeInv, InForce

LEMMA AgeStored ==
    ASSUME ProjectionInv, AgeInv, NEW r \in Replicas, StoreEntitlement(r)
    PROVE  AgeInv'
<1> DEFINE q == fetched[r]
<1>1. /\ UNCHANGED <<now, entitled>> /\ q # None /\ q.of = "entitlement"
      /\ now <= q.at + CallTimeout /\ ReplaceEntitlement(q)
      /\ fetched' = [fetched EXCEPT ![r] = None]
    BY DEF StoreEntitlement, sources
<1>2. /\ q.at <= now /\ InForce(q.revision, q.at, 0) /\ q.at \in Nat
      /\ q.revision \in 1..Len(entitled)
    BY <1>1 DEF AgeInv, Fetched, ProjectionInv, Genuine
<1>3. InForce(q.revision, now, CallTimeout) /\ now \in Nat
  <2>1. entitled[q.revision].until \in Nat \cup {None}
    BY <1>2, Untils
  <2>2. now \in Nat
    BY DEF ProjectionInv, RowsTyped
  <2>3. entitled[q.revision].until # None => entitled[q.revision].until + 0 >= q.at
    BY <1>2 DEF InForce
  <2>4. now <= q.at + CallTimeout /\ q.at \in Nat
    BY <1>1, <1>2
  <2> DEFINE u == entitled[q.revision].until
             at == q.at
  <2> HIDE DEF q, u, at
  <2>5. u # None => u + CallTimeout >= now
    BY ONLY <2>1, <2>2, <2>3, <2>4, StalenessAssumption DEF u, at
  <2> QED
    BY <2>2, <2>5 DEF InForce, u
<1> HIDE DEF q
<1>4. \/ UNCHANGED projection
      \/ projection'.revision = q.revision /\ projection'.at = now
  <2>1. CASE Decide(projection, q) = "refresh"
    <3>1. projection.revision = q.revision
        BY <1>2, <2>1 DEF Decide, ProjectionInv, RowsTyped
    <3> QED
        BY <1>1, <2>1, <3>1 DEF ReplaceEntitlement, ProjectionInv, RowsTyped
  <2>2. CASE Decide(projection, q) = "replace"
    BY <1>1, <2>2 DEF ReplaceEntitlement
  <2>3. CASE Decide(projection, q) \notin {"refresh", "replace"}
    BY <1>1, <2>3 DEF ReplaceEntitlement
  <2> QED
    BY <2>1, <2>2, <2>3
<1>5. projection'.at <= now /\ InForce(projection'.revision, projection'.at, CallTimeout)
    BY <1>3, <1>4 DEF AgeInv
<1>6. \A x \in Replicas : fetched'[x] = IF x = r THEN None ELSE fetched[x]
    BY <1>1 DEF AgeInv
<1> QED
    BY <1>1, <1>5, <1>6 DEF AgeInv, InForce

LEMMA AgeStep == ProjectionInv /\ AgeInv /\ [Next]_vars => AgeInv'
<1> SUFFICES ASSUME ProjectionInv, AgeInv, [Next]_vars PROVE AgeInv'
    OBVIOUS
<1>1. CASE UNCHANGED <<now, entitled, projection, fetched>>
    BY <1>1 DEF AgeInv, InForce
<1>2. CASE Tick
  <2>1. UNCHANGED <<entitled, projection, fetched>> /\ now' = now + 1 /\ now \in Nat
    BY <1>2 DEF Tick, sources, readModels, ProjectionInv, RowsTyped
  <2>2. projection.at \in Nat /\ \A r \in Replicas : fetched[r] # None => fetched[r].at \in Nat
    BY DEF ProjectionInv, RowsTyped, AgeInv, Fetched
  <2> QED
    BY <2>1, <2>2 DEF AgeInv, InForce
<1>3. ASSUME NEW codes \in SUBSET Permissions, Entitle(codes) PROVE AgeInv'
  <2>1. UNCHANGED <<now, projection, fetched>> /\ now \in Nat
    BY <1>3 DEF Entitle, readModels, ProjectionInv, RowsTyped
  <2>2. \A i \in 1..Len(entitled), t \in Nat, slack \in Nat :
            t <= now /\ InForce(i, t, slack) => InForce(i, t, slack)'
    BY <1>3, <2>1, Ended DEF InForce
  <2>3. projection.revision \in 1..Len(entitled) /\ projection.at \in Nat
    BY DEF ProjectionInv, ProjectionsAreSnapshots, RowsTyped
  <2>4. \A r \in Replicas : fetched[r] # None /\ fetched[r].of = "entitlement" =>
            fetched[r].revision \in 1..Len(entitled) /\ fetched[r].at \in Nat
    BY DEF ProjectionInv, Genuine, AgeInv, Fetched
  <2>5. InForce(projection.revision, projection.at, CallTimeout)'
    BY <2>1, <2>2, <2>3, StalenessAssumption DEF AgeInv
  <2>6. \A r \in Replicas : fetched'[r] # None /\ fetched'[r].of = "entitlement" =>
            fetched'[r].at <= now' /\ InForce(fetched[r].revision, fetched[r].at, 0)'
    BY <2>1, <2>2, <2>4 DEF AgeInv
  <2> QED
    BY <1>3, <2>1, <2>5, <2>6, Ended DEF AgeInv
<1>4. ASSUME NEW r \in Replicas, FetchEntitlement(r) PROVE AgeInv'
  <2> DEFINE n == Len(entitled)
             q == [of |-> "entitlement", revision |-> n, at |-> now,
                   content |-> entitled[n].codes]
  <2>1. n \in 1..n /\ n \in Nat /\ now \in Nat /\ entitled[n] \in Entitlement
    BY LenProperties, ElementOfSeq DEF ProjectionInv, RowsTyped, ProjectionsAreSnapshots
  <2>2. q \in Fetched /\ q.at <= now /\ InForce(q.revision, q.at, 0)
    BY <2>1 DEF Fetched, Entitlement, InForce, AgeInv
  <2>3. fetched' = [fetched EXCEPT ![r] = q] /\ UNCHANGED <<now, entitled, projection>>
    BY <1>4 DEF FetchEntitlement, sources, readModels
  <2> HIDE DEF q
  <2> QED
    BY <2>2, <2>3, FetchedAge
<1>5. ASSUME NEW r \in Replicas, FetchRegistry(r) PROVE AgeInv'
  <2> DEFINE n == Len(released)
             q == [of |-> "registry", revision |-> n, at |-> now, content |-> released[n]]
  <2>1. n \in Nat /\ now \in Nat /\ released[n] \in SUBSET Contributions
    BY LenProperties, ElementOfSeq DEF ProjectionInv, RowsTyped, ProjectionsAreSnapshots
  <2>2. q \in Fetched /\ q.of = "registry"
    BY <2>1 DEF Fetched
  <2>3. fetched' = [fetched EXCEPT ![r] = q] /\ UNCHANGED <<now, entitled, projection>>
    BY <1>5 DEF FetchRegistry, sources, readModels
  <2> HIDE DEF q
  <2> QED
    BY <2>2, <2>3, FetchedAge
<1>6. ASSUME NEW r \in Replicas, GiveUp(r) \/ StoreRegistry(r) PROVE AgeInv'
  <2>1. fetched' = [fetched EXCEPT ![r] = None] /\ UNCHANGED <<now, entitled, projection>>
    BY <1>6 DEF GiveUp, StoreRegistry, sources, readModels
  <2> QED
    BY <2>1, FetchedAge
<1>7. ASSUME NEW contributions, Activate(contributions) PROVE AgeInv'
    BY <1>1, <1>7 DEF Activate, readModels
<1>8. CASE ChangeRole \/ MemberCommand \/ Access
    BY <1>1, <1>8, CommandsKeepProjections
<1>9. CASE UNCHANGED vars
    BY <1>1, <1>9 DEF vars, projections
<1> QED
    BY <1>2, <1>3, <1>4, <1>5, <1>6, <1>7, <1>8, <1>9, AgeStored DEF Next, ProjectionsNext

-----------------------------------------------------------------------------
(* Access.  A capability is worth no more than its subject's standing as    *)
(* long as neither revision it names has moved, and its scopes are those of*)
(* the session it names, which ends when the member's shops or units move. *)

Role == [status : {"ACTIVE", "DISABLED"}, version : Nat,
         permissions : SUBSET Permissions, scope : Scopes]

\* What the roles of s, or the ownership, are worth now.
Standing(s) ==
    (IF member[s].type = "OWNER" THEN Permissions
     ELSE UNION {role[r].permissions : r \in {r \in grant[s].roles : role[r].status = "ACTIVE"}})
    \cap registry.active \cap projection.codes

\* Session q of s, seen earlier, is not ahead of the one s has now.
Behind(q, s) ==
    /\ q.id <= session[s].id
    /\ q.id = session[s].id => q.context <= session[s].context

\* While s still has session q, shops and units are among those assigned to s.
Scoped(s, q, shops, units) ==
    /\ q \in Session /\ q.live /\ Behind(q, s)
    /\ s # Owner /\ session[s] = q =>
            shops \subseteq member[s].shops /\ units \subseteq member[s].units

DirectoryInv ==
    /\ organization \in [version : Nat, units : SUBSET Units]
    /\ open \subseteq Shops
    /\ role \in [Roles -> Role]
    /\ session \in [Subjects -> Session]
    /\ \A s \in Subjects : member[s].type = "OWNER" <=> s = Owner
    /\ \A s \in Subjects : session[s].live => Exists(s)

ReadInv ==
    read # None =>
        /\ read \in Principal
        /\ Scoped(read.subject, read.session, read.shops, read.units)
        /\ read.at = "snapshot" => read.session.shop \in read.shops \cup {None}

\* The session a capability names.
SessionOf(k) == [id |-> k.session, context |-> k.context, shop |-> k.shop, live |-> TRUE]

CapabilityInv ==
    capability # None =>
        /\ capability.subject \in Subjects
        /\ Scoped(capability.subject, SessionOf(capability), capability.shops, capability.units)
        /\ capability.authorization \in Nat /\ capability.authorization <= domain.revision
        /\ capability.registry \in Nat /\ capability.registry <= registry.revision
        /\ capability.authorization = domain.revision /\ capability.registry = registry.revision =>
                capability.permissions \subseteq Standing(capability.subject)

AccessInv == DirectoryInv /\ ReadInv /\ CapabilityInv

\* A session ends, is followed by another or by another context of its own, or
\* stays, and then its subject's shops and units stay, too.
SessionForward(s) ==
    \/ /\ session'[s] = session[s]
       /\ session[s].live => member'[s].shops = member[s].shops /\ member'[s].units = member[s].units
    \/ /\ session'[s].id = session[s].id /\ session'[s].context = session[s].context
       /\ ~session'[s].live
    \/ session'[s].id > session[s].id
    \/ session'[s].id = session[s].id /\ session'[s].context > session[s].context

\* What roles are worth stays, or one of the two revisions moves.
Weighed ==
    \/ domain'.revision > domain.revision
    \/ registry'.revision > registry.revision
    \/ /\ UNCHANGED <<role, grant>>
       /\ registry'.active = registry.active /\ projection'.codes = projection.codes

LEMMA ScopedStays ==
    ASSUME DirectoryInv, DirectoryInv', NEW s \in Subjects, SessionForward(s),
           NEW q, NEW shops, NEW units, Scoped(s, q, shops, units)
    PROVE  Scoped(s, q, shops, units)'
<1>1. /\ q \in Session /\ q.live /\ q.id \in Nat /\ q.context \in Nat
      /\ session[s] \in Session /\ session'[s] \in Session
    BY DEF Scoped, DirectoryInv, Session
<1>2. /\ session[s].id \in Nat /\ session[s].context \in Nat
      /\ session'[s].id \in Nat /\ session'[s].context \in Nat
    BY <1>1 DEF Session
<1>3. Behind(q, s)'
    BY <1>1, <1>2 DEF Scoped, Behind, SessionForward
<1>4. session'[s] = q => session[s] = q /\ member'[s].shops = member[s].shops
                                        /\ member'[s].units = member[s].units
    BY <1>1, <1>2 DEF Scoped, Behind, SessionForward
<1> QED
    BY <1>1, <1>3, <1>4 DEF Scoped

LEMMA StandingStays ==
    ASSUME DirectoryInv, DirectoryInv', NEW s \in Subjects, UNCHANGED <<role, grant>>,
           registry'.active = registry.active, projection'.codes = projection.codes
    PROVE  Standing(s)' = Standing(s)
BY DEF Standing, DirectoryInv

\* Whoever does not write them keeps the read and the capability.
LEMMA RequestsStay ==
    ASSUME DirectoryInv, DirectoryInv', \A s \in Subjects : SessionForward(s)
    PROVE  /\ ReadInv /\ UNCHANGED read => ReadInv'
           /\ ProjectionInv /\ ProjectionInv' /\ Forward /\ Weighed
                /\ CapabilityInv /\ UNCHANGED capability => CapabilityInv'
<1>1. ASSUME ReadInv, UNCHANGED read PROVE ReadInv'
  <2>1. SUFFICES ASSUME read # None PROVE ReadInv'
    BY <1>1 DEF ReadInv
  <2>2. read \in Principal /\ read.subject \in Subjects
    BY <1>1, <2>1 DEF ReadInv, Principal
  <2>3. Scoped(read.subject, read.session, read.shops, read.units)'
    BY <1>1, <2>1, <2>2, ScopedStays DEF ReadInv
  <2> QED
    BY <1>1, <2>1, <2>2, <2>3 DEF ReadInv
<1>2. ASSUME ProjectionInv, ProjectionInv', Forward, Weighed, CapabilityInv, UNCHANGED capability
      PROVE  CapabilityInv'
  <2> DEFINE k == capability
  <2>1. SUFFICES ASSUME k # None PROVE CapabilityInv'
    BY <1>2 DEF CapabilityInv
  <2>2. /\ k.subject \in Subjects /\ k.authorization <= domain.revision
        /\ k.registry <= registry.revision
        /\ Scoped(k.subject, SessionOf(k), k.shops, k.units)
    BY <1>2, <2>1 DEF CapabilityInv
  <2>3. Scoped(k.subject, SessionOf(k), k.shops, k.units)'
    BY <1>2, <2>2, ScopedStays DEF SessionOf
  <2>4. /\ domain.revision \in Nat /\ domain'.revision \in Nat
        /\ registry.revision \in Nat /\ registry'.revision \in Nat
    BY <1>2 DEF ProjectionInv, RowsTyped
  <2>5. domain'.revision >= domain.revision /\ registry'.revision >= registry.revision
    BY <1>2 DEF Forward
  <2>6. /\ k.authorization \in Nat /\ k.authorization <= domain'.revision
        /\ k.registry \in Nat /\ k.registry <= registry'.revision
    BY <1>2, <2>1, <2>4, <2>5 DEF CapabilityInv
  <2>7. ASSUME k.authorization = domain'.revision, k.registry = registry'.revision
        PROVE  k.permissions \subseteq Standing(k.subject)'
    <3>1. domain'.revision = domain.revision /\ registry'.revision = registry.revision
        BY <2>2, <2>4, <2>5, <2>7
    <3>2. Standing(k.subject)' = Standing(k.subject)
        BY <1>2, <2>2, <2>4, <3>1, StandingStays DEF Weighed
    <3> QED
        BY <1>2, <2>1, <2>7, <3>1, <3>2 DEF CapabilityInv
  <2> QED
    BY <1>2, <2>2, <2>3, <2>6, <2>7 DEF CapabilityInv
<1> QED
    BY <1>1, <1>2

-----------------------------------------------------------------------------
(* The directory: one member or its session moves, or nobody.              *)

LEMMA OneMoves ==
    ASSUME DirectoryInv, member \in [Subjects -> Member], NEW s \in Subjects,
           NEW m \in Member, NEW q \in Session,
           member' = [member EXCEPT ![s] = m], session' = [session EXCEPT ![s] = q],
           UNCHANGED <<organization, open, role>>,
           m.type = "OWNER" <=> s = Owner, q.live => m.status # "ABSENT",
           SessionForward(s)
    PROVE  DirectoryInv' /\ \A x \in Subjects : SessionForward(x)
<1>1. session' \in [Subjects -> Session] /\ member' \in [Subjects -> Member]
    BY DEF DirectoryInv
<1>2. ASSUME NEW x \in Subjects
      PROVE  /\ member'[x] = IF x = s THEN m ELSE member[x]
             /\ session'[x] = IF x = s THEN q ELSE session[x]
    BY DEF DirectoryInv
<1>3. ASSUME NEW x \in Subjects
      PROVE  /\ member'[x].type = "OWNER" <=> x = Owner
             /\ session'[x].live => Exists(x)'
             /\ SessionForward(x)
  <2>1. CASE x = s
    BY <1>2, <2>1 DEF Exists
  <2>2. CASE x # s
    BY <1>2, <2>2 DEF DirectoryInv, Exists, SessionForward
  <2> QED
    BY <2>1, <2>2
<1> QED
    BY <1>1, <1>3 DEF DirectoryInv

LEMMA NobodyMoves ==
    ASSUME DirectoryInv, UNCHANGED <<member, session>>,
           organization' \in [version : Nat, units : SUBSET Units],
           open' \subseteq Shops, role' \in [Roles -> Role]
    PROVE  DirectoryInv' /\ \A x \in Subjects : SessionForward(x)
<1>1. \A x \in Subjects : Exists(x)' = Exists(x)
    BY DEF Exists
<1> QED
    BY <1>1 DEF DirectoryInv, SessionForward

\* A member's session is ended, or left where its shops and units stay.
LEMMA MemberMoves ==
    ASSUME DirectoryInv, member \in [Subjects -> Member], NEW s \in Subjects,
           NEW m \in Member, member' = [member EXCEPT ![s] = m],
           UNCHANGED <<organization, open, role>>,
           m.type = "OWNER" <=> s = Owner, m.status = "ABSENT" => ~Exists(s),
           \/ Logout(s)
           \/ /\ UNCHANGED session
              /\ session[s].live => m.shops = member[s].shops /\ m.units = member[s].units
    PROVE  DirectoryInv' /\ \A x \in Subjects : SessionForward(x)
<1> DEFINE q == [session[s] EXCEPT !.live = FALSE]
<1>1. session[s] \in Session /\ member'[s] = m
    BY DEF DirectoryInv
<1>2. q \in Session /\ q.id = session[s].id /\ q.context = session[s].context /\ ~q.live
    BY <1>1 DEF Session
<1>3. CASE Logout(s)
  <2> HIDE DEF q
  <2>1. session' = [session EXCEPT ![s] = q]
    BY <1>3 DEF Logout, q
  <2>2. session'[s] = q
    BY <2>1 DEF DirectoryInv
  <2>3. SessionForward(s)
    BY <1>2, <2>2 DEF SessionForward
  <2> QED
    BY <1>2, <2>1, <2>3, OneMoves
<1>4. CASE /\ UNCHANGED session
           /\ session[s].live => m.shops = member[s].shops /\ m.units = member[s].units
  <2>1. session' = [session EXCEPT ![s] = session[s]]
    BY <1>4 DEF DirectoryInv
  <2>2. SessionForward(s)
    BY <1>1, <1>4 DEF SessionForward
  <2>3. session[s].live => m.status # "ABSENT"
    BY DEF DirectoryInv
  <2> QED
    BY <1>1, <2>1, <2>2, <2>3, OneMoves
<1> QED
    BY <1>3, <1>4

LEMMA ProvisionMoves ==
    ASSUME DirectoryInv, GrantInv, NEW s \in Workforce, NEW type \in {"STAFF", "ANCHOR"},
           NEW shops \in SUBSET Shops, NEW units \in SUBSET Units, NEW roles \in SUBSET Roles,
           ProvisionMember(s, type, shops, units, roles)
    PROVE  DirectoryInv' /\ \A x \in Subjects : SessionForward(x)
<1> DEFINE m == [status |-> "ACTIVE", type |-> type, identity |-> 1, access |-> 1,
                 kind |-> KindOf(type), shops |-> shops, units |-> units]
<1>1. /\ member' = [member EXCEPT ![s] = m] /\ ~Exists(s)
      /\ UNCHANGED <<organization, open, role, session>>
    BY DEF ProvisionMember
<1>2. m \in Member /\ m.type # "OWNER" /\ m.status # "ABSENT"
    BY DEF Member, KindOf
<1>3. s \in Subjects /\ s # Owner /\ ~session[s].live
    BY <1>1, OwnerAssumption DEF Subjects, DirectoryInv
<1> HIDE DEF m
<1> QED
    BY <1>1, <1>2, <1>3, MemberMoves DEF GrantInv

LEMMA ReplaceMoves ==
    ASSUME DirectoryInv, GrantInv, NEW s \in Subjects, NEW kind \in {"OPERATE", "ANCHOR"},
           NEW shops \in SUBSET Shops, NEW units \in SUBSET Units,
           ReplaceMemberAccess(s, kind, shops, units)
    PROVE  DirectoryInv' /\ \A x \in Subjects : SessionForward(x)
<1> DEFINE m == [member[s] EXCEPT !.access = member[s].access + 1, !.kind = kind,
                                  !.shops = shops, !.units = units]
<1>1. /\ member' = [member EXCEPT ![s] = m] /\ Logout(s) /\ member[s].status = "ACTIVE"
      /\ UNCHANGED <<organization, open, role>>
    BY DEF ReplaceMemberAccess
<1>2. member[s] \in Member /\ member[s].access + 1 \in Nat
    BY DEF GrantInv, Member
<1>3. m \in Member /\ m.type = member[s].type /\ m.status = member[s].status
    BY <1>2 DEF Member
<1>4. m.type = "OWNER" <=> s = Owner
    BY <1>3 DEF DirectoryInv
<1> HIDE DEF m
<1> QED
    BY <1>1, <1>3, <1>4, MemberMoves DEF GrantInv

LEMMA StatusMoves ==
    ASSUME DirectoryInv, GrantInv, NEW s \in Subjects, NEW target \in {"ACTIVE", "DISABLED"},
           ChangeUserStatus(s, target)
    PROVE  DirectoryInv' /\ \A x \in Subjects : SessionForward(x)
<1> DEFINE m == [member[s] EXCEPT !.status = target, !.identity = member[s].identity + 1,
                                  !.access = member[s].access + 1]
<1>1. /\ member' = [member EXCEPT ![s] = m] /\ (Logout(s) \/ UNCHANGED session)
      /\ UNCHANGED <<organization, open, role>>
    BY DEF ChangeUserStatus
<1>2. /\ member[s] \in Member
      /\ member[s].access + 1 \in Nat /\ member[s].identity + 1 \in Nat
    BY DEF GrantInv, Member
<1>3. /\ m \in Member /\ m.type = member[s].type /\ m.status # "ABSENT"
      /\ m.shops = member[s].shops /\ m.units = member[s].units
    BY <1>2 DEF Member
<1>4. m.type = "OWNER" <=> s = Owner
    BY <1>3 DEF DirectoryInv
<1> HIDE DEF m
<1> QED
    BY <1>1, <1>3, <1>4, MemberMoves DEF GrantInv

\* Unless UpdateMember ends the sessions, it found shops and units as they are.
LEMMA UpdateMoves ==
    ASSUME DirectoryInv, GrantInv, CommitUpdate
    PROVE  DirectoryInv' /\ \A x \in Subjects : SessionForward(x)
<1> DEFINE q == pending
           s == q.subject
           next == IF AccessChanged(q) THEN member[s].access + 1 ELSE member[s].access
           identity == IF q.rename THEN member[s].identity + 1 ELSE member[s].identity
           kind == IF q.shops # member[s].shops THEN KindOf(member[s].type) ELSE member[s].kind
           m == [member[s] EXCEPT !.identity = identity, !.access = next, !.units = q.units,
                                  !.shops = q.shops, !.kind = kind]
<1>1. /\ q # None /\ q.op = "update" /\ UNCHANGED <<organization, open, role>>
      /\ IF AccessChanged(q) THEN Logout(s) ELSE UNCHANGED session
    BY DEF CommitUpdate
<1>2. s \in Subjects /\ q.shops \in SUBSET Shops /\ q.units \in SUBSET Units
    BY <1>1 DEF GrantInv, PendingTyped
<1>3. member[s] \in Member
    BY <1>2 DEF GrantInv
<1>4. next \in Nat /\ identity \in Nat /\ kind \in {"OPERATE", "ANCHOR"}
    BY <1>3 DEF Member, KindOf
<1>5. /\ m \in Member /\ m.type = member[s].type /\ m.status = member[s].status
      /\ m.shops = q.shops /\ m.units = q.units
  <2> HIDE DEF next, identity, kind, s
  <2> QED
    BY <1>2, <1>3, <1>4 DEF Member
<1>6. member' = [member EXCEPT ![s] = m]
    BY DEF CommitUpdate
<1>7. m.type = "OWNER" <=> s = Owner
    BY <1>2, <1>5 DEF DirectoryInv
<1>8. ~AccessChanged(q) => m.shops = member[s].shops /\ m.units = member[s].units
    BY <1>5 DEF AccessChanged
<1>9. m.status = "ABSENT" => ~Exists(s)
    BY <1>5 DEF Exists
<1> HIDE DEF m, s, q
<1> QED
    BY <1>1, <1>2, <1>5, <1>6, <1>7, <1>8, <1>9, MemberMoves DEF GrantInv

LEMMA SessionMoves ==
    ASSUME DirectoryInv, GrantInv, NEW s \in Subjects, NEW shop \in Shops \cup {None},
           Login(s, shop) \/ SwitchContext(s, shop)
    PROVE  DirectoryInv' /\ \A x \in Subjects : SessionForward(x)
<1>1. /\ UNCHANGED <<organization, open, member, role>>
      /\ member[s].status = "ACTIVE"
    BY DEF Login, SwitchContext
<1>2. member' = [member EXCEPT ![s] = member[s]] /\ member[s] \in Member
    BY <1>1 DEF GrantInv
<1>3. session[s] \in Session /\ session[s].id \in Nat /\ session[s].context \in Nat
    BY DEF DirectoryInv, Session
<1>4. CASE Login(s, shop)
  <2> DEFINE q == [id |-> session[s].id + 1, context |-> 1, shop |-> shop, live |-> TRUE]
  <2>1. session' = [session EXCEPT ![s] = q]
    BY <1>4 DEF Login
  <2>2. q \in Session /\ q.id > session[s].id
    BY <1>3 DEF Session
  <2> HIDE DEF q
  <2>3. SessionForward(s)
    BY <2>1, <2>2 DEF SessionForward, DirectoryInv
  <2> QED
    BY <1>1, <1>2, <2>1, <2>2, <2>3, OneMoves DEF DirectoryInv, GrantInv
<1>5. CASE SwitchContext(s, shop)
  <2> DEFINE q == [session[s] EXCEPT !.context = session[s].context + 1, !.shop = shop]
  <2>1. session' = [session EXCEPT ![s] = q]
    BY <1>5 DEF SwitchContext
  <2>2. session[s].context + 1 \in Nat /\ session[s].context + 1 > session[s].context
    BY <1>3
  <2>3. /\ q \in Session /\ q.id = session[s].id
        /\ q.context = session[s].context + 1
    BY <1>3, <2>2 DEF Session
  <2> HIDE DEF q
  <2>4. SessionForward(s)
    BY <2>1, <2>2, <2>3 DEF SessionForward, DirectoryInv
  <2> QED
    BY <1>1, <1>2, <2>1, <2>3, <2>4, OneMoves DEF DirectoryInv, GrantInv
<1> QED
    BY <1>4, <1>5

LEMMA RolesMove ==
    ASSUME DirectoryInv, ChangeRole
    PROVE  DirectoryInv' /\ \A x \in Subjects : SessionForward(x)
<1>1. ASSUME NEW r \in Roles, NEW new \in Role, role' = [role EXCEPT ![r] = new]
      PROVE  role' \in [Roles -> Role]
    BY <1>1 DEF DirectoryInv
<1>2. ASSUME NEW r \in Roles, NEW status \in {"ACTIVE", "DISABLED"}, PutRole(r, status)
      PROVE  role' \in [Roles -> Role]
  <2> DEFINE new == [role[r] EXCEPT !.status = status, !.version = role[r].version + 1]
  <2>1. role[r] \in Role /\ role[r].version + 1 \in Nat
    BY DEF DirectoryInv, Role
  <2>2. new \in Role
    BY <2>1 DEF Role
  <2>3. role' = [role EXCEPT ![r] = new]
    BY <1>2 DEF PutRole
  <2> HIDE DEF new
  <2> QED
    BY <1>1, <2>2, <2>3
<1>3. ASSUME NEW r \in Roles, NEW p \in Policy, SetRolePolicy(r, p)
      PROVE  role' \in [Roles -> Role]
  <2> DEFINE new == [role[r] EXCEPT !.permissions = p.permissions, !.scope = p.scope,
                                    !.version = role[r].version + 1]
  <2>1. role[r] \in Role /\ role[r].version + 1 \in Nat
    BY DEF DirectoryInv, Role
  <2>2. new \in Role
    BY <2>1 DEF Role, Policy
  <2>3. role' = [role EXCEPT ![r] = new]
    BY <1>3 DEF SetRolePolicy
  <2> HIDE DEF new
  <2> QED
    BY <1>1, <2>2, <2>3
<1>4. UNCHANGED <<organization, open, member, session>> /\ role' \in [Roles -> Role]
    BY <1>2, <1>3 DEF ChangeRole
<1> QED
    BY <1>4, NobodyMoves DEF DirectoryInv

LEMMA DirectoryStep ==
    ASSUME DirectoryInv, GrantInv, [Next]_vars
    PROVE  DirectoryInv' /\ \A x \in Subjects : SessionForward(x)
<1> DEFINE Goal == DirectoryInv' /\ \A x \in Subjects : SessionForward(x)
<1>1. CASE UNCHANGED directory
    BY <1>1, NobodyMoves DEF directory, DirectoryInv
<1>2. CASE ProjectionsNext /\ UNCHANGED <<directory, requests>>
    BY <1>1, <1>2
<1>3. CASE MemberCommand
  <2>1. ASSUME NEW u \in Units, CreateOrganizationUnit(u) PROVE Goal
    <3>1. /\ UNCHANGED <<member, session, open, role>>
          /\ organization' \in [version : Nat, units : SUBSET Units]
        BY <2>1 DEF CreateOrganizationUnit, DirectoryInv
    <3> QED
        BY <3>1, NobodyMoves DEF DirectoryInv
  <2>2. ASSUME NEW h \in Shops, SetShopEnabled(h) PROVE Goal
    <3>1. UNCHANGED <<member, session, organization, role>> /\ open' \subseteq Shops
        BY <2>2 DEF SetShopEnabled, DirectoryInv
    <3> QED
        BY <3>1, NobodyMoves DEF DirectoryInv
  <2>3. ASSUME NEW s \in Subjects, NEW rename \in BOOLEAN, NEW shops \in SUBSET Shops,
               NEW units \in SUBSET Units, NEW roles \in SUBSET Roles,
               BeginUpdate(s, rename, shops, units, roles)
        PROVE  Goal
    BY <1>1, <2>3 DEF BeginUpdate
  <2>4. ASSUME NEW s \in Subjects, NEW roles \in SUBSET Roles, BeginGrants(s, roles) PROVE Goal
    BY <1>1, <2>4 DEF BeginGrants
  <2>5. CASE CommitGrants
    <3>1. UNCHANGED <<organization, open, member, role, session>>
        BY <2>5 DEF CommitGrants
    <3> QED
        BY <3>1, NobodyMoves DEF DirectoryInv
  <2>6. CASE Abandon
    BY <1>1, <2>6 DEF Abandon
  <2> HIDE DEF Goal
  <2>7. ASSUME NEW s \in Workforce, NEW type \in {"STAFF", "ANCHOR"}, NEW shops \in SUBSET Shops,
               NEW units \in SUBSET Units, NEW roles \in SUBSET Roles,
               ProvisionMember(s, type, shops, units, roles)
        PROVE  Goal
    BY <2>7, ProvisionMoves DEF Goal
  <2>8. ASSUME NEW s \in Subjects, NEW kind \in {"OPERATE", "ANCHOR"}, NEW shops \in SUBSET Shops,
               NEW units \in SUBSET Units, ReplaceMemberAccess(s, kind, shops, units)
        PROVE  Goal
    BY <2>8, ReplaceMoves DEF Goal
  <2>9. ASSUME NEW s \in Subjects, NEW target \in {"ACTIVE", "DISABLED"},
               ChangeUserStatus(s, target)
        PROVE  Goal
    BY <2>9, StatusMoves DEF Goal
  <2>10. CASE CommitUpdate
    BY <2>10, UpdateMoves DEF Goal
  <2> QED
    BY <1>3, <2>1, <2>2, <2>3, <2>4, <2>5, <2>6, <2>7, <2>8, <2>9, <2>10
    DEF MemberCommand, Goal
<1>4. CASE Access
    BY <1>1, <1>4, SessionMoves DEF Access, ReadSession, ReadRow, ReadUnits, ReadShops, Refuse,
           Issue, ReadStep
<1>5. CASE UNCHANGED vars
    BY <1>1, <1>5 DEF vars
<1> QED
    BY <1>2, <1>3, <1>4, <1>5, RolesMove DEF Next

-----------------------------------------------------------------------------
(* The revisions: whatever roles are worth less by, moves one of them.     *)

LEMMA CommandsBump == ChangeRole => Bump
<1>1. \A r, status : PutRole(r, status) => Bump
    BY DEF PutRole
<1>2. \A r, p : SetRolePolicy(r, p) => Bump
    BY DEF SetRolePolicy
<1> QED
    BY <1>1, <1>2 DEF ChangeRole

LEMMA WeighedStep ==
    ASSUME ProjectionInv, Forward, [Next]_vars
    PROVE  Weighed
<1>2. Bump => domain'.revision > domain.revision
    BY DEF Bump, ProjectionInv, RowsTyped
<1>3. \A s, old, new : CarryGrants(s, old, new) => Bump \/ UNCHANGED grant
    BY DEF CarryGrants
<1>4. CASE ChangeRole
  <2>1. Bump
    BY <1>4, CommandsBump
  <2> QED
    BY <1>2, <2>1 DEF Weighed
<1>5. CASE MemberCommand
  <2>1. UNCHANGED <<projection, registry>>
    BY <1>5, CommandsKeepProjections
  <2>2. \A u : CreateOrganizationUnit(u) => UNCHANGED <<role, grant>>
    BY DEF CreateOrganizationUnit
  <2>3. \A s, type, shops, units, roles : ProvisionMember(s, type, shops, units, roles) => Bump
    BY DEF ProvisionMember
  <2>4. \A s, kind, shops, units : ReplaceMemberAccess(s, kind, shops, units)
                => Bump \/ UNCHANGED <<role, grant>>
    BY <1>3 DEF ReplaceMemberAccess
  <2>5. \A s, rename, shops, units, roles : BeginUpdate(s, rename, shops, units, roles)
                => UNCHANGED <<role, grant>>
    BY DEF BeginUpdate, directory
  <2>6. CommitUpdate => Bump \/ UNCHANGED <<role, grant>>
    <3>1. \A q, next : UpdateGrants(q, next) => Bump \/ UNCHANGED grant
        BY <1>3 DEF UpdateGrants
    <3> QED
        BY <3>1 DEF CommitUpdate
  <2>7. \A s, target : ChangeUserStatus(s, target) => Bump \/ UNCHANGED <<role, grant>>
    BY <1>3 DEF ChangeUserStatus
  <2>8. \A h : SetShopEnabled(h) => UNCHANGED <<role, grant>>
    BY DEF SetShopEnabled
  <2>9. \A s, roles : BeginGrants(s, roles) => UNCHANGED <<role, grant>>
    BY DEF BeginGrants, directory
  <2>10. CommitGrants => Bump
    BY DEF CommitGrants
  <2>11. Abandon => UNCHANGED <<role, grant>>
    BY DEF Abandon, directory
  <2>12. Bump \/ UNCHANGED <<role, grant>>
    BY <1>5, <2>2, <2>3, <2>4, <2>5, <2>6, <2>7, <2>8, <2>9, <2>10, <2>11 DEF MemberCommand
  <2> QED
    BY <1>2, <2>1, <2>12 DEF Weighed
<1>6. CASE Access
  <2>1. UNCHANGED <<projection, registry>>
    BY <1>6, CommandsKeepProjections
  <2>2. UNCHANGED <<role, grant>>
    BY <1>6 DEF Access, Login, SwitchContext, ReadSession, ReadRow, ReadUnits, ReadShops, Refuse,
           Issue, ReadStep, directory
  <2> QED
    BY <2>1, <2>2 DEF Weighed
<1>7. CASE ProjectionsNext /\ UNCHANGED <<directory, requests>>
  <2>1. UNCHANGED <<role, grant>>
    BY <1>7 DEF directory
  <2>2. UNCHANGED registry => Weighed
    BY <2>1 DEF Forward, Weighed
  <2>3. ASSUME NEW r \in Replicas, StoreRegistry(r) PROVE Weighed
    <3>1. UNCHANGED projection /\ ReplaceRegistry(fetched[r]) /\ fetched[r].of = "registry"
          /\ fetched[r] # None
        BY <2>3 DEF StoreRegistry
    <3>2. fetched[r].revision \in Nat /\ registry.revision \in Nat
        BY <3>1, LenProperties DEF ProjectionInv, RowsTyped, Genuine
    <3>3. CASE fetched[r].revision > registry.revision
        BY <3>1, <3>2, <3>3 DEF ReplaceRegistry, RegistryRows, Weighed
    <3>4. CASE ~(fetched[r].revision > registry.revision)
        <4>1. UNCHANGED registry \/ registry' = [registry EXCEPT !.at = now]
            BY <3>1, <3>2, <3>4 DEF ReplaceRegistry
        <4> QED
            BY <2>1, <3>1, <4>1 DEF Weighed, ProjectionInv, RowsTyped
    <3> QED
        BY <3>3, <3>4
  <2>4. Tick => UNCHANGED registry
    BY DEF Tick, readModels
  <2>5. \A codes : Entitle(codes) => UNCHANGED registry
    BY DEF Entitle, readModels
  <2>6. \A c : Activate(c) => UNCHANGED registry
    BY DEF Activate, readModels
  <2>7. \A r : FetchEntitlement(r) \/ FetchRegistry(r) \/ GiveUp(r) \/ StoreEntitlement(r)
                => UNCHANGED registry
    BY DEF FetchEntitlement, FetchRegistry, GiveUp, StoreEntitlement, readModels
  <2> QED
    BY <1>7, <2>2, <2>3, <2>4, <2>5, <2>6, <2>7 DEF ProjectionsNext
<1>8. CASE UNCHANGED vars
    BY <1>8 DEF vars, projections, directory, Weighed
<1> QED
    BY <1>4, <1>5, <1>6, <1>7, <1>8 DEF Next

-----------------------------------------------------------------------------
(* The request: what it reads is in the scope of the session it started on.*)

\* What is read now is in scope now.
LEMMA ReadKept ==
    ASSUME UNCHANGED <<session, member>>, NEW p \in Principal, read' = p,
           Scoped(p.subject, p.session, p.shops, p.units),
           p.at = "snapshot" => p.session.shop \in p.shops \cup {None}
    PROVE  ReadInv'
BY DEF ReadInv, Scoped, Behind

LEMMA ReadStarts ==
    ASSUME DirectoryInv, NEW s \in Subjects, ReadSession(s)
    PROVE  ReadInv'
<1> DEFINE p == Unresolved(s)
<1>1. /\ session[s] \in Session /\ session[s].live
      /\ session[s].id \in Nat /\ session[s].context \in Nat
      /\ read' = p /\ UNCHANGED <<session, member>>
    BY DEF ReadSession, ReadStep, directory, DirectoryInv, Session
<1>2. p \in Principal /\ p.subject = s /\ p.session = session[s] /\ p.at = "row"
      /\ p.shops = {} /\ p.units = {}
    BY <1>1 DEF Unresolved, Principal
<1> HIDE DEF p
<1>3. Behind(session[s], s)
    BY <1>1 DEF Behind
<1>4. Scoped(p.subject, p.session, p.shops, p.units)
    BY <1>1, <1>2, <1>3 DEF Scoped
<1> QED
    BY <1>1, <1>2, <1>4, ReadKept

\* The read goes on under the same session.
LEMMA ReadGoesOn ==
    ASSUME ReadInv, read # None, UNCHANGED <<session, member>>,
           NEW p \in Principal, read' = p,
           p.subject = read.subject, p.session = read.session,
           \/ p.shops = read.shops
           \/ read.subject # Owner => p.shops \subseteq member[read.subject].shops,
           p.units \in {read.units, member[read.subject].units},
           p.at = "snapshot" => read.session.shop \in p.shops \cup {None}
    PROVE  ReadInv'
<1>1. Scoped(read.subject, read.session, read.shops, read.units)
    BY DEF ReadInv
<1>2. Scoped(p.subject, p.session, p.shops, p.units)
    BY <1>1 DEF Scoped
<1> QED
    BY <1>2, ReadKept

LEMMA ReadAdvances ==
    ASSUME DirectoryInv, GrantInv, ReadInv, ReadRow \/ ReadUnits \/ ReadShops
    PROVE  ReadInv'
<1> DEFINE s == read.subject
           m == member[s]
<1>1. /\ read # None /\ read \in Principal /\ s \in Subjects
      /\ UNCHANGED <<session, member>>
    BY DEF ReadRow, ReadUnits, ReadShops, ReadStep, directory, ReadInv, Principal
<1>2. m \in Member
    BY <1>1 DEF GrantInv
<1>3. CASE ReadRow
  <2> DEFINE type == m.type
             status == m.status
             identity == m.identity
             access == m.access
             version == organization.version
             half == [read EXCEPT !.at = "units", !.type = type, !.status = status]
             p == [half EXCEPT !.identity = identity, !.access = access,
                               !.organization = version]
  <2>1. read' = p
    BY <1>3 DEF ReadRow
  <2>2. /\ type \in {"OWNER", "STAFF", "ANCHOR"} /\ status \in {"ABSENT", "ACTIVE", "DISABLED"}
        /\ identity \in Nat /\ access \in Nat /\ version \in Nat
    BY <1>2 DEF Member, DirectoryInv
  <2> HIDE DEF type, status, identity, access, version, m
  <2>3. /\ half \in Principal /\ half.subject = s /\ half.session = read.session
        /\ half.shops = read.shops /\ half.units = read.units /\ half.at = "units"
    BY <1>1, <2>2 DEF Principal
  <2> HIDE DEF half
  <2>4. /\ p \in Principal /\ p.subject = s /\ p.session = read.session
        /\ p.shops = read.shops /\ p.units = read.units /\ p.at = "units"
    BY <2>2, <2>3 DEF Principal
  <2> HIDE DEF p
  <2> QED
    BY <1>1, <2>1, <2>4, ReadGoesOn
<1>4. CASE ReadUnits
  <2> DEFINE p == [read EXCEPT !.at = "shops", !.units = m.units]
  <2>1. read' = p
    BY <1>4 DEF ReadUnits
  <2>2. /\ p \in Principal /\ p.subject = s /\ p.session = read.session
        /\ p.shops = read.shops /\ p.units = m.units /\ p.at = "shops"
    BY <1>1, <1>2 DEF Principal, Member
  <2> HIDE DEF p
  <2> QED
    BY <1>1, <2>1, <2>2, ReadGoesOn
<1>5. CASE ReadShops
  <2> DEFINE p == [read EXCEPT !.at = "snapshot", !.shops = AvailableShops(s)]
  <2>1. read' = p /\ MaySelect(read.type, read.session.shop, AvailableShops(s))
    BY <1>5 DEF ReadShops
  <2>2. AvailableShops(s) \in SUBSET Shops /\ (s # Owner => AvailableShops(s) \subseteq m.shops)
    BY <1>1, <1>2 DEF AvailableShops, DirectoryInv, Member
  <2>3. /\ p \in Principal /\ p.subject = s /\ p.session = read.session
        /\ p.shops = AvailableShops(s) /\ p.units = read.units
    BY <1>1, <2>2 DEF Principal
  <2>4. read.session.shop \in AvailableShops(s) \cup {None}
    BY <2>1 DEF MaySelect
  <2> HIDE DEF p
  <2> QED
    BY <1>1, <2>1, <2>2, <2>3, <2>4, ReadGoesOn
<1> QED
    BY <1>3, <1>4, <1>5

LEMMA SessionFields ==
    ASSUME NEW q \in Session, q.live
    PROVE  q = [id |-> q.id, context |-> q.context, shop |-> q.shop, live |-> TRUE]
BY DEF Session

\* Whatever version the roles are counted at, they are worth no more.
LEMMA EffectiveStanding ==
    ASSUME ProjectionInv, GrantInv, NEW s \in Subjects, NEW access
    PROVE  /\ Effective(s, access) \subseteq Standing(s)
           /\ Standing(s) \subseteq Effective(s, member[s].access)
<1>1. ProjectionMatches
    BY DEF ProjectionInv, ProjectionsAreSnapshots, ProjectionMatches
<1>2. ActiveRoles(s, access) \subseteq {r \in grant[s].roles : role[r].status = "ACTIVE"}
    BY DEF ActiveRoles, GrantedRoles
<1>3. GrantedRoles(s, member[s].access) = grant[s].roles
  <2>1. InPace(s)
    BY DEF GrantInv
  <2> QED
    BY <2>1 DEF GrantedRoles, InPace
<1>4. ActiveRoles(s, member[s].access) = {r \in grant[s].roles : role[r].status = "ACTIVE"}
    BY <1>3 DEF ActiveRoles
<1> QED
    BY <1>1, <1>2, <1>4, Zenon DEF Effective, Standing

LEMMA CapabilityKept ==
    ASSUME UNCHANGED <<session, member, role, grant, domain, registry, projection>>,
           domain.revision \in Nat, registry.revision \in Nat,
           NEW k, capability' = k, k.subject \in Subjects,
           Scoped(k.subject, SessionOf(k), k.shops, k.units),
           k.authorization = domain.revision, k.registry = registry.revision,
           k.permissions \subseteq Standing(k.subject)
    PROVE  CapabilityInv'
<1>1. \A s, q, shops, units : Scoped(s, q, shops, units) => Scoped(s, q, shops, units)'
    BY DEF Scoped, Behind
<1>2. \A s : Standing(s)' = Standing(s)
    BY DEF Standing
<1> QED
    BY <1>1, <1>2 DEF CapabilityInv, SessionOf

LEMMA CapabilityIssued ==
    ASSUME ProjectionInv, DirectoryInv, GrantInv, ReadInv, NEW c \in Contributions, Issue(c)
    PROVE  ReadInv' /\ CapabilityInv'
<1> DEFINE p == read
           permissions == Effective(p.subject, p.access)
           shops == ScopeShops(p, permissions)
           units == ScopeUnits(p, permissions)
           k == [subject |-> p.subject, session |-> p.session.id,
                 context |-> p.session.context, shop |-> p.session.shop,
                 permissions |-> permissions, shops |-> shops, units |-> units,
                 identity |-> p.identity, organization |-> p.organization,
                 authorization |-> domain.revision,
                 entitlement |-> domain.entitlement, registry |-> registry.revision]
<1>1. /\ p # None /\ p.at = "snapshot" /\ read' = None /\ capability' = k
      /\ UNCHANGED <<domain, registry, projection, role, grant, member, session>>
    BY DEF Issue, ReadStep, projections, directory
<1>2. /\ p.subject \in Subjects /\ p.session \in Session /\ p.session.live
      /\ Scoped(p.subject, p.session, p.shops, p.units)
      /\ p.session.shop \in p.shops \cup {None}
    BY <1>1 DEF ReadInv, Scoped, Principal
<1>3. shops \subseteq p.shops /\ units \subseteq p.units
    BY <1>2 DEF ScopeShops, ScopeUnits
<1>4. permissions \subseteq Standing(p.subject)
    BY <1>2, EffectiveStanding
<1>5. domain.revision \in Nat /\ registry.revision \in Nat
    BY DEF ProjectionInv, RowsTyped
<1> HIDE DEF permissions, shops, units
<1>6. /\ k.subject = p.subject /\ k.shops = shops /\ k.units = units
      /\ k.permissions = permissions /\ k.authorization = domain.revision
      /\ k.registry = registry.revision /\ k.session = p.session.id
      /\ k.context = p.session.context /\ k.shop = p.session.shop
    OBVIOUS
<1> HIDE DEF k, p
<1>7. SessionOf(k) = p.session
    BY <1>2, <1>6, SessionFields DEF SessionOf
<1>8. /\ k.subject \in Subjects /\ Scoped(k.subject, SessionOf(k), k.shops, k.units)
      /\ k.permissions \subseteq Standing(k.subject)
    BY <1>2, <1>3, <1>4, <1>6, <1>7 DEF Scoped
<1>9. CapabilityInv'
    BY <1>1, <1>5, <1>6, <1>8, CapabilityKept
<1> QED
    BY <1>1, <1>9 DEF ReadInv

-----------------------------------------------------------------------------
(* The invariant and the theorems.                                         *)

LEMMA AccessInit == Init => AccessInv
<1> SUFFICES ASSUME Init PROVE AccessInv
    OBVIOUS
<1>1. PICK staff \in SUBSET Workforce, units \in SUBSET Units, h \in Shops :
        Staffed(staff, units, h)
    BY DEF Init
<1>2. PICK scope \in Scopes :
        role = [r \in Roles |-> [status |-> "ACTIVE", version |-> 1,
                                 permissions |-> projection.codes, scope |-> scope]]
    BY DEF Init
<1>3. read = None /\ capability = None /\ open = Shops
      /\ projection = [revision |-> 1, codes |-> Permissions, at |-> 0]
    BY DEF Init, ProjectionsInit
<1>4. role \in [Roles -> Role]
    BY <1>2, <1>3 DEF Role
<1>5. ASSUME NEW x \in Subjects
      PROVE  /\ session[x] \in Session
             /\ member[x].type = "OWNER" <=> x = Owner
             /\ session[x].live => Exists(x)
  <2>1. CASE x \in staff
    BY <1>1, <2>1, OwnerAssumption DEF Staffed, Absent, Session, Exists
  <2>2. CASE x \notin staff
    BY <1>1, <2>2 DEF Staffed, Absent, NoSession, Session, Exists
  <2> QED
    BY <2>1, <2>2
<1>6. organization \in [version : Nat, units : SUBSET Units]
    BY <1>1 DEF Staffed
<1>7. session \in [Subjects -> Session]
    BY <1>1, <1>5 DEF Staffed
<1> QED
    BY <1>3, <1>4, <1>5, <1>6, <1>7 DEF AccessInv, DirectoryInv, ReadInv, CapabilityInv

Inv == ProjectionInv /\ GrantInv /\ AgeInv /\ AccessInv

LEMMA AccessStep ==
    ASSUME Inv, [Next]_vars, ProjectionInv', Forward
    PROVE  AccessInv'
<1>1. ProjectionInv /\ GrantInv /\ DirectoryInv /\ ReadInv /\ CapabilityInv
    BY DEF Inv, AccessInv
<1>2. DirectoryInv' /\ \A s \in Subjects : SessionForward(s)
    BY <1>1, DirectoryStep
<1>3. Weighed
    BY <1>1, WeighedStep
<1>4. /\ UNCHANGED read => ReadInv'
      /\ UNCHANGED capability => CapabilityInv'
    BY <1>1, <1>2, <1>3, RequestsStay
<1>5. CASE UNCHANGED <<read, capability>>
    BY <1>2, <1>4, <1>5 DEF AccessInv
<1>6. CASE ProjectionsNext /\ UNCHANGED <<directory, requests>>
    BY <1>5, <1>6 DEF requests
<1>7. CASE ChangeRole
    BY <1>5, <1>7 DEF ChangeRole, Commit
<1>8. CASE MemberCommand
  <2>1. Commit => UNCHANGED <<read, capability>>
    BY DEF Commit
  <2>2. UNCHANGED <<read, capability>>
    <3> DEFINE Kept == UNCHANGED <<read, capability>>
    <3>1. \A u : CreateOrganizationUnit(u) => Kept
        BY <2>1 DEF CreateOrganizationUnit
    <3>2. \A s, type, shops, units, roles : ProvisionMember(s, type, shops, units, roles) => Kept
        BY <2>1 DEF ProvisionMember
    <3>3. \A s, kind, shops, units : ReplaceMemberAccess(s, kind, shops, units) => Kept
        BY <2>1 DEF ReplaceMemberAccess
    <3>4. \A s, rename, shops, units, roles : BeginUpdate(s, rename, shops, units, roles) => Kept
        BY DEF BeginUpdate
    <3>5. CommitUpdate \/ CommitGrants \/ Abandon => Kept
        BY <2>1 DEF CommitUpdate, CommitGrants, Abandon
    <3>6. \A s, target : ChangeUserStatus(s, target) => Kept
        BY <2>1 DEF ChangeUserStatus
    <3>7. \A h : SetShopEnabled(h) => Kept
        BY <2>1 DEF SetShopEnabled
    <3>8. \A s, roles : BeginGrants(s, roles) => Kept
        BY DEF BeginGrants
    <3> HIDE DEF Kept
    <3>9. Kept
        BY <1>8, <3>1, <3>2, <3>3, <3>4, <3>5, <3>6, <3>7, <3>8 DEF MemberCommand
    <3> QED
        BY <3>9 DEF Kept
  <2> QED
    BY <1>5, <2>2
<1>9. CASE Access
  <2>1. ASSUME NEW s \in Subjects, NEW shop \in Shops \cup {None},
               Login(s, shop) \/ SwitchContext(s, shop)
        PROVE  AccessInv'
    BY <1>5, <2>1 DEF Login, SwitchContext, Commit
  <2>2. ASSUME NEW s \in Subjects, ReadSession(s) PROVE AccessInv'
    <3>1. ReadInv'
        BY <1>1, <2>2, ReadStarts
    <3> QED
        BY <1>2, <1>4, <2>2, <3>1 DEF ReadSession, AccessInv
  <2>3. CASE ReadRow \/ ReadUnits \/ ReadShops
    <3>1. ReadInv'
        BY <1>1, <2>3, ReadAdvances
    <3>2. UNCHANGED capability
        BY <2>3 DEF ReadRow, ReadUnits, ReadShops
    <3> QED
        BY <1>2, <1>4, <3>1, <3>2 DEF AccessInv
  <2>4. CASE Refuse
    BY <1>2, <1>4, <2>4 DEF Refuse, AccessInv, ReadInv
  <2>5. ASSUME NEW c \in Contributions, Issue(c) PROVE AccessInv'
    BY <1>1, <1>2, <2>5, CapabilityIssued DEF AccessInv
  <2> QED
    BY <1>9, <2>1, <2>2, <2>3, <2>4, <2>5 DEF Access
<1>10. CASE UNCHANGED vars
    BY <1>5, <1>10 DEF vars, requests
<1> QED
    BY <1>6, <1>7, <1>8, <1>9, <1>10 DEF Next

THEOREM InvariantHolds == Spec => []Inv
<1>1. Init => Inv
    BY ProjectionInit, GrantInit, AgeInit, AccessInit DEF Inv
<1>2. Inv /\ [Next]_vars => Inv'
  <2> SUFFICES ASSUME Inv, [Next]_vars PROVE Inv'
    OBVIOUS
  <2>1. ProjectionInv' /\ Forward
    BY EveryStep DEF Inv
  <2>2. GrantInv' /\ AgeInv'
    BY GrantStep, AgeStep DEF Inv
  <2>3. AccessInv'
    BY <2>1, AccessStep
  <2> QED
    BY <2>1, <2>2, <2>3 DEF Inv
<1> QED
    BY <1>1, <1>2, PTL DEF Spec

\* Every reachable state has the types of the tables: no command, sync or
\* request leaves a row that the others could not have been written for.
THEOREM TypeCorrect == Spec => []TypeOK
<1>1. Inv => TypeOK
  <2> SUFFICES ASSUME Inv PROVE TypeOK
    OBVIOUS
  <2>1. ProjectionsTypeOK
    BY DEF Inv, ProjectionInv, RowsTyped, AgeInv, ProjectionsTypeOK, Entitlement
  <2>2. /\ organization \in [version : Nat, units : SUBSET Units] /\ open \subseteq Shops
        /\ role \in [Roles -> Role] /\ session \in [Subjects -> Session]
    BY DEF Inv, AccessInv, DirectoryInv
  <2>3. member \in [Subjects -> Member] /\ grant \in [Subjects -> Grant]
    BY DEF Inv, GrantInv
  <2>4. read \in Principal \cup {None}
    BY DEF Inv, AccessInv, ReadInv
  <2> QED
    BY <2>1, <2>2, <2>3, <2>4 DEF TypeOK, Role, Grant
<1> QED
    BY <1>1, InvariantHolds, PTL

\* An accepted capability names the revisions and the session of now.
LEMMA AcceptedNames ==
    ASSUME Inv, capability # None, Accepted(capability)
    PROVE  /\ capability.subject \in Subjects
           /\ capability.permissions \subseteq Standing(capability.subject)
           /\ capability.subject # Owner =>
                capability.shops \subseteq member[capability.subject].shops
                /\ capability.units \subseteq member[capability.subject].units
<1>1. /\ session[capability.subject] = SessionOf(capability)
      /\ capability.authorization = domain.revision /\ capability.registry = registry.revision
    BY DEF Accepted, SessionOf
<1> QED
    BY <1>1 DEF Inv, AccessInv, CapabilityInv, Scoped

\* A write that a capability lets through is one its subject may make now: the
\* versions it carries leave no room between the reads it was issued from, nor
\* between its issue and its use (biz/capability.go, user_lifecycle.go:546).
THEOREM CapabilityIsCurrent == Spec => []AcceptedCapabilityIsCurrent
<1>1. Inv => AcceptedCapabilityIsCurrent
  <2> SUFFICES ASSUME Inv, capability # None, Accepted(capability)
               PROVE  LET k == capability  m == member[k.subject] IN
                        /\ k.permissions \subseteq Effective(k.subject, m.access)
                        /\ m.type # "OWNER" => k.shops \subseteq m.shops /\ k.units \subseteq m.units
    BY DEF AcceptedCapabilityIsCurrent
  <2> DEFINE s == capability.subject
  <2>1. /\ s \in Subjects /\ capability.permissions \subseteq Standing(s)
        /\ s # Owner => capability.shops \subseteq member[s].shops
                        /\ capability.units \subseteq member[s].units
    BY AcceptedNames
  <2>2. Standing(s) \subseteq Effective(s, member[s].access)
    BY <2>1, EffectiveStanding DEF Inv
  <2>3. member[s].type # "OWNER" => s # Owner
    BY <2>1 DEF Inv, AccessInv, DirectoryInv
  <2> QED
    BY <2>1, <2>2, <2>3
<1> QED
    BY <1>1, InvariantHolds, PTL

\* However late the syncs store what they fetched, a permission the subscription
\* took away is in no accepted capability once the staleness allowed and the
\* time of one sync call have passed (entitlement_projection.go:152).
THEOREM EntitlementsRunOut == Spec => []EntitlementsExpire
<1>1. Inv => EntitlementsExpire
  <2> SUFFICES ASSUME Inv, capability # None, Accepted(capability),
                      NEW p \in capability.permissions
               PROVE  \E i \in 1..Len(entitled) :
                        /\ p \in entitled[i].codes
                        /\ entitled[i].until = None
                           \/ entitled[i].until + EntitlementStaleness + CallTimeout >= now
    BY DEF EntitlementsExpire
  <2> DEFINE i == projection.revision
             u == entitled[i].until
             at == projection.at
  <2>1. i \in 1..Len(entitled) /\ p \in entitled[i].codes
    BY AcceptedNames DEF Standing, Inv, ProjectionInv, ProjectionsAreSnapshots
  <2>2. u \in Nat \cup {None}
    BY <2>1, Untils DEF Inv
  <2>3. u # None => u + CallTimeout >= at
    BY DEF Inv, AgeInv, InForce
  <2>4. now - at <= EntitlementStaleness
    BY DEF Accepted, EntitlementCurrent, FreshEntitlement
  <2>5. now \in Nat /\ at \in Nat
    BY DEF Inv, ProjectionInv, RowsTyped
  <2> HIDE DEF u, at, i
  <2>6. u = None \/ u + EntitlementStaleness + CallTimeout >= now
    BY ONLY <2>2, <2>3, <2>4, <2>5, StalenessAssumption
  <2> QED
    BY <2>1, <2>6 DEF u
<1> QED
    BY <1>1, InvariantHolds, PTL
=============================================================================
