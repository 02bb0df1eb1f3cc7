-------------------------- MODULE Backoffice_proofs --------------------------
(***************************************************************************)
(* Proofs about the whole back office.  What is proved of the plans and    *)
(* purchases holds of them there, as the other parts leave their tables    *)
(* alone; and the merchants and shops are what the others stand on.        *)
(***************************************************************************)
EXTENDS Backoffice, Merchants_proofs

\* The theorems, about the same variables as Backoffice's own instance.
Purchases == INSTANCE Subscriptions_proofs

\* Both instances have the same initial states and the same steps.
LEMMA SameInit == Subscription!Init => Purchases!Init
BY DEF Subscription!Init, Purchases!Init, Subscription!NoPlan, Purchases!NoPlan,
       Subscription!NoOrder, Purchases!NoOrder, Subscription!NoPayment, Purchases!NoPayment,
       Subscription!NoAssignment, Purchases!NoAssignment, Subscription!NoFact,
       Purchases!NoFact, Subscription!Kinds, Purchases!Kinds

LEMMA SameNext == Subscription!Next => Purchases!Next
BY DEF Subscription!purchase, Purchases!purchase, Subscription!merchant, Purchases!merchant,
       Subscription!vars, Purchases!vars, Subscription!Kinds, Purchases!Kinds,
       Subscription!NoPlan, Purchases!NoPlan, Subscription!NoOrder, Purchases!NoOrder,
       Subscription!NoPayment, Purchases!NoPayment, Subscription!NoAssignment,
       Purchases!NoAssignment, Subscription!NoFact, Purchases!NoFact, Subscription!Active,
       Purchases!Active, Subscription!Kept, Purchases!Kept, Subscription!Tick, Purchases!Tick,
       Subscription!Command, Purchases!Command, Subscription!Change, Purchases!Change,
       Subscription!PutPlan, Purchases!PutPlan, Subscription!MayBe, Purchases!MayBe,
       Subscription!PolicyAfter, Purchases!PolicyAfter, Subscription!SavePlan,
       Purchases!SavePlan, Subscription!RetirePlan, Purchases!RetirePlan,
       Subscription!SavePlanPolicy, Purchases!SavePlanPolicy, Subscription!To, Purchases!To,
       Subscription!End, Purchases!End, Subscription!At, Purchases!At, Subscription!Renewed,
       Purchases!Renewed, Subscription!Assigned, Purchases!Assigned, Subscription!Buyable,
       Purchases!Buyable, Subscription!Fresh, Purchases!Fresh, Subscription!BeginPurchase,
       Purchases!BeginPurchase, Subscription!PendingOf, Purchases!PendingOf,
       Subscription!Reusable, Purchases!Reusable, Subscription!CreateOrder,
       Purchases!CreateOrder, Subscription!Charge, Purchases!Charge,
       Subscription!AttachPayment, Purchases!AttachPayment, Subscription!BeginSettle,
       Purchases!BeginSettle, Subscription!Settled, Purchases!Settled, Subscription!AskStatus,
       Purchases!AskStatus, Subscription!Payable, Purchases!Payable, Subscription!Activate,
       Purchases!Activate, Subscription!CloseOrder, Purchases!CloseOrder, Subscription!Pay,
       Purchases!Pay, Subscription!OpenMerchant, Purchases!OpenMerchant,
       Subscription!BeginAssign, Purchases!BeginAssign, Subscription!Assign, Purchases!Assign,
       Subscription!Following, Purchases!Following, Subscription!ReadPolicy,
       Purchases!ReadPolicy, Subscription!ReadRevision, Purchases!ReadRevision,
       Subscription!Done, Purchases!Done, Subscription!Apply, Purchases!Apply,
       Subscription!Insert, Purchases!Insert, Subscription!Crash, Purchases!Crash,
       Subscription!Catalogue, Purchases!Catalogue, Subscription!Purchase, Purchases!Purchase,
       Subscription!Platform, Purchases!Platform, Subscription!Entitle, Purchases!Entitle,
       Subscription!Next, Purchases!Next

LEMMA SubscriptionStep ==
    ASSUME [Next]_vars
    PROVE  [Purchases!Next]_(Purchases!vars)
<1>1. CASE SubscriptionPart
    BY <1>1, SameNext DEF SubscriptionPart
<1>2. CASE UNCHANGED purchases
    BY <1>2 DEF purchases, Purchases!vars, Purchases!purchase, Purchases!merchant
<1> QED
    BY <1>1, <1>2 DEF Next, vars, Shops, DomainPart, SettingsPart, FulfilmentPart, BookPart

\* Whatever part of the back office a behaviour is about, there is one default plan
\* and it is ACTIVE once there is a plan (plan.go:72-90, plan.go:160-165).
THEOREM PlansHaveOneDefault == Spec => []OneDefaultPlan
<1>1. Init => Purchases!PlanInv
    BY SameInit, Purchases!PlanInit DEF Init
<1>2. Purchases!PlanInv /\ [Next]_vars => (Purchases!PlanInv)'
    BY SubscriptionStep, Purchases!PlanNext
<1>3. Purchases!PlanInv => OneDefaultPlan
    BY DEF Purchases!PlanInv, Purchases!OneDefaultPlan, OneDefaultPlan, Subscription!OneDefaultPlan,
           Purchases!Kept, Subscription!Kept, Purchases!Active, Subscription!Active
<1> QED
    BY <1>1, <1>2, <1>3, PTL DEF Spec

\* In the whole back office nothing is opened that has not been paid for
\* (subscription.go:298-345, order.go:34-70).
THEOREM PurchasesWerePaid == Spec => []OpenedWasPaid
<1> DEFINE Inv == Purchases!PlanInv /\ Purchases!PaidInv
<1>0. None \notin Orders
    BY BackofficeAssumption
<1>1. Init => Inv
    BY <1>0, SameInit, Purchases!PlanInit, Purchases!PaidInit DEF Init
<1>2. Inv /\ [Next]_vars => Inv'
    BY <1>0, SubscriptionStep, Purchases!PlanNext, Purchases!PaidNext
<1>3. Inv => OpenedWasPaid
    BY DEF Purchases!PaidInv, Purchases!RowsInv, Purchases!OpenedWasPaid, OpenedWasPaid,
           Subscription!OpenedWasPaid, Purchases!Paid, Subscription!Paid
<1> QED
    BY <1>1, <1>2, <1>3, PTL DEF Spec

\* In the whole back office an order opens its plan once, however often it is settled
\* (order.go:149-231, order.go:34-70).
THEOREM PurchasesOpenOnce == Spec => []OrdersOpenOnce
<1> DEFINE Inv == Purchases!PlanInv /\ Purchases!PaidInv /\ Purchases!OpenInv
<1>0. None \notin Orders /\ Purchases!DurationsAreBounded
    BY BackofficeAssumption DEF Purchases!DurationsAreBounded
<1>1. Init => Inv
    BY <1>0, SameInit, Purchases!PlanInit, Purchases!PaidInit, Purchases!OpenInit DEF Init
<1>2. Inv /\ [Next]_vars => Inv'
    BY <1>0, SubscriptionStep, Purchases!PlanNext, Purchases!PaidNext, Purchases!OpenNext
<1>3. Inv => OrdersOpenOnce
  <2>1. Inv => Purchases!OrdersOpenOnce
    BY <1>0, Purchases!OpenOnce
  <2>2. Purchases!OrdersOpenOnce => OrdersOpenOnce
    <3>1. Purchases!Paid = Subscription!Paid
        BY DEF Purchases!Paid, Subscription!Paid
    <3>2. \A p \in Plans : Purchases!PendingOf(p) = Subscription!PendingOf(p)
        BY DEF Purchases!PendingOf, Subscription!PendingOf
    <3>3. \A S : Purchases!Cardinality(S) = Subscription!Cardinality(S)
        BY DEF Purchases!Cardinality, Subscription!Cardinality
    <3> QED
        BY Zenon, <3>1, <3>2, <3>3
           DEF Purchases!OrdersOpenOnce, OrdersOpenOnce, Subscription!OrdersOpenOnce
  <2> QED
    BY <2>1, <2>2
<1> QED
    BY <1>1, <1>2, <1>3, PTL DEF Spec

-----------------------------------------------------------------------------
(* Merchants and shops, whatever the part.                                 *)

\* No other part touches them.
LEMMA PartsKeepTenancy ==
    ASSUME DomainPart \/ SettingsPart \/ FulfilmentPart \/ BookPart \/ SubscriptionPart
    PROVE  UNCHANGED tenancy /\ (Command \/ UNCHANGED writes)
<1>1. CASE DomainPart
    BY <1>1 DEF DomainPart, DomainStep, CreateDomain, ActivateDomain, DeleteDomain, BeginTest, Answer,
                NoAnswer, FinishTest, DomainCommand
<1>2. CASE SettingsPart
    BY <1>2 DEF SettingsPart, SettingsStep, AppRequest, CreateApp, ResetAppSecret, EnableApp,
                DisableApp, AppStep, AppCommand, PolicyRequest, SavePolicy, PublishPolicy, PolicyStep,
                PolicyCommand, BeginPrivacy, ReplaceLanguages, SavePrivacy, ReadDefault, ReadRows
<1>3. CASE FulfilmentPart
    BY <1>3 DEF FulfilmentPart, FulfilmentStep, BeginShippingWrite, RuleRequest, PresetRequest,
                SaveRule, RetireRule, SavePreset, SetPresetEnabled, RetirePreset, Written,
                ParcelRequest, Ship, AddTrace, CloseShipment, AftersaleRequest, ReviewAftersale,
                ReceiveAftersale, Refund, ReviewComplaint, ParcelCommand, AftersaleCommand,
                ComplaintCommand, ShopWrite
<1>4. CASE BookPart
    BY <1>4 DEF BookPart, BookStep, AddressRequest, SaveAddress, DeleteAddress, ReplaceDefault,
                AddressWrite, WishlistRequest, AddWishlist, RemoveWishlist, WishlistWrite,
                AccountRequest, SaveAccount, DeleteAccount, AccountWrite
<1>5. CASE SubscriptionPart
    BY <1>5 DEF SubscriptionPart
<1> QED
    BY <1>1, <1>2, <1>3, <1>4, <1>5

LEMMA BackofficeTenancyInit == Init => TenancyInv
<1> SUFFICES ASSUME Init PROVE TenancyInv
    OBVIOUS
<1>1. writes \in 0..MaxWrites
    BY BackofficeAssumption, MerchantsAssumption DEF Init
<1> QED
    BY <1>1, TenancyInit DEF Init

LEMMA BackofficeTenancyNext ==
    ASSUME TenancyInv, [Next]_vars
    PROVE  TenancyInv'
<1>1. CASE Shops
    BY <1>1, TenancyNext DEF Shops
<1>2. CASE UNCHANGED vars
    BY <1>2, TenancyStays DEF vars
<1> QED
    BY <1>1, <1>2, PartsKeepTenancy, TenancyStays DEF Next

\* A closed merchant keeps no shop, owner, login or session, and every other keeps a
\* shop and an owner who operates all of its shops, whatever commands come in whatever
\* order (lifecycle.go:344-395, merchant.go:230-290).
THEOREM ClosedAreEmpty == Spec => []ClosedIsEmpty
<1>1. TenancyInv => ClosedIsEmpty
    BY DEF TenancyInv
<1> QED
    BY <1>1, BackofficeTenancyInit, BackofficeTenancyNext, PTL DEF Spec

-----------------------------------------------------------------------------
(* Domains.  A test holds no lock while its look-up is out; what makes its *)
(* answer safe to write is that versions only grow, so a row that still has*)
(* the version the merchant saw is the row the look-up was answered for.   *)

DomainRows == [status : {"NONE", "PENDING", "VERIFIED", "FAILED", "DELETED"},
               shop : 0..MaxShops, host : Hosts \cup {None},
               scene : Scenes \cup {None}, primary : BOOLEAN, version : Nat]

OneHost == \A d, e \in DomainIds :
                Bound(d) /\ Bound(e) /\ domain[d].host = domain[e].host => d = e
OnePrimary == \A d, e \in DomainIds :
                /\ domain[d].primary /\ domain[e].primary
                /\ domain[d].shop = domain[e].shop /\ domain[d].scene = domain[e].scene
                => d = e

\* Look-up q was asked for a version its domain had, and answered no earlier.
Asked(q, rows) ==
    q # None =>
        /\ q.domain \in DomainIds /\ q.answered \in BOOLEAN
        /\ q.expected \in Nat /\ q.expected <= rows[q.domain].version
        /\ q.answered => /\ q.matched \in BOOLEAN /\ q.against \in Nat
                         /\ q.expected <= q.against /\ q.against <= rows[q.domain].version

LookupsAsked == /\ lookup = [t \in Lookups |-> lookup[t]]
                /\ \A t \in Lookups : Asked(lookup[t], domain)

DomainsInv == /\ domain \in [DomainIds -> DomainRows] /\ DomainsTypeOK
              /\ OneHost /\ OnePrimary /\ LookupsAsked

\* No step takes a version back, or moves a domain to another shop, host or scene.
DomainsMove == \A d \in DomainIds :
    /\ domain'[d] \in DomainRows
    /\ domain[d].version <= domain'[d].version
    /\ domain[d].status # "NONE" =>
        /\ domain'[d].shop = domain[d].shop /\ domain'[d].host = domain[d].host
        /\ domain'[d].scene = domain[d].scene

LEMMA AskedStays ==
    ASSUME domain \in [DomainIds -> DomainRows], DomainsMove, NEW q, Asked(q, domain)
    PROVE  Asked(q, domain')
<1> SUFFICES ASSUME q # None PROVE Asked(q, domain')
    BY DEF Asked
<1>1. q.domain \in DomainIds /\ q.expected \in Nat
    BY DEF Asked
<1>2. /\ domain[q.domain].version \in Nat /\ domain'[q.domain].version \in Nat
      /\ domain[q.domain].version <= domain'[q.domain].version
    BY <1>1 DEF DomainsMove, DomainRows
<1> QED
    BY <1>1, <1>2 DEF Asked

\* At most one look-up moves.
LookupMoves == \/ lookup' = lookup
               \/ \E t \in Lookups : \E q : lookup' = [lookup EXCEPT ![t] = q] /\ Asked(q, domain')

LEMMA LookupsStayAsked ==
    ASSUME domain \in [DomainIds -> DomainRows], DomainsMove, LookupsAsked, LookupMoves
    PROVE  LookupsAsked'
<1>1. \A t \in Lookups : Asked(lookup[t], domain')
    BY AskedStays DEF LookupsAsked
<1>2. ASSUME NEW t \in Lookups, NEW q, lookup' = [lookup EXCEPT ![t] = q], Asked(q, domain')
      PROVE  LookupsAsked'
    BY <1>1, <1>2 DEF LookupsAsked
<1>3. CASE lookup' = lookup
    BY <1>1, <1>3 DEF LookupsAsked
<1> QED
    BY <1>2, <1>3 DEF LookupMoves

LEMMA DomainsInitial == DomainsInit => DomainsInv
<1> SUFFICES ASSUME DomainsInit PROVE DomainsInv
    OBVIOUS
<1>1. MaxShops \in Nat /\ 1 \in 0..MaxShops
    BY MerchantsAssumption
<1>2. LookupsAsked
    BY DEF DomainsInit, LookupsAsked, Asked
<1>3. CASE domain = [d \in DomainIds |-> NoDomain]
  <2>1. NoDomain \in DomainRows /\ NoDomain.status = "NONE" /\ ~NoDomain.primary
    BY <1>1 DEF NoDomain, DomainRows
  <2>2. domain \in [DomainIds -> DomainRows] /\ DomainsTypeOK
    BY <1>3, <2>1 DEF DomainsTypeOK, DomainRows
  <2>3. OneHost /\ OnePrimary
    BY <1>3, <2>1 DEF OneHost, OnePrimary, Bound
  <2> QED
    BY <1>2, <2>2, <2>3 DEF DomainsInv
<1>4. ASSUME NEW scene \in Scenes, NEW host \in [DomainIds -> Hosts],
             \A d, e \in DomainIds : host[d] = host[e] => d = e,
             domain = [d \in DomainIds |-> DomainRow(1, host[d], scene, "VERIFIED", 2)]
      PROVE  DomainsInv
  <2>1. \A d \in DomainIds : /\ domain[d] \in DomainRows
                             /\ domain[d].host = host[d] /\ ~domain[d].primary
    BY <1>1, <1>4 DEF DomainRow, DomainRows
  <2>2. domain \in [DomainIds -> DomainRows]
    BY <1>4, <2>1
  <2>3. DomainsTypeOK
    BY <2>1, <2>2 DEF DomainsTypeOK, DomainRows
  <2>4. OneHost /\ OnePrimary
    BY <1>4, <2>1 DEF OneHost, OnePrimary
  <2> QED
    BY <1>2, <2>2, <2>3, <2>4 DEF DomainsInv
<1> QED
    BY <1>3, <1>4 DEF DomainsInit

\* What is left to show of a step on domains.
LEMMA DomainsKeptBy ==
    ASSUME DomainsInv, domain' = [d \in DomainIds |-> domain'[d]], DomainsMove, LookupMoves,
           \A d \in DomainIds : domain'[d].primary => domain'[d].status \in {"VERIFIED", "FAILED"},
           OneHost', OnePrimary'
    PROVE  DomainsInv'
<1>1. domain' \in [DomainIds -> DomainRows]
    BY DEF DomainsMove
<1>2. DomainsTypeOK'
    BY <1>1 DEF DomainsTypeOK, DomainRows
<1>3. LookupsAsked'
    BY LookupsStayAsked DEF DomainsInv
<1> QED
    BY <1>1, <1>2, <1>3 DEF DomainsInv

\* A step that leaves the domains alone.
LEMMA DomainsAlone ==
    ASSUME DomainsInv, UNCHANGED domain, LookupMoves
    PROVE  DomainsInv'
<1>1. DomainsMove
    BY DEF DomainsInv, DomainsMove, DomainRows
<1>2. OneHost' /\ OnePrimary'
    BY DEF DomainsInv, OneHost, OnePrimary, Bound
<1> QED
    BY <1>1, <1>2, DomainsKeptBy DEF DomainsInv, DomainsTypeOK

LEMMA CreateDomainKeeps ==
    ASSUME DomainsInv, NEW d \in DomainIds, NEW s \in ShopIds, NEW new \in NewDomains,
           CreateDomain(d, s, new)
    PROVE  DomainsInv'
<1> DEFINE row == DomainRow(s, new.host, new.scene, "PENDING", 1)
<1>1. /\ domain[d] = NoDomain /\ HostFree(new.host) /\ domain' = [domain EXCEPT ![d] = row]
      /\ lookup' = lookup
    BY DEF CreateDomain, Fresh
<1>2. /\ row \in DomainRows /\ row.host = new.host /\ row.status = "PENDING"
      /\ row.primary = FALSE /\ row.version = 1
    BY MerchantsAssumption DEF DomainRow, DomainRows, ShopIds, NewDomains
<1> HIDE DEF row
<1>3. domain \in [DomainIds -> DomainRows]
    BY DEF DomainsInv
<1>4. domain'[d] = row /\ \A e \in DomainIds : e # d => domain'[e] = domain[e]
    BY <1>1, <1>3
<1>5. domain[d].status = "NONE" /\ domain[d].version = 0
    BY <1>1 DEF NoDomain
<1>6. DomainsMove
    BY <1>2, <1>3, <1>4, <1>5 DEF DomainsMove, DomainRows
<1>7. \A e \in DomainIds : domain'[e].primary => domain'[e].status \in {"VERIFIED", "FAILED"}
    BY <1>2, <1>4 DEF DomainsInv, DomainsTypeOK
<1>8. OneHost'
    BY <1>1, <1>2, <1>4 DEF DomainsInv, OneHost, Bound, HostFree
<1>9. OnePrimary'
    BY <1>2, <1>4 DEF DomainsInv, OnePrimary
<1> QED
    BY <1>1, <1>3, <1>6, <1>7, <1>8, <1>9, DomainsKeptBy DEF LookupMoves

\* A step that changes the status and the version of one bound domain only.
LEMMA OneDomainKeeps ==
    ASSUME DomainsInv, NEW d \in DomainIds, Bound(d), LookupMoves,
           domain' = [e \in DomainIds |-> domain'[e]],
           \A e \in DomainIds : e # d => domain'[e] = domain[e],
           domain'[d] \in DomainRows, domain'[d].version = domain[d].version + 1,
           domain'[d].shop = domain[d].shop, domain'[d].host = domain[d].host,
           domain'[d].scene = domain[d].scene,
           \/ domain'[d].status \in {"VERIFIED", "FAILED"} /\ domain'[d].primary = domain[d].primary
           \/ domain'[d].status = "DELETED" /\ ~domain'[d].primary
    PROVE  DomainsInv'
<1>1. domain \in [DomainIds -> DomainRows]
    BY DEF DomainsInv
<1>2. DomainsMove
    BY <1>1 DEF DomainsMove, DomainRows
<1>3. \A e \in DomainIds : domain'[e].primary => domain'[e].status \in {"VERIFIED", "FAILED"}
    BY DEF DomainsInv, DomainsTypeOK
<1>4. OneHost' /\ OnePrimary'
    BY DEF DomainsInv, OneHost, OnePrimary, Bound
<1> QED
    BY <1>2, <1>3, <1>4, DomainsKeptBy

LEMMA FinishTestKeeps ==
    ASSUME DomainsInv, NEW t \in Lookups, FinishTest(t)
    PROVE  DomainsInv'
<1> DEFINE q == lookup[t]
           status == IF q.matched THEN "VERIFIED" ELSE "FAILED"
<1>1. /\ q # None /\ q.answered /\ lookup' = [lookup EXCEPT ![t] = None]
    BY DEF FinishTest
<1>2. q.domain \in DomainIds /\ domain \in [DomainIds -> DomainRows]
    BY <1>1 DEF DomainsInv, LookupsAsked, Asked
<1>3. LookupMoves
    BY <1>1 DEF LookupMoves, Asked
<1>4. CASE UNCHANGED domain
    BY <1>3, <1>4, DomainsAlone
<1>5. CASE /\ Bound(q.domain)
           /\ domain' = [domain EXCEPT ![q.domain].status = status, ![q.domain].version = @ + 1]
  <2>1. \A e \in DomainIds : e # q.domain => domain'[e] = domain[e]
    BY <1>2, <1>5
  <2>2. /\ domain'[q.domain] \in DomainRows /\ domain'[q.domain].version = domain[q.domain].version + 1
        /\ domain'[q.domain].status \in {"VERIFIED", "FAILED"}
        /\ domain'[q.domain].shop = domain[q.domain].shop
        /\ domain'[q.domain].host = domain[q.domain].host
        /\ domain'[q.domain].scene = domain[q.domain].scene
        /\ domain'[q.domain].primary = domain[q.domain].primary
    BY <1>2, <1>5 DEF DomainRows
  <2>3. domain' = [e \in DomainIds |-> domain'[e]]
    BY <1>2, <1>5
  <2> QED
    BY <1>2, <1>3, <1>5, <2>1, <2>2, <2>3, OneDomainKeeps
<1> QED
    BY <1>4, <1>5 DEF FinishTest, Still, StillAny

LEMMA DeleteDomainKeeps ==
    ASSUME DomainsInv, NEW d \in DomainIds, DeleteDomain(d)
    PROVE  DomainsInv'
<1>1. /\ Bound(d) /\ LookupMoves
      /\ domain' = [domain EXCEPT ![d].status = "DELETED", ![d].primary = FALSE, ![d].version = @ + 1]
    BY DEF DeleteDomain, LookupMoves
<1>2. domain \in [DomainIds -> DomainRows]
    BY DEF DomainsInv
<1>3. \A e \in DomainIds : e # d => domain'[e] = domain[e]
    BY <1>1, <1>2
<1>4. /\ domain'[d] \in DomainRows /\ domain'[d].version = domain[d].version + 1
      /\ domain'[d].status = "DELETED" /\ ~domain'[d].primary
      /\ domain'[d].shop = domain[d].shop /\ domain'[d].host = domain[d].host
      /\ domain'[d].scene = domain[d].scene
    BY <1>1, <1>2 DEF DomainRows
<1>5. domain' = [e \in DomainIds |-> domain'[e]]
    BY <1>1, <1>2
<1> QED
    BY <1>1, <1>3, <1>4, <1>5, OneDomainKeeps

\* The primary flag moves within a scene of a shop.
LEMMA ActivateDomainKeeps ==
    ASSUME DomainsInv, NEW d \in DomainIds, ActivateDomain(d)
    PROVE  DomainsInv'
<1>1. domain[d].status = "VERIFIED" /\ MakePrimary(d) /\ LookupMoves
    BY DEF ActivateDomain, LookupMoves
<1>2. domain \in [DomainIds -> DomainRows]
    BY DEF DomainsInv
<1>3. \A e \in DomainIds :
        /\ domain'[e] \in DomainRows /\ domain'[e].shop = domain[e].shop
        /\ domain'[e].host = domain[e].host /\ domain'[e].scene = domain[e].scene
        /\ domain'[e].status = domain[e].status /\ domain[e].version <= domain'[e].version
        /\ domain'[e].primary <=> e = d \/ (domain[e].primary /\ e \notin Siblings(d))
  <2> SUFFICES ASSUME NEW e \in DomainIds
               PROVE  /\ domain'[e] \in DomainRows /\ domain'[e].shop = domain[e].shop
                      /\ domain'[e].host = domain[e].host /\ domain'[e].scene = domain[e].scene
                      /\ domain'[e].status = domain[e].status
                      /\ domain[e].version <= domain'[e].version
                      /\ domain'[e].primary <=> e = d \/ (domain[e].primary /\ e \notin Siblings(d))
    OBVIOUS
  <2>1. domain'[e] = IF e = d THEN [domain[e] EXCEPT !.primary = TRUE, !.version = @ + 1]
                     ELSE IF e \in Siblings(d) THEN [domain[e] EXCEPT !.primary = FALSE]
                     ELSE domain[e]
    BY <1>1 DEF MakePrimary
  <2>2. domain[e] \in DomainRows
    BY <1>2
  <2>3. CASE e = d
    <3>1. domain'[e] = [domain[e] EXCEPT !.primary = TRUE, !.version = @ + 1]
        BY <2>1, <2>3
    <3>2. domain[e].version \in Nat /\ domain[e].version + 1 \in Nat
        BY <2>2 DEF DomainRows
    <3>3. domain'[e] \in DomainRows
        BY <2>2, <3>1, <3>2 DEF DomainRows
    <3>4. /\ domain'[e].primary = TRUE
          /\ domain'[e].version = domain[e].version + 1
          /\ domain'[e].status = domain[e].status /\ domain'[e].shop = domain[e].shop
          /\ domain'[e].host = domain[e].host /\ domain'[e].scene = domain[e].scene
        BY <2>2, <3>1 DEF DomainRows
    <3> QED
        BY <2>3, <3>2, <3>3, <3>4
  <2>4. CASE e # d /\ e \in Siblings(d)
    <3>1. domain'[e] = [domain[e] EXCEPT !.primary = FALSE]
        BY <2>1, <2>4
    <3>2. /\ domain'[e] \in DomainRows /\ ~domain'[e].primary
          /\ domain'[e].version = domain[e].version /\ domain[e].version \in Nat
          /\ domain'[e].status = domain[e].status /\ domain'[e].shop = domain[e].shop
          /\ domain'[e].host = domain[e].host /\ domain'[e].scene = domain[e].scene
        BY <2>2, <3>1 DEF DomainRows
    <3> QED
        BY <2>4, <3>2
  <2>5. CASE e # d /\ e \notin Siblings(d)
    BY <2>1, <2>2, <2>5 DEF DomainRows
  <2> QED
    BY <2>3, <2>4, <2>5
<1>4. DomainsMove
    BY <1>3 DEF DomainsMove
<1>5. \A e \in DomainIds : domain'[e].primary => domain'[e].status \in {"VERIFIED", "FAILED"}
    BY <1>1, <1>3 DEF DomainsInv, DomainsTypeOK
<1>6. OneHost'
    BY <1>3 DEF DomainsInv, OneHost, Bound
<1>7. OnePrimary'
  <2>1. \A e \in DomainIds : domain'[e].primary /\ e # d =>
            domain[e].primary /\ ~(domain[e].shop = domain[d].shop /\ domain[e].scene = domain[d].scene)
    BY <1>3 DEF Siblings, Bound, DomainsInv, DomainsTypeOK
  <2> QED
    BY <1>3, <2>1 DEF DomainsInv, OnePrimary
<1>8. domain' = [e \in DomainIds |-> domain'[e]]
    BY <1>1 DEF MakePrimary
<1> QED
    BY <1>1, <1>4, <1>5, <1>6, <1>7, <1>8, DomainsKeptBy

\* Asking and answering.
LEMMA LookupKeeps ==
    ASSUME DomainsInv, NEW t \in Lookups,
           Answer(t) \/ NoAnswer(t) \/ \E d \in DomainIds : BeginTest(t, d)
    PROVE  DomainsInv'
<1>1. UNCHANGED domain /\ domain \in [DomainIds -> DomainRows]
    BY DEF Answer, NoAnswer, BeginTest, DomainsInv
<1>2. CASE NoAnswer(t)
    BY <1>1, <1>2, DomainsAlone DEF NoAnswer, LookupMoves, Asked
<1>3. ASSUME NEW d \in DomainIds, BeginTest(t, d) PROVE DomainsInv'
  <2> DEFINE q == [domain |-> d, expected |-> domain[d].version, answered |-> FALSE]
  <2>1. lookup' = [lookup EXCEPT ![t] = q]
    BY <1>3 DEF BeginTest
  <2>2. domain[d].version \in Nat
    BY <1>1 DEF DomainRows
  <2>3. Asked(q, domain')
    BY <1>1, <2>2 DEF Asked
  <2> HIDE DEF q
  <2> QED
    BY <1>1, <2>1, <2>3, DomainsAlone DEF LookupMoves
<1>4. ASSUME Answer(t) PROVE DomainsInv'
  <2>1. PICK matched \in BOOLEAN :
            lookup' = [lookup EXCEPT ![t] =
                [domain |-> lookup[t].domain, expected |-> lookup[t].expected, answered |-> TRUE,
                 matched |-> matched, against |-> domain[lookup[t].domain].version]]
    BY <1>4 DEF Answer
  <2> DEFINE asked == lookup[t]
             q == [domain |-> asked.domain, expected |-> asked.expected, answered |-> TRUE,
                   matched |-> matched, against |-> domain[asked.domain].version]
  <2>2. /\ asked.domain \in DomainIds /\ asked.expected \in Nat
        /\ asked.expected <= domain[asked.domain].version
    BY <1>4 DEF Answer, DomainsInv, LookupsAsked, Asked
  <2>3. domain[asked.domain].version \in Nat
    BY <1>1, <2>2 DEF DomainRows
  <2>4. lookup' = [lookup EXCEPT ![t] = q]
    BY <2>1
  <2> HIDE DEF asked
  <2>5. /\ q.domain = asked.domain /\ q.expected = asked.expected /\ q.answered
        /\ q.matched = matched /\ q.against = domain[asked.domain].version
    OBVIOUS
  <2> HIDE DEF q
  <2>6. Asked(q, domain')
    BY <1>1, <2>2, <2>3, <2>5 DEF Asked
  <2> QED
    BY <1>1, <2>4, <2>6, DomainsAlone DEF LookupMoves
<1> QED
    BY <1>2, <1>3, <1>4

LEMMA DomainsNext ==
    ASSUME DomainsInv, [Next]_vars
    PROVE  DomainsInv'
<1>1. CASE DomainPart
    BY <1>1, CreateDomainKeeps, ActivateDomainKeeps, DeleteDomainKeeps, FinishTestKeeps, LookupKeeps
       DEF DomainPart, DomainStep
<1>2. CASE UNCHANGED domains
    BY <1>2, DomainsAlone DEF domains, LookupMoves
<1> QED
    BY <1>1, <1>2 DEF Next, vars, Shops, SettingsPart, FulfilmentPart, BookPart, SubscriptionPart

\* A domain becomes verified, or fails, by a look-up that was answered while the domain
\* was as it is replaced (domain.go:124, domain.go:192-206).
THEOREM VerifiedByAnswers == Spec => VerifiedByItsLookup
<1> DEFINE Kept(d) ==
        domain'[d].status \in {"VERIFIED", "FAILED"} \ {domain[d].status} =>
            \E t \in Lookups :
                /\ lookup[t] # None /\ lookup[t].answered
                /\ lookup[t].domain = d /\ lookup[t].against = domain[d].version
                /\ domain'[d].status = IF lookup[t].matched THEN "VERIFIED" ELSE "FAILED"
<1>1. ASSUME DomainsInv, [Next]_vars, NEW d \in DomainIds PROVE Kept(d)
  <2>1. domain \in [DomainIds -> DomainRows]
    BY <1>1 DEF DomainsInv
  <2>2. CASE domain'[d].status = domain[d].status
    BY <2>2
  <2>3. CASE domain'[d].status \in {"PENDING", "DELETED"}
    BY <2>3
  <2>4. ASSUME NEW t \in Lookups, FinishTest(t), domain'[d].status # domain[d].status PROVE Kept(d)
    <3> DEFINE q == lookup[t]
    <3>1. /\ q # None /\ q.answered /\ domain[q.domain].version = q.expected
          /\ domain' = [domain EXCEPT ![q.domain].status = IF q.matched THEN "VERIFIED" ELSE "FAILED",
                                      ![q.domain].version = @ + 1]
        BY <2>4 DEF FinishTest, Still
    <3>2. /\ q.domain \in DomainIds /\ q.expected \in Nat /\ q.against \in Nat
          /\ q.expected <= q.against /\ q.against <= domain[q.domain].version
        BY <1>1, <3>1 DEF DomainsInv, LookupsAsked, Asked
    <3>3. q.against = domain[q.domain].version
        BY <3>1, <3>2
    <3>4. q.domain = d
        BY <2>1, <2>4, <3>1, <3>2
    <3>5. domain'[d].status = IF q.matched THEN "VERIFIED" ELSE "FAILED"
        BY <2>1, <3>1, <3>2, <3>4 DEF DomainRows
    <3> QED
        BY <3>1, <3>3, <3>4, <3>5
  <2>5. CASE DomainPart
    <3>1. ASSUME NEW e \in DomainIds, NEW s \in ShopIds, NEW new \in NewDomains,
                 CreateDomain(e, s, new) PROVE Kept(d)
        BY <2>1, <2>2, <2>3, <3>1 DEF CreateDomain, DomainRow
    <3>2. ASSUME NEW e \in DomainIds, ActivateDomain(e) PROVE Kept(d)
        BY <2>1, <2>2, <3>2 DEF ActivateDomain, MakePrimary, DomainRows
    <3>3. ASSUME NEW e \in DomainIds, DeleteDomain(e) PROVE Kept(d)
        BY <2>1, <2>2, <2>3, <3>3 DEF DeleteDomain, DomainRows
    <3>4. ASSUME NEW t \in Lookups, Answer(t) \/ NoAnswer(t) \/ \E e \in DomainIds : BeginTest(t, e)
          PROVE Kept(d)
        BY <2>2, <3>4 DEF Answer, NoAnswer, BeginTest
    <3> QED
        BY <2>2, <2>4, <2>5, <3>1, <3>2, <3>3, <3>4 DEF DomainPart, DomainStep
  <2>6. CASE UNCHANGED domains
    BY <2>2, <2>6 DEF domains
  <2> QED
    BY <1>1, <2>5, <2>6 DEF Next, vars, Shops, SettingsPart, FulfilmentPart, BookPart,
                            SubscriptionPart
<1>2. DomainsInv /\ [Next]_vars => [part = "domains" => \A d \in DomainIds : Kept(d)]_vars
    BY <1>1
<1>3. Init => DomainsInv
    BY DomainsInitial DEF Init
<1> QED
    BY <1>2, <1>3, DomainsNext, PTL DEF Spec, VerifiedByItsLookup

-----------------------------------------------------------------------------
(* Applications, policies, privacy and languages.  The numbers of the      *)
(* policies of a type are those up to their count; that a new one is one   *)
(* more is what keeps them apart.                                          *)

AppRows    == [status : {"NONE", "ACTIVE", "DISABLED"}, shop : 0..MaxShops, secret : Nat]
PolicyRows == [status : {"NONE", "DRAFT", "PUBLISHED", "ARCHIVED"}, shop : 0..MaxShops,
               type : PolicyTypes \cup {None}, number : Nat]

\* A policy that exists is of a shop and a type.
Filed == \A p \in Policies :
            policy[p] = NoPolicy \/ (policy[p].shop \in ShopIds /\ policy[p].type \in PolicyTypes)

NumberedUpTo(s, type) ==
    /\ IsFiniteSet(OfType(s, type))
    /\ \A p \in OfType(s, type) : policy[p].number <= Cardinality(OfType(s, type))

PoliciesApart ==
    \A p, q \in Policies : p # q /\ policy[p].shop = policy[q].shop
                                 /\ policy[p].type = policy[q].type /\ policy[p] # NoPolicy =>
        /\ ~(policy[p].status = "PUBLISHED" /\ policy[q].status = "PUBLISHED")
        /\ policy[p].number # policy[q].number

PolicyInv == /\ policy \in [Policies -> PolicyRows] /\ Filed /\ PoliciesApart
             /\ \A s \in ShopIds, type \in PolicyTypes : NumberedUpTo(s, type)

PrivacyInv == /\ privacy \in [ShopIds -> Nat]
              /\ permit \in [shop : 0..MaxShops, expected : Nat]
              /\ permit # NoPermit => permit.shop \in ShopIds

\* Languages that were read are of a shop, and the default is one of the others even when
\* they come from different saves.
VisitInv == /\ visit \in [shop : 0..MaxShops, default : Locales \cup {None},
                          published : SUBSET Locales]
            /\ visit # NoVisit => visit.shop \in ShopIds /\ visit.default \in Locales
            /\ visit.published # {} => visit.default \in visit.published

SettingsInv == /\ app \in [Apps -> AppRows] /\ PolicyInv /\ PrivacyInv
               /\ languages \in [ShopIds -> NewLanguages] /\ VisitInv

LEMMA SettingsInitial == SettingsInit => SettingsInv
<1> SUFFICES ASSUME SettingsInit PROVE SettingsInv
    OBVIOUS
<1>1. MaxShops \in Nat
    BY MerchantsAssumption
<1>2. app \in [Apps -> AppRows]
    BY <1>1 DEF SettingsInit, NoApp, AppRows
<1>3. PolicyInv
  <2>1. \A p \in Policies : policy[p] = NoPolicy
    BY DEF SettingsInit
  <2>2. policy \in [Policies -> PolicyRows]
    BY <1>1 DEF SettingsInit, NoPolicy, PolicyRows
  <2>3. \A s \in ShopIds, type \in PolicyTypes : OfType(s, type) = {}
    BY <2>1 DEF OfType, NoPolicy, ShopIds
  <2>4. \A s \in ShopIds, type \in PolicyTypes : NumberedUpTo(s, type)
    BY <2>3, FS_EmptySet DEF NumberedUpTo
  <2> QED
    BY <2>1, <2>2, <2>4 DEF PolicyInv, Filed, PoliciesApart
<1>4. PrivacyInv
    BY <1>1 DEF SettingsInit, PrivacyInv, NoPermit
<1>5. languages \in [ShopIds -> NewLanguages]
  <2> DEFINE source == CHOOSE x \in Locales : TRUE
             set == [default |-> source, published |-> {source}]
  <2>1. source \in Locales
    BY SettingsAssumption
  <2> HIDE DEF source
  <2>2. set \in NewLanguages
    BY <2>1 DEF NewLanguages
  <2>3. languages = [s \in ShopIds |-> set]
    BY DEF SettingsInit, source
  <2> QED
    BY <2>2, <2>3
<1>6. VisitInv
    BY <1>1 DEF SettingsInit, VisitInv, NoVisit
<1> QED
    BY <1>2, <1>3, <1>4, <1>5, <1>6 DEF SettingsInv

\* Publishing a policy changes statuses only, and leaves no other of its type published.
LEMMA ArchivedRows ==
    ASSUME PolicyInv, NEW s, NEW type, NEW p \in Policies
    PROVE  /\ Archived(s, type)[p] \in PolicyRows
           /\ Archived(s, type)[p].shop = policy[p].shop
           /\ Archived(s, type)[p].type = policy[p].type
           /\ Archived(s, type)[p].number = policy[p].number
           /\ Archived(s, type)[p].status \in {policy[p].status, "ARCHIVED"}
           /\ policy[p].status # "PUBLISHED" => Archived(s, type)[p] = policy[p]
           /\ policy[p].shop = s /\ policy[p].type = type =>
                Archived(s, type)[p].status # "PUBLISHED"
<1>1. Archived(s, type)[p] = IF p \in OfType(s, type) /\ policy[p].status = "PUBLISHED"
                             THEN [policy[p] EXCEPT !.status = "ARCHIVED"] ELSE policy[p]
    BY DEF Archived
<1>2. policy[p] \in PolicyRows
    BY DEF PolicyInv
<1>3. CASE p \in OfType(s, type) /\ policy[p].status = "PUBLISHED"
    BY <1>1, <1>2, <1>3 DEF PolicyRows
<1>4. CASE ~(p \in OfType(s, type) /\ policy[p].status = "PUBLISHED")
    BY <1>1, <1>2, <1>4 DEF OfType
<1> QED
    BY <1>3, <1>4

\* Steps that change statuses only.
LEMMA StatusesOnly ==
    ASSUME PolicyInv, policy' = [p \in Policies |-> policy'[p]],
           \A p \in Policies :
                /\ policy'[p] \in PolicyRows /\ policy'[p].shop = policy[p].shop
                /\ policy'[p].type = policy[p].type /\ policy'[p].number = policy[p].number
                /\ policy[p] = NoPolicy => policy'[p] = NoPolicy,
           \A p, q \in Policies :
                p # q /\ policy'[p].shop = policy'[q].shop /\ policy'[p].type = policy'[q].type
                      /\ policy'[p] # NoPolicy
                => ~(policy'[p].status = "PUBLISHED" /\ policy'[q].status = "PUBLISHED")
    PROVE  PolicyInv'
<1>1. policy' \in [Policies -> PolicyRows]
    OBVIOUS
<1>2. Filed'
    BY DEF PolicyInv, Filed
<1>3. PoliciesApart'
    BY DEF PolicyInv, PoliciesApart
<1>4. ASSUME NEW s \in ShopIds, NEW type \in PolicyTypes PROVE NumberedUpTo(s, type)'
  <2>1. OfType(s, type)' = OfType(s, type)
    BY DEF OfType
  <2>2. \A p \in OfType(s, type) : policy'[p].number = policy[p].number
    BY DEF OfType
  <2>3. NumberedUpTo(s, type)
    BY DEF PolicyInv
  <2> QED
    BY <2>1, <2>2, <2>3 DEF NumberedUpTo
<1> QED
    BY <1>1, <1>2, <1>3, <1>4 DEF PolicyInv

LEMMA PublishPolicyKeeps ==
    ASSUME PolicyInv, NEW p \in Policies, PublishPolicy(p)
    PROVE  PolicyInv'
<1> DEFINE rows == Archived(policy[p].shop, policy[p].type)
<1>1. policy[p].status = "DRAFT" /\ policy' = [rows EXCEPT ![p].status = "PUBLISHED"]
    BY DEF PublishPolicy
<1>2. DOMAIN rows = Policies
    BY DEF Archived
<1>3. rows[p] = policy[p] /\ policy[p] \in PolicyRows
    BY <1>1, ArchivedRows DEF PolicyInv
<1>4. \A q \in Policies : q # p =>
        /\ rows[q] \in PolicyRows /\ rows[q].shop = policy[q].shop /\ rows[q].type = policy[q].type
        /\ rows[q].number = policy[q].number /\ rows[q].status \in {policy[q].status, "ARCHIVED"}
        /\ policy[q].status # "PUBLISHED" => rows[q] = policy[q]
        /\ policy[q].shop = policy[p].shop /\ policy[q].type = policy[p].type =>
                rows[q].status # "PUBLISHED"
    BY ArchivedRows
<1> HIDE DEF rows
<1>5. /\ \A q \in Policies : q # p => policy'[q] = rows[q]
      /\ policy'[p] = [policy[p] EXCEPT !.status = "PUBLISHED"]
    BY <1>1, <1>2, <1>3
<1>6. /\ policy'[p] \in PolicyRows /\ policy'[p].shop = policy[p].shop
      /\ policy'[p].type = policy[p].type /\ policy'[p].number = policy[p].number
    BY <1>3, <1>5 DEF PolicyRows
<1>7. NoPolicy.status = "NONE"
    BY DEF NoPolicy
<1>8. \A q \in Policies :
        /\ policy'[q] \in PolicyRows /\ policy'[q].shop = policy[q].shop
        /\ policy'[q].type = policy[q].type /\ policy'[q].number = policy[q].number
        /\ policy[q] = NoPolicy => policy'[q] = NoPolicy
    BY <1>1, <1>4, <1>5, <1>6, <1>7
<1>9. \A q \in Policies : q # p /\ policy'[q].status = "PUBLISHED" =>
        /\ policy[q].status = "PUBLISHED"
        /\ ~(policy[q].shop = policy[p].shop /\ policy[q].type = policy[p].type)
    BY <1>4, <1>5
<1>10. \A q, r \in Policies :
        q # r /\ policy'[q].shop = policy'[r].shop /\ policy'[q].type = policy'[r].type
        => ~(policy'[q].status = "PUBLISHED" /\ policy'[r].status = "PUBLISHED")
    BY <1>7, <1>8, <1>9 DEF PolicyInv, PoliciesApart
<1>11. policy' = [q \in Policies |-> policy'[q]]
    BY <1>1, <1>2
<1> QED
    BY <1>8, <1>10, <1>11, StatusesOnly

LEMMA SavePolicyKeeps ==
    ASSUME PolicyInv, NEW p \in Policies, NEW s \in ShopIds, NEW c \in NewPolicies,
           SavePolicy(p, s, c)
    PROVE  PolicyInv'
<1> DEFINE row == [status |-> IF c.publish THEN "PUBLISHED" ELSE "DRAFT",
                   shop |-> s, type |-> c.type, number |-> NextNumber(s, c.type)]
           rows == IF c.publish THEN Archived(s, c.type) ELSE policy
           kind == c.type
<1>1. policy[p] = NoPolicy /\ policy' = [rows EXCEPT ![p] = row]
    BY DEF SavePolicy, Fresh
<1>2. kind \in PolicyTypes /\ c.publish \in BOOLEAN /\ policy \in [Policies -> PolicyRows]
    BY DEF NewPolicies, PolicyInv
<1>3. NumberedUpTo(s, kind)
    BY <1>2 DEF PolicyInv
<1>4. Cardinality(OfType(s, kind)) \in Nat
    BY <1>3, FS_CardinalityType DEF NumberedUpTo
<1>5. row \in PolicyRows
    BY <1>2, <1>4, MerchantsAssumption DEF PolicyRows, NextNumber, ShopIds
<1>6. /\ row.shop = s /\ row.type = kind /\ row.number = Cardinality(OfType(s, kind)) + 1
      /\ row.status = "PUBLISHED" => c.publish
    BY <1>4 DEF NextNumber
<1>7. \A q \in Policies :
        /\ rows[q] \in PolicyRows /\ rows[q].shop = policy[q].shop /\ rows[q].type = policy[q].type
        /\ rows[q].number = policy[q].number
        /\ rows[q].status = "PUBLISHED" => policy[q].status = "PUBLISHED"
        /\ policy[q] = NoPolicy => rows[q] = NoPolicy
        /\ c.publish /\ policy[q].shop = s /\ policy[q].type = kind => rows[q].status # "PUBLISHED"
  <2>1. CASE c.publish
    BY <2>1, ArchivedRows DEF NoPolicy
  <2>2. CASE ~c.publish
    BY <1>2, <2>2
  <2> QED
    BY <2>1, <2>2
<1>8. DOMAIN rows = Policies
    BY <1>2 DEF Archived
<1> HIDE DEF row, rows, kind
<1>9. policy'[p] = row /\ \A q \in Policies : q # p => policy'[q] = rows[q]
    BY <1>1, <1>8
<1>10. policy' \in [Policies -> PolicyRows]
    BY <1>1, <1>5, <1>7, <1>8
<1>11. \A q \in Policies : q # p =>
        /\ policy'[q].shop = policy[q].shop /\ policy'[q].type = policy[q].type
        /\ policy'[q].number = policy[q].number
        /\ policy'[q].status = "PUBLISHED" => policy[q].status = "PUBLISHED"
        /\ policy[q] = NoPolicy => policy'[q] = NoPolicy
        /\ c.publish /\ policy[q].shop = s /\ policy[q].type = kind => policy'[q].status # "PUBLISHED"
    BY <1>7, <1>9
<1>12. Filed'
    BY <1>2, <1>6, <1>9, <1>11 DEF PolicyInv, Filed
<1>13. \A q \in OfType(s, kind) : /\ policy[q].number <= Cardinality(OfType(s, kind))
                                  /\ policy[q].number \in Nat
    BY <1>2, <1>3 DEF NumberedUpTo, OfType, PolicyRows
<1>14. p \notin OfType(s, kind) /\ \A u \in ShopIds, t \in PolicyTypes : p \notin OfType(u, t)
    BY <1>1, <1>2 DEF OfType, NoPolicy, ShopIds
<1>15. PoliciesApart'
  <2>1. \A q \in Policies : q # p /\ policy'[q].shop = s /\ policy'[q].type = kind =>
            /\ ~(row.status = "PUBLISHED" /\ policy'[q].status = "PUBLISHED")
            /\ policy'[q].number # row.number
    BY <1>4, <1>6, <1>11, <1>13 DEF OfType
  <2>2. \A q, r \in Policies : q # p /\ r # p /\ q # r /\ policy'[q].shop = policy'[r].shop
                                    /\ policy'[q].type = policy'[r].type /\ policy'[q] # NoPolicy =>
            /\ ~(policy'[q].status = "PUBLISHED" /\ policy'[r].status = "PUBLISHED")
            /\ policy'[q].number # policy'[r].number
    BY <1>11 DEF PolicyInv, PoliciesApart
  <2> QED
    BY <1>6, <1>9, <2>1, <2>2 DEF PoliciesApart
<1>16. ASSUME NEW u \in ShopIds, NEW t \in PolicyTypes PROVE NumberedUpTo(u, t)'
  <2>1. NumberedUpTo(u, t)
    BY DEF PolicyInv
  <2>2. CASE u = s /\ t = kind
    <3>1. OfType(u, t)' = OfType(u, t) \cup {p}
        BY <1>6, <1>9, <1>11, <2>2 DEF OfType
    <3>2. IsFiniteSet(OfType(u, t)') /\ Cardinality(OfType(u, t)') = Cardinality(OfType(u, t)) + 1
        BY <1>14, <2>1, <2>2, <3>1, FS_AddElement DEF NumberedUpTo
    <3>3. \A q \in OfType(u, t)' : policy'[q].number <= Cardinality(OfType(u, t)) + 1
      <4> SUFFICES ASSUME NEW q \in OfType(u, t)'
                   PROVE  policy'[q].number <= Cardinality(OfType(u, t)) + 1
        OBVIOUS
      <4>1. CASE q = p
        BY <1>4, <1>6, <1>9, <2>2, <4>1
      <4>2. CASE q # p
        <5>1. q \in OfType(u, t) /\ q \in Policies
            BY <3>1, <4>2 DEF OfType
        <5> QED
            BY <1>4, <1>11, <1>13, <2>2, <4>2, <5>1
      <4> QED
        BY <4>1, <4>2
    <3> QED
        BY <3>2, <3>3 DEF NumberedUpTo
  <2>3. CASE ~(u = s /\ t = kind)
    <3>1. OfType(u, t)' = OfType(u, t)
        BY <1>6, <1>9, <1>11, <1>14, <2>3 DEF OfType
    <3>2. \A q \in OfType(u, t) : policy'[q].number = policy[q].number
        BY <1>11, <1>14 DEF OfType
    <3> QED
        BY <2>1, <3>1, <3>2 DEF NumberedUpTo
  <2> QED
    BY <2>2, <2>3
<1> QED
    BY <1>10, <1>12, <1>15, <1>16 DEF PolicyInv

LEMMA AppKeeps ==
    ASSUME app \in [Apps -> AppRows], NEW a \in Apps, AppRequest(a)
    PROVE  app' \in [Apps -> AppRows] /\ UNCHANGED <<policy, privacy, permit, languages, visit>>
<1>1. MaxShops \in Nat /\ app[a] \in AppRows
    BY MerchantsAssumption
<1>2. UNCHANGED <<policy, privacy, permit, languages, visit>>
    BY DEF AppRequest, CreateApp, ResetAppSecret, EnableApp, DisableApp, AppStep, AppCommand
<1>3. \E row \in AppRows : app' = [app EXCEPT ![a] = row]
  <2>1. ASSUME NEW s \in ShopIds, CreateApp(a, s) PROVE \E row \in AppRows : app' = [app EXCEPT ![a] = row]
    <3>1. [status |-> "ACTIVE", shop |-> s, secret |-> 1] \in AppRows
        BY <1>1 DEF AppRows, ShopIds
    <3> QED
        BY <2>1, <3>1 DEF CreateApp, AppStep
  <2>2. [app[a] EXCEPT !.secret = @ + 1] \in AppRows
    BY <1>1 DEF AppRows
  <2>3. \A status \in {"ACTIVE", "DISABLED"} : [app[a] EXCEPT !.status = status] \in AppRows
    BY <1>1 DEF AppRows
  <2> QED
    BY <2>1, <2>2, <2>3 DEF AppRequest, ResetAppSecret, EnableApp, DisableApp, AppStep
<1> QED
    BY <1>2, <1>3

LEMMA PrivacyKeeps ==
    ASSUME PrivacyInv, SavePrivacy \/ \E s \in ShopIds : BeginPrivacy(s)
    PROVE  PrivacyInv'
<1>1. MaxShops \in Nat
    BY MerchantsAssumption
<1>2. CASE SavePrivacy
    BY <1>1, <1>2 DEF SavePrivacy, PrivacyInv, NoPermit
<1>3. ASSUME NEW s \in ShopIds, BeginPrivacy(s) PROVE PrivacyInv'
  <2>1. PICK seen \in 0..privacy[s] : permit' = [shop |-> s, expected |-> seen]
    BY <1>3 DEF BeginPrivacy
  <2>2. seen \in Nat /\ s \in 0..MaxShops /\ UNCHANGED privacy
    BY <1>1, <1>3, <2>1 DEF BeginPrivacy, PrivacyInv, ShopIds
  <2> QED
    BY <2>1, <2>2 DEF PrivacyInv
<1> QED
    BY <1>2, <1>3

\* A default that is not among the rows gives way to one of them.
LEMMA ShownIsChosen ==
    ASSUME NEW default, NEW rows, rows # {}
    PROVE  Shown(default, rows).published = rows /\ Shown(default, rows).default \in rows
<1> DEFINE published == IF rows = {} THEN {default} ELSE rows
<1>1. published = rows
    OBVIOUS
<1>2. Shown(default, rows) =
        [default |-> IF default \in published THEN default ELSE CHOOSE x \in published : TRUE,
         published |-> published]
    BY DEF Shown
<1>3. (CHOOSE x \in published : TRUE) \in published
    BY <1>1
<1> HIDE DEF published
<1> QED
    BY <1>1, <1>2, <1>3

LEMMA VisitStays ==
    ASSUME VisitInv, UNCHANGED visit
    PROVE  VisitInv'
BY DEF VisitInv

\* The default is read before the rows.
LEMMA VisitKeeps ==
    ASSUME VisitInv, languages \in [ShopIds -> NewLanguages],
           ReadRows \/ \E s \in ShopIds : ReadDefault(s)
    PROVE  VisitInv'
<1>0. \A s \in ShopIds : /\ languages[s].default \in Locales
                         /\ languages[s].published \in SUBSET Locales
                         /\ languages[s].default \in languages[s].published
    BY DEF NewLanguages
<1>1. ASSUME NEW s \in ShopIds, ReadDefault(s) PROVE VisitInv'
  <2>1. visit' = [shop |-> s, default |-> languages[s].default, published |-> {}]
    BY <1>1 DEF ReadDefault
  <2>2. s \in 0..MaxShops
    BY DEF ShopIds
  <2> QED
    BY <1>0, <2>1, <2>2 DEF VisitInv
<1>2. ASSUME ReadRows PROVE VisitInv'
  <2> DEFINE rows == languages[visit.shop].published
             shown == Shown(visit.default, rows)
  <2>1. /\ visit' = [visit EXCEPT !.default = shown.default, !.published = shown.published]
        /\ visit.shop \in ShopIds /\ visit.default \in Locales
    BY <1>2 DEF ReadRows, VisitInv
  <2>2. rows # {} /\ rows \in SUBSET Locales
    BY <1>0, <2>1
  <2> HIDE DEF rows
  <2>3. shown.published = rows /\ shown.default \in rows
    BY <2>2, ShownIsChosen
  <2>4. shown.default \in Locales
    BY <2>2, <2>3
  <2> HIDE DEF shown
  <2>5. /\ visit'.shop = visit.shop /\ visit'.default = shown.default /\ visit'.published = rows
        /\ visit' \in [shop : 0..MaxShops, default : Locales \cup {None}, published : SUBSET Locales]
    BY <2>1, <2>2, <2>3, <2>4 DEF VisitInv
  <2> QED
    BY <2>1, <2>3, <2>4, <2>5 DEF VisitInv
<1> QED
    BY <1>1, <1>2

LEMMA SettingsNext ==
    ASSUME SettingsInv, [Next]_vars
    PROVE  SettingsInv'
<1> USE DEF SettingsInv
<1>1. CASE UNCHANGED settings
  <2>1. PolicyInv' /\ PrivacyInv'
    BY <1>1 DEF settings, PolicyInv, Filed, PoliciesApart, NumberedUpTo, OfType, PrivacyInv
  <2>2. VisitInv'
    BY <1>1, VisitStays DEF settings
  <2> QED
    BY <1>1, <2>1, <2>2 DEF settings
<1>2. ASSUME NEW a \in Apps, AppRequest(a) PROVE SettingsInv'
  <2>1. app' \in [Apps -> AppRows] /\ UNCHANGED <<policy, privacy, permit, languages, visit>>
    BY <1>2, AppKeeps
  <2>2. PolicyInv' /\ PrivacyInv'
    BY <2>1 DEF PolicyInv, Filed, PoliciesApart, NumberedUpTo, OfType, PrivacyInv
  <2> QED
    BY <2>1, <2>2, VisitStays
<1>3. ASSUME NEW p \in Policies, PolicyRequest(p) PROVE SettingsInv'
  <2>1. PolicyInv'
    BY <1>3, SavePolicyKeeps, PublishPolicyKeeps DEF PolicyRequest
  <2>2. UNCHANGED <<app, privacy, permit, languages, visit>>
    BY <1>3 DEF PolicyRequest, SavePolicy, PublishPolicy, PolicyStep, PolicyCommand
  <2> QED
    BY <2>1, <2>2 DEF PrivacyInv, VisitInv
<1>4. ASSUME SavePrivacy \/ \E s \in ShopIds : BeginPrivacy(s) PROVE SettingsInv'
  <2>1. UNCHANGED <<app, policy, languages, visit>>
    BY <1>4 DEF SavePrivacy, BeginPrivacy
  <2>2. PolicyInv' /\ VisitInv'
    BY <2>1 DEF PolicyInv, Filed, PoliciesApart, NumberedUpTo, OfType, VisitInv
  <2> QED
    BY <1>4, <2>1, <2>2, PrivacyKeeps
<1>5. ASSUME NEW s \in ShopIds, NEW c \in NewLanguages, ReplaceLanguages(s, c) PROVE SettingsInv'
  <2>1. UNCHANGED <<app, policy, privacy, permit, visit>> /\ languages' = [languages EXCEPT ![s] = c]
    BY <1>5 DEF ReplaceLanguages
  <2>2. PolicyInv' /\ PrivacyInv'
    BY <2>1 DEF PolicyInv, Filed, PoliciesApart, NumberedUpTo, OfType, PrivacyInv
  <2> QED
    BY <2>1, <2>2, VisitStays
<1>6. ASSUME ReadRows \/ \E s \in ShopIds : ReadDefault(s) PROVE SettingsInv'
  <2>1. UNCHANGED <<app, policy, privacy, permit, languages>>
    BY <1>6 DEF ReadRows, ReadDefault
  <2>2. PolicyInv' /\ PrivacyInv'
    BY <2>1 DEF PolicyInv, Filed, PoliciesApart, NumberedUpTo, OfType, PrivacyInv
  <2> QED
    BY <1>6, <2>1, <2>2, VisitKeeps
<1>7. CASE SettingsPart
    BY <1>2, <1>3, <1>4, <1>5, <1>6, <1>7 DEF SettingsPart, SettingsStep
<1> QED
    BY <1>1, <1>7 DEF Next, vars, Shops, DomainPart, FulfilmentPart, BookPart, SubscriptionPart

LEMMA SettingsHold ==
    ASSUME SettingsInv
    PROVE  SettingsTypeOK /\ SettingsSelected
<1> USE DEF SettingsInv
<1>2. SettingsTypeOK
  <2>1. languages \in [ShopIds -> [default : Locales, published : SUBSET Locales]]
    BY DEF NewLanguages
  <2> QED
    BY <2>1 DEF SettingsTypeOK, PolicyInv, PrivacyInv, VisitInv, AppRows, PolicyRows
<1> QED
    BY <1>2 DEF SettingsSelected, PolicyInv, PoliciesApart, VisitInv

-----------------------------------------------------------------------------
(* Shipping rules and presets.  A write finds its row as it was when it    *)
(* began or is refused, so it revives nothing; a preset is the default only*)
(* while it is live, and takes the flag from the other.                    *)

ShippingIds  == Rules \cup Presets
ShippingRows == [status : Open \cup {"NONE", "RETIRED"}, shop : 0..MaxShops, default : BOOLEAN,
                 version : Nat]

ShippingInv ==
    /\ shipping \in [ShippingIds -> ShippingRows]
    /\ \A x \in ShippingIds :
        /\ shipping[x].status = "NONE" => shipping[x] = NoShipping
        /\ shipping[x].default => Live(x) /\ x \in Presets
    /\ \A x, y \in ShippingIds :
        shipping[x].default /\ shipping[y].default /\ shipping[x].shop = shipping[y].shop => x = y

OnItsWay(q) == q # None => q.row \in ShippingIds /\ q.shop \in ShopIds /\ q.seen \in Nat
WritingInv  == writing = [w \in Writers |-> writing[w]] /\ \A w \in Writers : OnItsWay(writing[w])

LEMMA WritingMoves ==
    ASSUME WritingInv, NEW w \in Writers, NEW q, OnItsWay(q), writing' = [writing EXCEPT ![w] = q]
    PROVE  WritingInv'
BY DEF WritingInv, OnItsWay

\* A row that is put where it was, or where there was none.
LEMMA PutKeeps ==
    ASSUME ShippingInv, NEW q, q.row \in ShippingIds, q.shop \in ShopIds,
           NEW c \in [status : Open, default : BOOLEAN], c.default => q.row \in Presets,
           shipping' = PutShipping(q, c)
    PROVE  ShippingInv'
<1>1. MaxShops \in Nat
    BY MerchantsAssumption
<1>2. ASSUME NEW x \in ShippingIds, x # q.row
      PROVE  /\ shipping'[x] \in ShippingRows /\ shipping'[x].shop = shipping[x].shop
             /\ shipping'[x].status = shipping[x].status
             /\ shipping'[x].default => shipping[x].default
             /\ ~shipping[x].default => shipping'[x] = shipping[x]
             /\ c.default /\ shipping[x].shop = q.shop => ~shipping'[x].default
  <2>1. shipping'[x] = IF c.default /\ x \in DefaultsOf(q.shop)
                       THEN [shipping[x] EXCEPT !.default = FALSE, !.version = @ + 1]
                       ELSE shipping[x]
    BY <1>2 DEF PutShipping, ShippingIds
  <2>2. shipping[x] \in ShippingRows
    BY DEF ShippingInv
  <2>3. x \in DefaultsOf(q.shop) <=> shipping[x].default /\ shipping[x].shop = q.shop
    BY DEF ShippingInv, DefaultsOf
  <2>4. CASE c.default /\ x \in DefaultsOf(q.shop)
    <3> DEFINE row == shipping[x]
    <3>1. row \in ShippingRows /\ row.version \in Nat /\ row.version + 1 \in Nat /\ row.default
        BY <2>2, <2>3, <2>4 DEF ShippingRows
    <3>2. shipping'[x] = [row EXCEPT !.default = FALSE, !.version = row.version + 1]
        BY <2>1, <2>4
    <3> HIDE DEF row
    <3>3. shipping'[x] \in ShippingRows
        BY <3>1, <3>2 DEF ShippingRows
    <3>4. shipping'[x].shop = row.shop /\ shipping'[x].status = row.status
        BY <3>1, <3>2 DEF ShippingRows
    <3>5. ~shipping'[x].default
        BY <3>1, <3>2 DEF ShippingRows
    <3> QED
        BY <3>1, <3>3, <3>4, <3>5 DEF row
  <2>5. CASE ~(c.default /\ x \in DefaultsOf(q.shop))
    BY <2>1, <2>2, <2>3, <2>5
  <2> QED
    BY <2>4, <2>5
<1>3. /\ shipping'[q.row] \in ShippingRows /\ shipping'[q.row].shop = q.shop
      /\ shipping'[q.row].status = c.status /\ shipping'[q.row].default = c.default
  <2>1. shipping'[q.row] = [status |-> c.status, shop |-> q.shop, default |-> c.default,
                            version |-> shipping[q.row].version + 1]
    BY DEF PutShipping, ShippingIds
  <2>2. shipping[q.row].version \in Nat
    BY DEF ShippingInv, ShippingRows
  <2> QED
    BY <1>1, <2>1, <2>2 DEF ShippingRows, ShopIds
<1>4. shipping' \in [ShippingIds -> ShippingRows]
  <2>1. DOMAIN shipping' = ShippingIds /\ shipping' = [x \in ShippingIds |-> shipping'[x]]
    BY DEF PutShipping, ShippingIds
  <2> QED
    BY <1>2, <1>3, <2>1
<1>5. \A x \in ShippingIds :
        /\ shipping'[x].status = "NONE" => shipping'[x] = NoShipping
        /\ shipping'[x].default => shipping'[x].status \in Open /\ x \in Presets
  <2> TAKE x \in ShippingIds
  <2>1. CASE x = q.row
    BY <1>3, <2>1 DEF Open
  <2>2. CASE x # q.row
    <3>1. ~NoShipping.default
        BY DEF NoShipping
    <3>2. /\ shipping[x].status = "NONE" => shipping[x] = NoShipping
          /\ shipping[x].default => shipping[x].status \in Open /\ x \in Presets
        BY DEF ShippingInv, Live
    <3> QED
        BY ONLY <1>2, <2>2, <3>1, <3>2
  <2> QED
    BY <2>1, <2>2
<1>6. \A x, y \in ShippingIds :
        shipping'[x].default /\ shipping'[y].default /\ shipping'[x].shop = shipping'[y].shop => x = y
    BY <1>2, <1>3 DEF ShippingInv
<1> QED
    BY <1>4, <1>5, <1>6 DEF ShippingInv, Live

\* A row that is there is enabled, disabled or retired, and keeps its place.
LEMMA RowKeeps ==
    ASSUME ShippingInv, NEW x \in ShippingIds, shipping[x].status # "NONE",
           shipping' = [shipping EXCEPT ![x] = shipping'[x]],
           shipping'[x] \in ShippingRows, shipping'[x].shop = shipping[x].shop,
           \/ shipping'[x].status \in Open /\ shipping'[x].default = shipping[x].default
           \/ shipping'[x].status = "RETIRED" /\ ~shipping'[x].default
    PROVE  ShippingInv'
<1>1. shipping' \in [ShippingIds -> ShippingRows] /\ \A y \in ShippingIds : y # x => shipping'[y] = shipping[y]
    BY DEF ShippingInv
<1>2. \A y \in ShippingIds :
        /\ shipping'[y].status = "NONE" => shipping'[y] = NoShipping
        /\ shipping'[y].default => shipping'[y].status \in Open /\ y \in Presets
    BY <1>1 DEF ShippingInv, Live, Open
<1>3. \A y, z \in ShippingIds :
        shipping'[y].default /\ shipping'[z].default /\ shipping'[y].shop = shipping'[z].shop => y = z
    BY <1>1 DEF ShippingInv
<1> QED
    BY <1>1, <1>2, <1>3 DEF ShippingInv, Live

LEMMA WritesKeepShipping ==
    ASSUME ShippingInv, WritingInv, NEW w \in Writers, RuleRequest(w) \/ PresetRequest(w)
    PROVE  ShippingInv' /\ WritingInv' /\ UNCHANGED <<shipment, aftersale, complaint>>
<1> DEFINE q == writing[w]
<1>1. q # None /\ writing' = [writing EXCEPT ![w] = None] /\ UNCHANGED <<shipment, aftersale, complaint>>
    BY DEF RuleRequest, PresetRequest, SaveRule, RetireRule, SavePreset, SetPresetEnabled,
           RetirePreset, Written, Of
<1>2. q.row \in ShippingIds /\ q.shop \in ShopIds /\ q.seen \in Nat
    BY <1>1 DEF WritingInv, OnItsWay
<1>3. WritingInv'
    BY <1>1, WritingMoves DEF OnItsWay
<1>4. UNCHANGED shipping => ShippingInv'
    BY DEF ShippingInv, Live
<1>5. ASSUME NEW c \in [status : Open, default : BOOLEAN], c.default => q.row \in Presets,
             shipping' = PutShipping(q, c)
      PROVE  ShippingInv'
    BY <1>2, <1>5, PutKeeps
<1>6. shipping[q.row] \in ShippingRows
    BY <1>2 DEF ShippingInv
<1>7. q.seen > 0 /\ Ready(q) => shipping[q.row].status # "NONE"
  <2>1. NoShipping.version = 0
    BY DEF NoShipping
  <2> QED
    BY <1>2, <2>1 DEF Ready, ReadyWherever, ShippingInv
<1>8. ASSUME NEW status \in Open, q.seen > 0, Ready(q),
             shipping' = [shipping EXCEPT ![q.row].status = status, ![q.row].version = @ + 1]
      PROVE  ShippingInv'
  <2>1. /\ shipping'[q.row] \in ShippingRows /\ shipping'[q.row].shop = shipping[q.row].shop
        /\ shipping'[q.row].status = status /\ shipping'[q.row].default = shipping[q.row].default
    BY <1>2, <1>6, <1>8 DEF ShippingRows, ShippingInv
  <2>2. shipping' = [shipping EXCEPT ![q.row] = shipping'[q.row]]
    BY <1>2, <1>8 DEF ShippingInv
  <2> HIDE DEF q
  <2> QED
    BY <1>2, <1>7, <1>8, <2>1, <2>2, RowKeeps
<1>9. ASSUME q.seen > 0, Ready(q), shipping' = Retired(q.row)
      PROVE  ShippingInv'
  <2>1. /\ shipping'[q.row] \in ShippingRows /\ shipping'[q.row].shop = shipping[q.row].shop
        /\ shipping'[q.row].status = "RETIRED" /\ ~shipping'[q.row].default
    <3> DEFINE row == shipping[q.row]
    <3>1. row \in ShippingRows /\ row.version \in Nat /\ row.version + 1 \in Nat
        BY <1>6 DEF ShippingRows
    <3>2. /\ shipping'[q.row].status = "RETIRED" /\ shipping'[q.row].shop = row.shop
          /\ shipping'[q.row].version = row.version + 1
        BY <1>2, <1>6, <1>9 DEF ShippingInv, ShippingRows, Retired
    <3>3. ~shipping'[q.row].default
        BY <1>2, <1>6, <1>9 DEF ShippingInv, ShippingRows, Retired
    <3>4. shipping'[q.row] = [row EXCEPT !.status = "RETIRED", !.default = FALSE,
                                         !.version = row.version + 1]
        BY <1>2, <1>6, <1>9 DEF ShippingInv, ShippingRows, Retired
    <3> HIDE DEF row
    <3>5. shipping'[q.row] \in ShippingRows
        BY <3>1, <3>4 DEF ShippingRows
    <3> QED
        BY <3>2, <3>3, <3>5 DEF row
  <2>2. shipping' = [shipping EXCEPT ![q.row] = shipping'[q.row]]
    BY <1>2, <1>9 DEF ShippingInv, Retired
  <2> HIDE DEF q
  <2> QED
    BY <1>2, <1>7, <1>9, <2>1, <2>2, RowKeeps
<1>10. ASSUME NEW status \in NewRules, SaveRule(w, status) PROVE ShippingInv'
  <2> DEFINE c == [status |-> status, default |-> FALSE]
  <2>1. c \in [status : Open, default : BOOLEAN] /\ ~c.default
    BY DEF NewRules
  <2>2. UNCHANGED shipping \/ shipping' = PutShipping(q, c)
    BY <1>10 DEF SaveRule, Written
  <2> HIDE DEF c
  <2> QED
    BY <1>4, <1>5, <2>1, <2>2
<1>11. ASSUME NEW c \in NewPresets, SavePreset(w, c) PROVE ShippingInv'
    BY <1>4, <1>5, <1>11 DEF SavePreset, Written, NewPresets, Of
<1>12. ASSUME NEW status \in Open, SetPresetEnabled(w, status) PROVE ShippingInv'
    BY <1>4, <1>8, <1>12 DEF SetPresetEnabled, Written
<1>13. ASSUME RetireRule(w) \/ RetirePreset(w) PROVE ShippingInv'
    BY <1>4, <1>9, <1>13 DEF RetireRule, RetirePreset, Written
<1>14. ShippingInv'
    BY <1>10, <1>11, <1>12, <1>13 DEF RuleRequest, PresetRequest
<1> QED
    BY <1>1, <1>3, <1>14

-----------------------------------------------------------------------------
(* Parcels, after-sales and complaints                                     *)

ShipmentRows == [status : {"NONE", "SHIPPED", "DELIVERED"}, shop : 0..MaxShops,
                 order : ShopOrders \cup {None}, traces : 0..MaxTraces]
AftersaleRows == [status : {"PENDING", "APPROVED", "REJECTED", "REFUNDED"}, shop : 0..MaxShops,
                  type : {"REFUND_ONLY", "RETURN_REFUND"}, requested : Nat, amount : Nat,
                  return : {"PENDING", "NOT_REQUIRED", "RECEIVED"}, received : BOOLEAN]
ComplaintRows == [status : {"OPEN", "ACCEPTED", "REJECTED"}, shop : 0..MaxShops]

ShipmentInv ==
    /\ shipment \in [Shipments -> ShipmentRows]
    /\ \A x \in Shipments : \/ shipment[x] = NoShipment
                            \/ shipment[x].shop \in ShopIds /\ shipment[x].status # "NONE"
    /\ \A x, y \in Shipments : x # y /\ shipment[x] # NoShipment =>
            ~(shipment[x].shop = shipment[y].shop /\ shipment[x].order = shipment[y].order)

AftersaleInv ==
    /\ aftersale \in [Aftersales -> AftersaleRows]
    /\ \A x \in Aftersales :
        /\ AftersaleReadable(x)
        /\ aftersale[x].received => aftersale[x].status \in {"APPROVED", "REFUNDED"}

ComplaintInv == complaint \in [Complaints -> ComplaintRows]

LEMMA ParcelKeeps ==
    ASSUME ShipmentInv, NEW x \in Shipments, ParcelRequest(x)
    PROVE  ShipmentInv' /\ UNCHANGED <<shipping, writing, aftersale, complaint>>
<1>1. UNCHANGED <<shipping, writing, aftersale, complaint>>
    BY DEF ParcelRequest, Ship, AddTrace, CloseShipment, ParcelCommand, ShopWrite
<1>2. MaxShops \in Nat /\ MaxTraces \in Nat /\ shipment[x] \in ShipmentRows
    BY MerchantsAssumption, FulfilmentAssumption DEF ShipmentInv
<1>3. ASSUME NEW s \in ShopIds, NEW o \in ShopOrders, Ship(x, s, o) PROVE ShipmentInv'
  <2> DEFINE row == [status |-> "SHIPPED", shop |-> s, order |-> o, traces |-> 0]
  <2>1. shipment' = [shipment EXCEPT ![x] = row] /\ ~Shipped(s, o)
    BY <1>3 DEF Ship
  <2>2. row \in ShipmentRows /\ row.shop = s /\ row.order = o /\ row.status = "SHIPPED"
    BY <1>2 DEF ShipmentRows, ShopIds
  <2> HIDE DEF row
  <2>3. shipment' \in [Shipments -> ShipmentRows]
    BY <2>1, <2>2 DEF ShipmentInv
  <2>4. shipment'[x] = row /\ \A y \in Shipments : y # x => shipment'[y] = shipment[y]
    BY <2>1 DEF ShipmentInv
  <2> QED
    BY <2>1, <2>2, <2>3, <2>4 DEF ShipmentInv, Shipped
<1>4. ASSUME AddTrace(x) \/ CloseShipment(x) PROVE ShipmentInv'
  <2>1. /\ shipment[x].status = "SHIPPED"
        /\ \/ shipment[x].traces < MaxTraces /\ shipment' = [shipment EXCEPT ![x].traces = @ + 1]
           \/ shipment' = [shipment EXCEPT ![x].status = "DELIVERED"]
    BY <1>4 DEF AddTrace, CloseShipment
  <2>2. /\ shipment'[x] \in ShipmentRows /\ shipment'[x].shop = shipment[x].shop
        /\ shipment'[x].order = shipment[x].order /\ shipment'[x].status # "NONE"
    BY <1>2, <2>1 DEF ShipmentRows, ShipmentInv
  <2>3. /\ shipment' \in [Shipments -> ShipmentRows]
        /\ \A y \in Shipments : y # x => shipment'[y] = shipment[y]
    BY <2>1, <2>2 DEF ShipmentInv
  <2>4. shipment[x] # NoShipment
    BY <2>1 DEF NoShipment
  <2> QED
    BY <2>2, <2>3, <2>4 DEF ShipmentInv
<1> QED
    BY <1>1, <1>3, <1>4 DEF ParcelRequest

LEMMA AftersaleKeeps ==
    ASSUME AftersaleInv, NEW x \in Aftersales, AftersaleRequest(x) \/ Refund(x)
    PROVE  AftersaleInv' /\ UNCHANGED <<shipping, writing, shipment, complaint>>
<1> DEFINE a == aftersale[x]
<1>1. UNCHANGED <<shipping, writing, shipment, complaint>>
    BY DEF AftersaleRequest, ReviewAftersale, ReceiveAftersale, Refund, AftersaleCommand, ShopWrite
<1>2. /\ a \in AftersaleRows /\ AftersaleReadable(x)
      /\ a.received => a.status \in {"APPROVED", "REFUNDED"}
    BY DEF AftersaleInv
<1>3. ASSUME aftersale' = [aftersale EXCEPT ![x] = aftersale'[x]], aftersale'[x] \in AftersaleRows,
             AftersaleReadable(x)',
             aftersale'[x].received => aftersale'[x].status \in {"APPROVED", "REFUNDED"}
      PROVE  AftersaleInv'
  <2>1. /\ aftersale' \in [Aftersales -> AftersaleRows]
        /\ \A y \in Aftersales : y # x => aftersale'[y] = aftersale[y]
    BY <1>3 DEF AftersaleInv
  <2>2. \A y \in Aftersales : AftersaleReadable(y)'
    BY <1>3, <2>1 DEF AftersaleInv, AftersaleReadable
  <2> QED
    BY <1>3, <2>1, <2>2 DEF AftersaleInv
<1>4. ASSUME NEW c \in AftersaleReviews, ReviewAftersale(x, c) PROVE AftersaleInv'
  <2> DEFINE granted == IF c.status = "APPROVED" /\ c.amount > 0 THEN c.amount ELSE a.amount
  <2>1. /\ a.status = "PENDING" /\ c.status \in {"APPROVED", "REJECTED"}
        /\ c.status = "APPROVED" => granted \in 1..a.requested
        /\ c.status = "REJECTED" => granted = a.amount
        /\ aftersale' = [aftersale EXCEPT ![x].status = c.status, ![x].amount = granted]
    BY <1>4 DEF ReviewAftersale, AftersaleReviews
  <2> HIDE DEF granted
  <2>2. granted \in Nat /\ 1 <= granted /\ granted <= a.requested
    BY <1>2, <2>1 DEF AftersaleRows, AftersaleReadable
  <2>3. /\ aftersale'[x] \in AftersaleRows
        /\ aftersale'[x].status = c.status /\ aftersale'[x].amount = granted
        /\ aftersale'[x].requested = a.requested /\ aftersale'[x].type = a.type
        /\ aftersale'[x].return = a.return /\ aftersale'[x].received = a.received
    BY <1>2, <2>1, <2>2 DEF AftersaleRows, AftersaleInv
  <2>4. aftersale' = [aftersale EXCEPT ![x] = aftersale'[x]]
    BY <2>1 DEF AftersaleInv
  <2>5. AftersaleReadable(x)'
    BY <1>2, <2>1, <2>2, <2>3 DEF AftersaleReadable
  <2> QED
    BY <1>2, <1>3, <2>1, <2>3, <2>4, <2>5
<1>5. ASSUME ReceiveAftersale(x) PROVE AftersaleInv'
  <2>1. /\ a.return = "PENDING" /\ a.status \in {"APPROVED", "REFUNDED"}
        /\ aftersale' = [aftersale EXCEPT ![x].return = "RECEIVED", ![x].received = TRUE]
    BY <1>5 DEF ReceiveAftersale, Receivable
  <2>2. /\ aftersale'[x] \in AftersaleRows
        /\ aftersale'[x].status = a.status /\ aftersale'[x].amount = a.amount
        /\ aftersale'[x].requested = a.requested /\ aftersale'[x].type = a.type
        /\ aftersale'[x].return = "RECEIVED" /\ aftersale'[x].received
    BY <1>2, <2>1 DEF AftersaleRows, AftersaleInv
  <2>3. aftersale' = [aftersale EXCEPT ![x] = aftersale'[x]]
    BY <2>1 DEF AftersaleInv
  <2>4. AftersaleReadable(x)'
    BY <1>2, <2>1, <2>2 DEF AftersaleReadable
  <2> QED
    BY <1>3, <2>1, <2>2, <2>3, <2>4
<1>6. ASSUME Refund(x) PROVE AftersaleInv'
  <2>1. /\ a.status = "APPROVED" /\ aftersale' = [aftersale EXCEPT ![x].status = "REFUNDED"]
    BY <1>6 DEF Refund
  <2>2. /\ aftersale'[x] \in AftersaleRows
        /\ aftersale'[x].status = "REFUNDED" /\ aftersale'[x].amount = a.amount
        /\ aftersale'[x].requested = a.requested /\ aftersale'[x].type = a.type
        /\ aftersale'[x].return = a.return /\ aftersale'[x].received = a.received
    BY <1>2, <2>1 DEF AftersaleRows, AftersaleInv
  <2>3. aftersale' = [aftersale EXCEPT ![x] = aftersale'[x]]
    BY <2>1 DEF AftersaleInv
  <2>4. AftersaleReadable(x)'
    BY <1>2, <2>2 DEF AftersaleReadable
  <2> QED
    BY <1>3, <2>2, <2>3, <2>4
<1> QED
    BY <1>1, <1>4, <1>5, <1>6 DEF AftersaleRequest

FulfilmentInv == ShippingInv /\ WritingInv /\ ShipmentInv /\ AftersaleInv /\ ComplaintInv

LEMMA FulfilmentInitial == FulfilmentInit => FulfilmentInv
<1> SUFFICES ASSUME FulfilmentInit PROVE FulfilmentInv
    OBVIOUS
<1>1. MaxShops \in Nat /\ MaxTraces \in Nat /\ MaxAmount \in Nat /\ 1 \in ShopIds
    BY MerchantsAssumption, FulfilmentAssumption DEF ShopIds
<1>2. ShippingInv
  <2>1. NoShipping \in ShippingRows /\ ~NoShipping.default
    BY <1>1 DEF NoShipping, ShippingRows
  <2>2. shipping = [x \in ShippingIds |-> NoShipping]
    BY DEF FulfilmentInit, ShippingIds
  <2> HIDE DEF NoShipping
  <2> QED
    BY <2>1, <2>2 DEF ShippingInv
<1>3. WritingInv
    BY DEF FulfilmentInit, WritingInv, OnItsWay
<1>4. ShipmentInv
  <2>1. NoShipment \in ShipmentRows
    BY <1>1 DEF NoShipment, ShipmentRows
  <2> QED
    BY <2>1 DEF FulfilmentInit, ShipmentInv
<1>5. AftersaleInv
  <2>1. PICK type \in {"REFUND_ONLY", "RETURN_REFUND"}, amount \in 1..MaxAmount :
            aftersale = [x \in Aftersales |->
                [status |-> "PENDING", shop |-> 1, type |-> type, requested |-> amount,
                 amount |-> amount,
                 return |-> IF type = "RETURN_REFUND" THEN "PENDING" ELSE "NOT_REQUIRED",
                 received |-> FALSE]]
    BY DEF FulfilmentInit
  <2> DEFINE back == IF type = "RETURN_REFUND" THEN "PENDING" ELSE "NOT_REQUIRED"
             row == [status |-> "PENDING", shop |-> 1, type |-> type, requested |-> amount,
                     amount |-> amount, return |-> back, received |-> FALSE]
  <2>2. /\ row \in AftersaleRows /\ row.status = "PENDING" /\ row.amount = amount
        /\ row.requested = amount /\ row.type = type /\ row.return = back /\ ~row.received
    BY <1>1 DEF AftersaleRows, ShopIds
  <2>3. back # "RECEIVED" /\ (type = "REFUND_ONLY" <=> back = "NOT_REQUIRED") /\ 1 <= amount
        /\ amount <= amount
    BY <1>1
  <2>4. aftersale = [x \in Aftersales |-> row]
    BY <2>1
  <2> HIDE DEF row, back
  <2> QED
    BY <2>2, <2>3, <2>4 DEF AftersaleInv, AftersaleReadable
<1>6. ComplaintInv
    BY <1>1 DEF FulfilmentInit, ComplaintInv, ComplaintRows, ShopIds
<1> QED
    BY <1>2, <1>3, <1>4, <1>5, <1>6 DEF FulfilmentInv

LEMMA FulfilmentNext == FulfilmentInv /\ [Next]_vars => FulfilmentInv'
<1> SUFFICES ASSUME FulfilmentInv, [Next]_vars PROVE FulfilmentInv'
    OBVIOUS
<1>1. CASE UNCHANGED fulfilment
    BY <1>1 DEF FulfilmentInv, fulfilment, ShippingInv, Live, WritingInv, OnItsWay, ShipmentInv,
                AftersaleInv, AftersaleReadable, ComplaintInv
<1>2. ASSUME NEW w \in Writers, NEW x \in Rules \cup Presets, NEW s \in ShopIds,
             BeginShippingWrite(w, x, s)
      PROVE  FulfilmentInv'
  <2> DEFINE q == [row |-> x, shop |-> s, seen |-> shipping[x].version]
  <2>1. writing' = [writing EXCEPT ![w] = q] /\ UNCHANGED <<shipping, shipment, aftersale, complaint>>
    BY <1>2 DEF BeginShippingWrite
  <2>2. OnItsWay(q)
    BY DEF OnItsWay, FulfilmentInv, ShippingInv, ShippingRows, ShippingIds
  <2> HIDE DEF q
  <2>3. WritingInv'
    BY <2>1, <2>2, WritingMoves DEF FulfilmentInv
  <2> QED
    BY <2>1, <2>3 DEF FulfilmentInv, ShippingInv, Live, ShipmentInv, AftersaleInv,
                      AftersaleReadable, ComplaintInv
<1>3. ASSUME NEW w \in Writers, RuleRequest(w) \/ PresetRequest(w) PROVE FulfilmentInv'
  <2>1. ShippingInv' /\ WritingInv' /\ UNCHANGED <<shipment, aftersale, complaint>>
    BY <1>3, WritesKeepShipping DEF FulfilmentInv
  <2> QED
    BY <2>1 DEF FulfilmentInv, ShipmentInv, AftersaleInv, AftersaleReadable, ComplaintInv
<1>4. ASSUME NEW x \in Shipments, ParcelRequest(x) PROVE FulfilmentInv'
  <2>1. ShipmentInv' /\ UNCHANGED <<shipping, writing, aftersale, complaint>>
    BY <1>4, ParcelKeeps DEF FulfilmentInv
  <2> QED
    BY <2>1 DEF FulfilmentInv, ShippingInv, Live, WritingInv, OnItsWay, AftersaleInv,
                AftersaleReadable, ComplaintInv
<1>5. ASSUME NEW x \in Aftersales, AftersaleRequest(x) \/ Refund(x) PROVE FulfilmentInv'
  <2>1. AftersaleInv' /\ UNCHANGED <<shipping, writing, shipment, complaint>>
    BY <1>5, AftersaleKeeps DEF FulfilmentInv
  <2> QED
    BY <2>1 DEF FulfilmentInv, ShippingInv, Live, WritingInv, OnItsWay, ShipmentInv, ComplaintInv
<1>6. ASSUME NEW x \in Complaints, NEW status \in ComplaintReviews, ReviewComplaint(x, status)
      PROVE  FulfilmentInv'
  <2>1. ComplaintInv' /\ UNCHANGED <<shipping, writing, shipment, aftersale>>
    BY <1>6 DEF FulfilmentInv, ComplaintInv, ComplaintRows, ComplaintReviews, ReviewComplaint,
                ComplaintCommand, ShopWrite
  <2> QED
    BY <2>1 DEF FulfilmentInv, ShippingInv, Live, WritingInv, OnItsWay, ShipmentInv, AftersaleInv,
                AftersaleReadable
<1>7. CASE FulfilmentPart
    BY <1>2, <1>3, <1>4, <1>5, <1>6, <1>7 DEF FulfilmentPart, FulfilmentStep
<1> QED
    BY <1>1, <1>7 DEF Next, vars, Shops, DomainPart, SettingsPart, BookPart, SubscriptionPart

LEMMA AtMostOne ==
    ASSUME NEW S, \A x, y \in S : x = y
    PROVE  Cardinality(S) <= 1
<1>1. CASE S = {}
    BY <1>1, FS_EmptySet
<1>2. CASE S # {}
  <2>1. PICK x \in S : TRUE
    BY <1>2
  <2>2. S = {x}
    BY <2>1
  <2> QED
    BY <2>2, FS_Singleton
<1> QED
    BY <1>1, <1>2

LEMMA FulfilmentHold ==
    ASSUME FulfilmentInv
    PROVE  FulfilmentTypeOK /\ FulfilmentSelected
<1>1. FulfilmentTypeOK
  <2>1. \A x \in Rules \cup Presets :
        /\ shipping[x] = NoShipping \/ PresetReadable(x)
        /\ shipping[x].shop \in 0..MaxShops /\ shipping[x].version \in Nat
        /\ shipping[x].default => x \in Presets
    BY DEF FulfilmentInv, ShippingInv, ShippingIds, ShippingRows, PresetReadable
  <2>2. \A w \in Writers : writing[w] # None => writing[w].row \in Rules \cup Presets
    BY DEF FulfilmentInv, WritingInv, OnItsWay, ShippingIds
  <2>3. MaxTraces \in Nat
    BY FulfilmentAssumption
  <2>4. \A x \in Shipments :
        /\ shipment[x] = NoShipment \/ ShipmentReadable(x)
        /\ shipment[x].shop \in 0..MaxShops /\ shipment[x].order \in ShopOrders \cup {None}
    BY <2>3 DEF FulfilmentInv, ShipmentInv, ShipmentRows, ShipmentReadable
  <2>5. \A x \in Aftersales : AftersaleReadable(x)
    BY DEF FulfilmentInv, AftersaleInv
  <2>6. \A x \in Complaints : ComplaintReadable(x) /\ complaint[x].shop \in 0..MaxShops
    BY DEF FulfilmentInv, ComplaintInv, ComplaintRows, ComplaintReadable
  <2> QED
    BY <2>1, <2>2, <2>4, <2>5, <2>6 DEF FulfilmentTypeOK
<1>2. ASSUME NEW s \in ShopIds PROVE Cardinality(DefaultsOf(s)) <= 1
  <2>1. \A x, y \in DefaultsOf(s) : x = y
    BY DEF DefaultsOf, FulfilmentInv, ShippingInv, ShippingIds
  <2> QED
    BY <2>1, AtMostOne
<1>3. ASSUME NEW x \in Shipments, NEW y \in Shipments, x # y, shipment[x] # NoShipment
      PROVE  <<shipment[x].shop, shipment[x].order>> # <<shipment[y].shop, shipment[y].order>>
    BY <1>3 DEF FulfilmentInv, ShipmentInv
<1> QED
    BY <1>1, <1>2, <1>3 DEF FulfilmentSelected, FulfilmentInv, AftersaleInv

-----------------------------------------------------------------------------
(* The book of customers.  Whoever makes an address the default clears the *)
(* others of the same customer in the same step.                           *)

AddressRows == [customer : Customers \cup {None}, default : BOOLEAN]
AccountRows == [shop : 0..MaxShops, contact : Contacts \cup {None}]

AddressInv ==
    /\ address \in [Addresses -> AddressRows]
    /\ \A a, b \in Addresses : address[a].default /\ address[b].default
            /\ address[a].customer = address[b].customer => a = b

AccountInv ==
    /\ account \in [Accounts -> AccountRows]
    /\ \A a \in Accounts : account[a] = NoAccount \/ account[a].shop \in ShopIds
    /\ \A a, b \in Accounts : a # b /\ account[a] # NoAccount =>
            ~(account[a].shop = account[b].shop /\ account[a].contact = account[b].contact)

BookInv == AddressInv /\ wishlist \in [Customers -> SUBSET Products] /\ AccountInv

LEMMA BookInitial == BookInit => BookInv
<1> SUFFICES ASSUME BookInit PROVE BookInv
    OBVIOUS
<1>1. NoAddress \in AddressRows /\ ~NoAddress.default
    BY DEF NoAddress, AddressRows
<1>2. NoAccount \in AccountRows
    BY MerchantsAssumption DEF NoAccount, AccountRows
<1> HIDE DEF NoAddress, NoAccount
<1> QED
    BY <1>1, <1>2 DEF BookInit, BookInv, AddressInv, AccountInv

\* A new row at a: it is the default only if no other of its customer stays one.
LEMMA AddressKeeps ==
    ASSUME AddressInv, NEW a \in Addresses, DOMAIN address' = Addresses,
           address' = [x \in Addresses |-> address'[x]], address'[a] \in AddressRows,
           \A x \in Addresses : x # a =>
                /\ address'[x] \in AddressRows /\ address'[x].customer = address[x].customer
                /\ address'[x].default => address[x].default
                /\ address'[a].default /\ address[x].customer = address'[a].customer
                        => ~address'[x].default
    PROVE  AddressInv'
<1>1. address' \in [Addresses -> AddressRows]
    OBVIOUS
<1>2. ASSUME NEW x \in Addresses, NEW y \in Addresses, address'[x].default, address'[y].default,
             address'[x].customer = address'[y].customer
      PROVE  x = y
    BY <1>2 DEF AddressInv
<1> QED
    BY <1>1, <1>2 DEF AddressInv

LEMMA AddressRequestKeeps ==
    ASSUME AddressInv, NEW k \in Customers, AddressRequest(k)
    PROVE  AddressInv' /\ UNCHANGED <<wishlist, account>>
<1>1. UNCHANGED <<wishlist, account>>
    BY DEF AddressRequest, SaveAddress, DeleteAddress, ReplaceDefault, AddressWrite
<1>2. ASSUME NEW a \in Addresses
      PROVE  LET rows == OthersCleared(k, a) IN
             /\ DOMAIN rows = Addresses /\ rows[a] = address[a] /\ rows[a] \in AddressRows
             /\ \A x \in Addresses : x # a =>
                    /\ rows[x] \in AddressRows /\ rows[x].customer = address[x].customer
                    /\ rows[x].default => address[x].default
                    /\ address[x].customer = k => ~rows[x].default
  <2> DEFINE rows == OthersCleared(k, a)
  <2>1. DOMAIN rows = Addresses /\ rows[a] = address[a] /\ rows[a] \in AddressRows
    BY DEF OthersCleared, AddressInv
  <2>2. ASSUME NEW x \in Addresses, x # a
        PROVE  /\ rows[x] \in AddressRows /\ rows[x].customer = address[x].customer
               /\ rows[x].default => address[x].default
               /\ address[x].customer = k => ~rows[x].default
    <3>1. address[x] \in AddressRows
        BY DEF AddressInv
    <3>2. CASE address[x].customer = k
        <4>1. rows[x] = [address[x] EXCEPT !.default = FALSE]
            BY <2>2, <3>2 DEF OthersCleared
        <4> HIDE DEF rows
        <4> QED
            BY <3>1, <4>1 DEF AddressRows
    <3>3. CASE address[x].customer # k
        <4>1. rows[x] = address[x]
            BY <2>2, <3>3 DEF OthersCleared
        <4> QED
            BY <3>1, <3>3, <4>1
    <3> QED
        BY <3>2, <3>3
  <2> QED
    BY <2>1, <2>2
<1>3. \A x \in Addresses : address[x] \in AddressRows
    BY DEF AddressInv
<1>4. ASSUME NEW a \in Addresses, NEW default \in BOOLEAN, SaveAddress(k, a, default)
      PROVE  AddressInv'
  <2> DEFINE row == [customer |-> k, default |-> default]
  <2>1. row \in AddressRows /\ row.customer = k /\ (row.default <=> default)
    BY DEF AddressRows
  <2>2. address' = [IF default THEN OthersCleared(k, a) ELSE address EXCEPT ![a] = row]
    BY <1>4 DEF SaveAddress
  <2> HIDE DEF row
  <2>3. CASE default
    <3>1. address' = [OthersCleared(k, a) EXCEPT ![a] = row]
        BY <2>2, <2>3
    <3>2. /\ DOMAIN address' = Addresses /\ address' = [x \in Addresses |-> address'[x]]
          /\ address'[a] = row /\ \A x \in Addresses : x # a => address'[x] = OthersCleared(k, a)[x]
        BY <1>2, <3>1
    <3> HIDE DEF OthersCleared
    <3> QED
        BY <1>2, <2>1, <3>2, AddressKeeps
  <2>4. CASE ~default
    <3>1. /\ DOMAIN address' = Addresses /\ address' = [x \in Addresses |-> address'[x]]
          /\ address'[a] = row /\ \A x \in Addresses : x # a => address'[x] = address[x]
        BY <2>2, <2>4 DEF AddressInv
    <3> QED
        BY <1>3, <2>1, <2>4, <3>1, AddressKeeps
  <2> QED
    BY <2>3, <2>4
<1>5. ASSUME NEW a \in Addresses, DeleteAddress(k, a) PROVE AddressInv'
  <2>1. NoAddress \in AddressRows /\ ~NoAddress.default
    BY DEF NoAddress, AddressRows
  <2>2. /\ DOMAIN address' = Addresses /\ address' = [x \in Addresses |-> address'[x]]
        /\ address'[a] = NoAddress /\ \A x \in Addresses : x # a => address'[x] = address[x]
    BY <1>5 DEF DeleteAddress, AddressInv
  <2> HIDE DEF NoAddress
  <2> QED
    BY <1>3, <2>1, <2>2, AddressKeeps
<1>6. ASSUME NEW a \in Addresses, ReplaceDefault(k, a) PROVE AddressInv'
  <2> DEFINE row == [address[a] EXCEPT !.default = TRUE]
  <2>1. address[a].customer = k /\ address' = [OthersCleared(k, a) EXCEPT ![a].default = TRUE]
    BY <1>6 DEF ReplaceDefault, MayWrite
  <2>2. row \in AddressRows /\ row.customer = k
    BY <1>3, <2>1 DEF AddressRows
  <2>3. /\ DOMAIN address' = Addresses /\ address' = [x \in Addresses |-> address'[x]]
        /\ address'[a] = row /\ \A x \in Addresses : x # a => address'[x] = OthersCleared(k, a)[x]
    BY <1>2, <2>1
  <2> HIDE DEF row
  <2> QED
    BY <1>2, <2>2, <2>3, AddressKeeps
<1> QED
    BY <1>1, <1>4, <1>5, <1>6 DEF AddressRequest

LEMMA AccountRequestKeeps ==
    ASSUME AccountInv, NEW a \in Accounts, AccountRequest(a)
    PROVE  AccountInv' /\ UNCHANGED <<address, wishlist>>
<1>1. UNCHANGED <<address, wishlist>>
    BY DEF AccountRequest, SaveAccount, DeleteAccount, AccountWrite
<1>2. MaxShops \in Nat /\ NoAccount.shop = 0
    BY MerchantsAssumption DEF NoAccount
<1>3. ASSUME NEW s \in ShopIds, NEW contact \in Contacts, SaveAccount(a, s, contact)
      PROVE  AccountInv'
  <2> DEFINE row == [shop |-> s, contact |-> contact]
  <2>1. row \in AccountRows /\ row.shop = s /\ row.contact = contact
    BY <1>2 DEF AccountRows, ShopIds
  <2>2. account' = [account EXCEPT ![a] = row] /\ ContactFree(a, s, contact)
    BY <1>3 DEF SaveAccount
  <2> HIDE DEF row
  <2>3. /\ account' \in [Accounts -> AccountRows] /\ account'[a] = row
        /\ \A x \in Accounts : x # a => account'[x] = account[x]
    BY <2>1, <2>2 DEF AccountInv
  <2> QED
    BY <2>1, <2>2, <2>3 DEF AccountInv, ContactFree
<1>4. ASSUME DeleteAccount(a) PROVE AccountInv'
  <2>1. NoAccount \in AccountRows
    BY <1>2 DEF NoAccount, AccountRows
  <2>2. /\ account' \in [Accounts -> AccountRows] /\ account'[a] = NoAccount
        /\ \A x \in Accounts : x # a => account'[x] = account[x]
    BY <1>4, <2>1 DEF DeleteAccount, AccountInv
  <2>3. 0 \notin ShopIds
    BY DEF ShopIds
  <2> HIDE DEF NoAccount
  <2> QED
    BY <1>2, <2>2, <2>3 DEF AccountInv
<1> QED
    BY <1>1, <1>3, <1>4 DEF AccountRequest

LEMMA BookNext == BookInv /\ [Next]_vars => BookInv'
<1> SUFFICES ASSUME BookInv, [Next]_vars PROVE BookInv'
    OBVIOUS
<1>1. CASE UNCHANGED book
    BY <1>1 DEF BookInv, book, AddressInv, AccountInv
<1>2. ASSUME NEW k \in Customers, AddressRequest(k) PROVE BookInv'
    BY <1>2, AddressRequestKeeps DEF BookInv, AccountInv
<1>3. ASSUME NEW k \in Customers, WishlistRequest(k) PROVE BookInv'
  <2>1. UNCHANGED <<address, account>>
    BY <1>3 DEF WishlistRequest, AddWishlist, RemoveWishlist, WishlistWrite
  <2>2. wishlist' \in [Customers -> SUBSET Products]
    BY <1>3 DEF BookInv, WishlistRequest, AddWishlist, RemoveWishlist
  <2> QED
    BY <2>1, <2>2 DEF BookInv, AddressInv, AccountInv
<1>4. ASSUME NEW a \in Accounts, AccountRequest(a) PROVE BookInv'
    BY <1>4, AccountRequestKeeps DEF BookInv, AddressInv
<1>5. CASE BookPart
    BY <1>2, <1>3, <1>4, <1>5 DEF BookPart, BookStep
<1> QED
    BY <1>1, <1>5 DEF Next, vars, Shops, DomainPart, SettingsPart, FulfilmentPart, SubscriptionPart

LEMMA BookHold ==
    ASSUME BookInv
    PROVE  BookTypeOK /\ BookSelected
<1>1. BookTypeOK
    BY DEF BookInv, BookTypeOK, AddressInv, AccountInv, AddressRows, AccountRows
<1>2. ASSUME NEW a \in Accounts, NEW b \in Accounts, a # b, account[a] # NoAccount
      PROVE  <<account[a].shop, account[a].contact>> # <<account[b].shop, account[b].contact>>
    BY <1>2 DEF BookInv, AccountInv
<1> QED
    BY <1>1, <1>2 DEF BookSelected, BookInv, AddressInv

LEMMA DomainsHold ==
    ASSUME DomainsInv
    PROVE  DomainsSelected
<1>1. ASSUME NEW host \in Hosts PROVE Cardinality(Leads(host)) <= 1
  <2>1. \A s, t \in Leads(host) : s = t
    BY DEF Leads, DomainsInv, OneHost
  <2> QED
    BY <2>1, AtMostOne
<1>2. ASSUME NEW d \in DomainIds, domain[d].primary, NEW x \in Siblings(d) PROVE ~domain[x].primary
    BY <1>2 DEF Siblings, DomainsInv, OnePrimary
<1> QED
    BY <1>1, <1>2 DEF DomainsSelected

\* Wherever the program picks one of several rows there is one to pick, for any
\* number of domains, policies, presets, addresses, parcels and accounts: the
\* locks of the shop and of the customer's rows make each choice one step, and
\* that step takes from the others what it gives (domain.go:227-302,
\* policy.go:219-225, repository_shipping.go:290-297, mysql.go:382-390).
\* The slugs of shops are kept apart by their keys, and a visitor's default gives way
\* to the languages it was read before (lifecycle.go:86-91, shop/model/locale.go:106-133).
THEOREM SelectionsUnique == Spec => []SelectionsAreUnique
<1>1. Init => DomainsInv /\ SettingsInv /\ FulfilmentInv /\ BookInv
    BY DomainsInitial, SettingsInitial, FulfilmentInitial, BookInitial DEF Init
<1>2. TenancyInv /\ DomainsInv /\ SettingsInv /\ FulfilmentInv /\ BookInv => SelectionsAreUnique
    BY SlugsHold, DomainsHold, SettingsHold, FulfilmentHold, BookHold DEF SelectionsAreUnique
<1> QED
    BY <1>1, <1>2, BackofficeTenancyInit, BackofficeTenancyNext, DomainsNext, SettingsNext,
       FulfilmentNext, BookNext, PTL DEF Spec

-----------------------------------------------------------------------------
(* Types.                                                                  *)

LEMMA PurchasesTyped ==
    ASSUME Purchases!PlanInv, Purchases!PaidInv, Purchases!TypeInv
    PROVE  Subscription!TypeOK
<1>1. Purchases!TypeOK
    BY Purchases!WellTyped
<1> QED
    BY <1>1 DEF Purchases!TypeOK, Subscription!TypeOK, Purchases!Kinds, Subscription!Kinds

\* Every row is one its readers accept, whichever part writes it, and whatever a
\* request has carried from a plan it read long ago.
THEOREM RowsAreReadable == Spec => []TypeOK
<1> DEFINE Bought == Purchases!PlanInv /\ Purchases!PaidInv /\ Purchases!TypeInv
           Kept == DomainsInv /\ SettingsInv /\ FulfilmentInv /\ BookInv
<1>1. Durations \subseteq Nat /\ MaxTime \in Nat /\ None \notin Orders
    BY BackofficeAssumption
<1>2. Init => Bought
    BY <1>1, SameInit, Purchases!PlanInit, Purchases!PaidInit, Purchases!TypeInit DEF Init
<1>3. Bought /\ [Next]_vars => Bought'
    BY <1>1, SubscriptionStep, Purchases!PlanNext, Purchases!PaidNext, Purchases!TypeNext
<1>4. Init => TenancyInv /\ Kept
    BY BackofficeTenancyInit, DomainsInitial, SettingsInitial, FulfilmentInitial, BookInitial DEF Init
<1>5. Kept /\ [Next]_vars => Kept'
    BY DomainsNext, SettingsNext, FulfilmentNext, BookNext
<1>6. Bought => Subscription!TypeOK
    BY PurchasesTyped
<1>7. TenancyInv /\ Kept => MerchantsTypeOK /\ DomainsTypeOK /\ SettingsTypeOK /\ FulfilmentTypeOK /\ BookTypeOK
    BY SettingsHold, FulfilmentHold, BookHold DEF TenancyInv, DomainsInv
<1>8. Bought /\ TenancyInv /\ Kept => TypeOK
    BY <1>6, <1>7 DEF TypeOK
<1> HIDE DEF Bought, Kept
<1> QED
    BY <1>2, <1>3, <1>4, <1>5, <1>8, BackofficeTenancyNext, PTL DEF Spec

-----------------------------------------------------------------------------
(* What has ended.  Every command asks the row, or the shop it is of, in   *)
(* the step in which it writes; what was read before that is only the      *)
(* version of a shipping row.                                              *)

ClosedShop(s) == s \in ShopIds /\ shop[s].status = "CLOSED"

FinalTenancy ==
    /\ \A m \in MerchantIds : merchant[m].status = "CLOSED" => merchant'[m] = merchant[m]
    /\ \A p \in People : person[p].member = "REVOKED" => person'[p] = person[p]
    /\ \A c \in Categories : category[c] = "RETIRED" => category'[c] = category[c]
    /\ \A s \in ShopIds : shop[s].status = "CLOSED" => shop'[s] = shop[s]

LEMMA TenancyFinal ==
    ASSUME TenancyInv, [Next]_vars
    PROVE  FinalTenancy
<1> USE DEF TenancyInv
<1>1. CASE UNCHANGED tenancy
    BY <1>1 DEF tenancy, FinalTenancy
<1>2. /\ merchant \in [MerchantIds -> MerchantRows] /\ shop \in [ShopIds -> ShopRows]
      /\ person \in [People -> PersonRows] /\ MaxMerchants \in Nat /\ MaxShops \in Nat
    BY Rows
<1>3. /\ NextId(shop, NoShop) \in ShopIds => shop[NextId(shop, NoShop)] = NoShop
      /\ NextId(merchant, NoMerchant) \in MerchantIds =>
            merchant[NextId(merchant, NoMerchant)] = NoMerchant
    BY <1>2, NextIdIsNext DEF Numbered, ShopIds, MerchantIds
<1>4. NoShop.status = "NONE" /\ NoMerchant.status = "NONE" /\ NoPerson.member = "NONE"
    BY DEF NoShop, NoMerchant, NoPerson
<1>5. ASSUME NEW p \in People, CreateMerchant(p) PROVE FinalTenancy
  <2> DEFINE m == NextId(merchant, NoMerchant)  s == NextId(shop, NoShop)
             row == FirstShop(m)  owner == OwnerRow(m, {s})
  <2>1. /\ m \in MerchantIds /\ s \in ShopIds /\ person[p] = NoPerson /\ UNCHANGED category
        /\ merchant' = [merchant EXCEPT ![m] = MerchantRow]
        /\ shop' = [shop EXCEPT ![s] = row]
        /\ person' = [person EXCEPT ![p] = owner]
    BY <1>5 DEF CreateMerchant, MerchantCommand, Fresh
  <2>2. merchant[m].status = "NONE" /\ shop[s].status = "NONE" /\ person[p].member = "NONE"
    BY <1>3, <1>4, <2>1
  <2> HIDE DEF m, s, row, owner
  <2> QED
    BY <1>2, <2>1, <2>2 DEF FinalTenancy
<1>6. ASSUME NEW m \in MerchantIds, NEW status \in Open, UpdateMerchant(m, status) PROVE FinalTenancy
    BY <1>2, <1>6 DEF UpdateMerchant, MerchantCommand, MerchantMayChange, Open, FinalTenancy
<1>7. ASSUME NEW m \in MerchantIds, ResetOwnerPassword(m) PROVE FinalTenancy
  <2>1. PICK p \in OwnersOf(m) :
            person' = [person EXCEPT ![p].credential = "ACTIVE", ![p].session = FALSE]
    BY <1>7 DEF ResetOwnerPassword
  <2>2. UNCHANGED <<merchant, category, shop>> /\ p \in People /\ person[p].member = "ACTIVE"
    BY <1>7 DEF ResetOwnerPassword, MerchantCommand, OwnersOf
  <2>3. \A x \in People : x # p => person'[x] = person[x]
    BY <1>2, <2>1
  <2> QED
    BY <2>2, <2>3 DEF FinalTenancy
<1>8. ASSUME NEW m \in MerchantIds, CloseMerchant(m) PROVE FinalTenancy
  <2>1. /\ merchant[m].status \in Open /\ UNCHANGED category
        /\ \A x \in MerchantIds : x # m => merchant'[x] = merchant[x]
    BY <1>2, <1>8 DEF CloseMerchant, MerchantCommand, MerchantMayChange
  <2>2. \A s \in ShopIds : shop[s].status = "CLOSED" => shop'[s] = shop[s]
    BY <1>8 DEF CloseMerchant, CloseShopsOf, ShopsOf, ShopOpen, Open
  <2>3. \A p \in People : person[p].merchant # m => person'[p] = person[p]
    BY <1>8 DEF CloseMerchant, RevokePeopleOf
  <2>4. PICK owner \in OwnersOf(m) : TRUE
    BY <2>1 DEF ClosedIsEmpty
  <2>5. m # 0
    BY <1>2 DEF MerchantIds
  <2>6. \A p \in People : person[p].merchant = m => person[p].member = "ACTIVE"
    BY <2>4, <2>5 DEF OneOwner, OwnersOf
  <2> QED
    BY <2>1, <2>2, <2>3, <2>6 DEF FinalTenancy, Open
<1>9. ASSUME NEW p \in People, Login(p) PROVE FinalTenancy
  <2>1. /\ person[p].member = "ACTIVE" /\ UNCHANGED <<merchant, category, shop>>
        /\ person' = [person EXCEPT ![p].session = TRUE]
    BY <1>9 DEF Login
  <2>2. \A x \in People : x # p => person'[x] = person[x]
    BY <1>2, <2>1
  <2> QED
    BY <2>1, <2>2 DEF FinalTenancy
<1>10. ASSUME NEW m \in MerchantIds, NEW new \in NewShops, CreateShop(m, new) PROVE FinalTenancy
  <2> DEFINE s == NextId(shop, NoShop)  row == ShopRow(m, s, new.subdomain, new.category, new.status)
  <2>1. /\ s \in ShopIds /\ shop' = [shop EXCEPT ![s] = row] /\ UNCHANGED <<merchant, category>>
    BY <1>10 DEF CreateShop, ShopCommand
  <2>2. shop[s].status = "NONE"
    BY <1>3, <1>4, <2>1
  <2>3. PICK p \in OwnersOf(m) : person' = [person EXCEPT ![p].shops = @ \cup {s}]
    BY <1>10 DEF CreateShop, GrantOwnerShop
  <2>4. p \in People /\ person[p].member = "ACTIVE"
    BY DEF OwnersOf
  <2> HIDE DEF s, row
  <2>5. /\ \A x \in ShopIds : x # s => shop'[x] = shop[x]
        /\ \A x \in People : x # p => person'[x] = person[x]
    BY <1>2, <2>1, <2>3
  <2> QED
    BY <2>1, <2>2, <2>4, <2>5 DEF FinalTenancy
<1>11. ASSUME NEW c \in Categories, CategoryRequest(c) PROVE FinalTenancy
  <2>1. UNCHANGED <<merchant, shop, person>> /\ category[c] # "RETIRED"
    BY <1>11 DEF CategoryRequest, SaveCategory, SetCategoryEnabled, RetireCategory, CategoryCommand, Open
  <2>2. category \in [Categories -> Open \cup {"NONE", "RETIRED"}]
    BY DEF MerchantsTypeOK
  <2>3. \A x \in Categories : x # c => category'[x] = category[x]
    BY <1>11, <2>2 DEF CategoryRequest, SaveCategory, SetCategoryEnabled, RetireCategory
  <2> QED
    BY <2>1, <2>3 DEF FinalTenancy
<1>12. ASSUME NEW s \in ShopIds,
              \/ CloseShop(s) \/ \E enabled \in BOOLEAN : SetShopEnabled(s, enabled)
              \/ \E name \in Subdomains : UpdateShop(s, name)
       PROVE  FinalTenancy
  <2>1. UNCHANGED <<merchant, person, category>> /\ shop[s].status # "CLOSED"
    BY <1>12 DEF CloseShop, SetShopEnabled, UpdateShop, ShopCommand, MayClose, ShopOpen, Open
  <2>2. \A x \in ShopIds : x # s => shop'[x] = shop[x]
    BY <1>2, <1>12 DEF CloseShop, SetShopEnabled, UpdateShop
  <2> QED
    BY <2>1, <2>2 DEF FinalTenancy
<1>13. ASSUME NEW modules, Intervention(modules) PROVE FinalTenancy
    BY <1>13 DEF Intervention, Intervene, GovernanceCommand, FinalTenancy
<1>14. CASE Shops
  <2>1. CASE MerchantStep
    BY <1>5, <1>6, <1>7, <1>8, <1>9, <1>10, <1>11, <1>12, <2>1 DEF MerchantStep, MerchantRequest
  <2>2. CASE ShopStep
    BY <1>8, <1>12, <2>2 DEF ShopStep
  <2> QED
    BY <1>13, <1>14, <2>1, <2>2 DEF Shops
<1> QED
    BY <1>1, <1>14, PartsKeepTenancy DEF Next, vars

FinalDomains == \A d \in DomainIds :
    domain[d].status = "DELETED" \/ ClosedShop(domain[d].shop) => domain'[d] = domain[d]

LEMMA DomainsFinal ==
    ASSUME DomainsInv, [Next]_vars
    PROVE  FinalDomains
<1>1. CASE UNCHANGED domain
    BY <1>1 DEF FinalDomains
<1>2. domain \in [DomainIds -> DomainRows]
    BY DEF DomainsInv
<1>3. ASSUME NEW d \in DomainIds, domain[d].status # "DELETED", ~ClosedShop(domain[d].shop),
             \A x \in DomainIds : x # d => domain'[x] = domain[x]
      PROVE  FinalDomains
    BY <1>3 DEF FinalDomains
<1>4. \A d \in DomainIds : Bound(d) => domain[d].status # "DELETED"
    BY DEF Bound
<1>5. \A s : ShopOpen(s) => ~ClosedShop(s)
    BY DEF ShopOpen, Open, ClosedShop
<1>6. ASSUME NEW d \in DomainIds, NEW s \in ShopIds, NEW new \in NewDomains, CreateDomain(d, s, new)
      PROVE  FinalDomains
  <2>1. domain[d] = NoDomain /\ \A x \in DomainIds : x # d => domain'[x] = domain[x]
    BY <1>2, <1>6 DEF CreateDomain, Fresh
  <2>2. NoDomain.status = "NONE" /\ NoDomain.shop = 0 /\ 0 \notin ShopIds
    BY DEF NoDomain, ShopIds
  <2> QED
    BY <1>3, <2>1, <2>2 DEF ClosedShop
<1>7. ASSUME NEW d \in DomainIds, ActivateDomain(d) PROVE FinalDomains
  <2>1. domain[d].status = "VERIFIED" /\ ~ClosedShop(domain[d].shop) /\ MakePrimary(d)
    BY <1>5, <1>7 DEF ActivateDomain, Writable
  <2>2. \A x \in DomainIds : x # d /\ x \notin Siblings(d) => domain'[x] = domain[x]
    BY <2>1 DEF MakePrimary
  <2>3. \A x \in Siblings(d) : domain[x].status # "DELETED" /\ ~ClosedShop(domain[x].shop)
    BY <1>4, <2>1 DEF Siblings
  <2> QED
    BY <2>1, <2>2, <2>3 DEF FinalDomains
<1>8. ASSUME NEW d \in DomainIds, DeleteDomain(d) PROVE FinalDomains
  <2>1. \A x \in DomainIds : x # d => domain'[x] = domain[x]
    BY <1>2, <1>8 DEF DeleteDomain
  <2> QED
    BY <1>3, <1>4, <1>5, <1>8, <2>1 DEF DeleteDomain
<1>9. ASSUME NEW t \in Lookups, FinishTest(t) PROVE FinalDomains
  <2> DEFINE q == lookup[t]
  <2>1. UNCHANGED domain \/ (Still(q) /\ \A x \in DomainIds : x # q.domain => domain'[x] = domain[x])
    BY <1>2, <1>9 DEF FinishTest
  <2>2. q.domain \in DomainIds
    BY <1>9 DEF FinishTest, DomainsInv, LookupsAsked, Asked
  <2> HIDE DEF q
  <2> QED
    BY <1>1, <1>3, <1>4, <1>5, <2>1, <2>2 DEF Still, StillAny, Writable
<1>10. ASSUME NEW t \in Lookups, Answer(t) \/ NoAnswer(t) \/ \E d \in DomainIds : BeginTest(t, d)
       PROVE  FinalDomains
    BY <1>1, <1>10 DEF Answer, NoAnswer, BeginTest
<1>11. CASE DomainPart
    BY <1>6, <1>7, <1>8, <1>9, <1>10, <1>11 DEF DomainPart, DomainStep
<1> QED
    BY <1>1, <1>11 DEF Next, vars, Shops, SettingsPart, FulfilmentPart, BookPart, SubscriptionPart,
                       domains

FinalSettings ==
    /\ \A p \in Policies : policy[p].status = "ARCHIVED" \/ ClosedShop(policy[p].shop) =>
            policy'[p] = policy[p]
    /\ \A a \in Apps : ClosedShop(app[a].shop) => app'[a] = app[a]
    /\ \A s \in ShopIds : ClosedShop(s) => languages'[s] = languages[s] /\ privacy'[s] = privacy[s]

LEMMA SettingsFinal ==
    ASSUME SettingsInv, [Next]_vars
    PROVE  FinalSettings
<1> USE DEF SettingsInv
<1>1. CASE UNCHANGED <<app, policy, privacy, languages>>
    BY <1>1 DEF FinalSettings
<1>2. \A s : ShopOpen(s) => ~ClosedShop(s)
    BY DEF ShopOpen, Open, ClosedShop
<1>3. 0 \notin ShopIds /\ NoApp.shop = 0 /\ NoPolicy.shop = 0 /\ NoPolicy.status = "NONE"
    BY DEF ShopIds, NoApp, NoPolicy
<1>4. ASSUME NEW a \in Apps, AppRequest(a) PROVE FinalSettings
  <2>1. UNCHANGED <<policy, privacy, languages>> /\ \A x \in Apps : x # a => app'[x] = app[x]
    BY <1>4 DEF AppRequest, CreateApp, ResetAppSecret, EnableApp, DisableApp, AppStep, AppCommand
  <2>2. app[a] = NoApp \/ ShopOpen(app[a].shop)
    BY <1>4 DEF AppRequest, CreateApp, ResetAppSecret, EnableApp, DisableApp, AppStep, Fresh
  <2>3. ~ClosedShop(app[a].shop)
    BY <1>2, <1>3, <2>2 DEF ClosedShop
  <2> QED
    BY <2>1, <2>3 DEF FinalSettings
<1>5. ASSUME NEW s, NEW type, ShopOpen(s), NEW p \in Policies
      PROVE  /\ DOMAIN Archived(s, type) = Policies
             /\ policy[p].status = "ARCHIVED" \/ ClosedShop(policy[p].shop) =>
                    Archived(s, type)[p] = policy[p]
    BY <1>2, <1>5 DEF Archived, OfType
<1>6. ASSUME NEW p \in Policies, UNCHANGED <<app, privacy, languages>>,
             policy[p].status # "ARCHIVED", ~ClosedShop(policy[p].shop),
             NEW s, NEW type, ShopOpen(s),
             \A x \in Policies : x # p =>
                policy'[x] = policy[x] \/ policy'[x] = Archived(s, type)[x]
      PROVE  FinalSettings
    BY <1>5, <1>6 DEF FinalSettings
<1>7. ASSUME NEW p \in Policies, NEW s \in ShopIds, NEW c \in NewPolicies, SavePolicy(p, s, c)
      PROVE  FinalSettings
  <2> DEFINE row == [status |-> IF c.publish THEN "PUBLISHED" ELSE "DRAFT",
                     shop |-> s, type |-> c.type, number |-> NextNumber(s, c.type)]
  <2>1. /\ UNCHANGED <<app, privacy, languages>> /\ ShopOpen(s) /\ policy[p] = NoPolicy
        /\ policy' = [IF c.publish THEN Archived(s, c.type) ELSE policy EXCEPT ![p] = row]
    BY <1>7 DEF SavePolicy, PolicyStep, PolicyCommand, Fresh
  <2>2. \A x \in Policies : x # p => policy'[x] = policy[x] \/ policy'[x] = Archived(s, c.type)[x]
    <3>1. CASE c.publish
        <4>1. policy' = [Archived(s, c.type) EXCEPT ![p] = row]
            BY <2>1, <3>1
        <4> HIDE DEF row
        <4> QED
            BY <1>5, <2>1, <4>1
    <3>2. CASE ~c.publish
        <4>1. policy' = [policy EXCEPT ![p] = row]
            BY <2>1, <3>2
        <4> HIDE DEF row
        <4> QED
            BY <4>1 DEF PolicyInv
    <3> QED
        BY <3>1, <3>2
  <2>3. policy[p].status # "ARCHIVED" /\ ~ClosedShop(policy[p].shop)
    BY <1>3, <2>1 DEF ClosedShop
  <2> QED
    BY <1>6, <2>1, <2>2, <2>3
<1>8. ASSUME NEW p \in Policies, PublishPolicy(p) PROVE FinalSettings
  <2> DEFINE s == policy[p].shop  type == policy[p].type
  <2>1. /\ UNCHANGED <<app, privacy, languages>> /\ ShopOpen(s) /\ policy[p].status = "DRAFT"
        /\ policy' = [Archived(s, type) EXCEPT ![p].status = "PUBLISHED"]
    BY <1>8 DEF PublishPolicy, PolicyStep, PolicyCommand
  <2>2. \A x \in Policies : x # p => policy'[x] = Archived(s, type)[x]
    BY <1>5, <2>1
  <2>3. ~ClosedShop(s)
    BY <1>2, <2>1
  <2> QED
    BY <1>6, <2>1, <2>2, <2>3
<1>9. ASSUME NEW s \in ShopIds, NEW c \in NewLanguages, ReplaceLanguages(s, c) PROVE FinalSettings
  <2>1. /\ UNCHANGED <<app, policy, privacy>> /\ ~ClosedShop(s)
        /\ \A x \in ShopIds : x # s => languages'[x] = languages[x]
    BY <1>2, <1>9 DEF ReplaceLanguages
  <2> QED
    BY <2>1 DEF FinalSettings
<1>10. ASSUME SavePrivacy PROVE FinalSettings
  <2>1. /\ UNCHANGED <<app, policy, languages>>
        /\ \A x \in ShopIds : privacy'[x] = privacy[x] \/ (x = permit.shop /\ ShopOpen(x))
    BY <1>10 DEF SavePrivacy, PrivacyInv
  <2> QED
    BY <1>2, <2>1 DEF FinalSettings
<1>11. ASSUME NEW s \in ShopIds, BeginPrivacy(s) PROVE FinalSettings
    BY <1>1, <1>11 DEF BeginPrivacy
<1>12. ASSUME ReadRows \/ \E s \in ShopIds : ReadDefault(s) PROVE FinalSettings
    BY <1>1, <1>12 DEF ReadRows, ReadDefault
<1>13. CASE SettingsPart
    BY <1>4, <1>7, <1>8, <1>9, <1>10, <1>11, <1>12, <1>13 DEF SettingsPart, SettingsStep, PolicyRequest
<1> QED
    BY <1>1, <1>13 DEF Next, vars, Shops, DomainPart, FulfilmentPart, BookPart, SubscriptionPart,
                       settings

FinalBook == \A a \in Accounts : ClosedShop(account[a].shop) => account'[a] = account[a]

LEMMA BookFinal ==
    ASSUME BookInv, [Next]_vars
    PROVE  FinalBook
<1>1. CASE UNCHANGED account
    BY <1>1 DEF FinalBook
<1>2. ASSUME NEW a \in Accounts, AccountRequest(a) PROVE FinalBook
  <2>1. \A x \in Accounts : x # a => account'[x] = account[x]
    BY <1>2 DEF AccountRequest, SaveAccount, DeleteAccount, BookInv, AccountInv
  <2>2. account[a] = NoAccount \/ ShopOpen(account[a].shop)
    BY <1>2 DEF AccountRequest, SaveAccount, DeleteAccount, AccountWrite, Fresh
  <2>3. ~ClosedShop(account[a].shop)
    BY <2>2 DEF ClosedShop, NoAccount, ShopIds, ShopOpen, Open
  <2> QED
    BY <2>1, <2>3 DEF FinalBook
<1>3. CASE BookPart
  <2>1. ASSUME NEW k \in Customers, AddressRequest(k) \/ WishlistRequest(k) PROVE UNCHANGED account
    BY <2>1 DEF AddressRequest, SaveAddress, DeleteAddress, ReplaceDefault, AddressWrite,
                WishlistRequest, AddWishlist, RemoveWishlist, WishlistWrite
  <2> QED
    BY <1>1, <1>2, <1>3, <2>1 DEF BookPart, BookStep
<1> QED
    BY <1>1, <1>3 DEF Next, vars, Shops, DomainPart, SettingsPart, FulfilmentPart, SubscriptionPart,
                      book

\* A write on its way saw its row at this shop, or the row has changed since.
Seen(q, rows) ==
    q # None =>
        /\ q.seen <= rows[q.row].version
        /\ q.seen = rows[q.row].version => rows[q.row].status = "NONE" \/ rows[q.row].shop = q.shop
SeenInv == \A w \in Writers : Seen(writing[w], shipping)

\* A row that a write changes is its own or a default of its shop, and every
\* change is a new version.
ChangedBy(q) == \A x \in ShippingIds :
    \/ shipping'[x] = shipping[x]
    \/ shipping[x].version < shipping'[x].version /\ (x = q.row \/ x \in DefaultsOf(q.shop))

LEMMA WritesChange ==
    ASSUME FulfilmentInv, NEW w \in Writers, RuleRequest(w) \/ PresetRequest(w)
    PROVE  UNCHANGED shipping \/ (Ready(writing[w]) /\ ChangedBy(writing[w]))
<1> DEFINE q == writing[w]
<1>1. q # None
    BY DEF RuleRequest, PresetRequest, SaveRule, RetireRule, SavePreset, SetPresetEnabled,
           RetirePreset, Of
<1>2. q.row \in ShippingIds
    BY <1>1 DEF FulfilmentInv, WritingInv, OnItsWay
<1>3. shipping \in [ShippingIds -> ShippingRows]
    BY DEF FulfilmentInv, ShippingInv
<1>4. \A x \in ShippingIds : shipping[x].version \in Nat /\ shipping[x].version < shipping[x].version + 1
    BY <1>3 DEF ShippingRows
<1>5. \/ UNCHANGED shipping
      \/ /\ Ready(q)
         /\ \/ \E c : shipping' = PutShipping(q, c)
            \/ \E status : shipping' = [shipping EXCEPT ![q.row].status = status,
                                                        ![q.row].version = @ + 1]
            \/ shipping' = Retired(q.row)
    BY DEF RuleRequest, PresetRequest, SaveRule, RetireRule, SavePreset, SetPresetEnabled,
           RetirePreset, Written
<1> HIDE DEF q
<1>6. ASSUME NEW c, shipping' = PutShipping(q, c) PROVE ChangedBy(q)
  <2> SUFFICES ASSUME NEW x \in ShippingIds, shipping'[x] # shipping[x]
               PROVE  /\ shipping[x].version < shipping'[x].version
                      /\ x = q.row \/ x \in DefaultsOf(q.shop)
    BY DEF ChangedBy
  <2>1. CASE x = q.row
    <3>1. shipping'[x].version = shipping[x].version + 1
        BY <1>6, <2>1 DEF PutShipping, ShippingIds
    <3> QED
        BY <1>4, <2>1, <3>1
  <2>2. CASE x # q.row
    <3>1. /\ x \in DefaultsOf(q.shop)
          /\ shipping'[x] = [shipping[x] EXCEPT !.default = FALSE, !.version = @ + 1]
        BY <1>6, <2>2 DEF PutShipping, ShippingIds
    <3>2. shipping'[x].version = shipping[x].version + 1
        BY <1>3, <3>1 DEF ShippingRows
    <3> QED
        BY <1>4, <3>1, <3>2
  <2> QED
    BY <2>1, <2>2
<1>7. ASSUME NEW status, shipping' = [shipping EXCEPT ![q.row].status = status, ![q.row].version = @ + 1]
      PROVE  ChangedBy(q)
  <2>1. /\ \A x \in ShippingIds : x # q.row => shipping'[x] = shipping[x]
        /\ shipping'[q.row].version = shipping[q.row].version + 1
    BY <1>2, <1>3, <1>7 DEF ShippingRows
  <2> QED
    BY <1>2, <1>4, <2>1 DEF ChangedBy
<1>8. ASSUME shipping' = Retired(q.row) PROVE ChangedBy(q)
  <2>1. /\ \A x \in ShippingIds : x # q.row => shipping'[x] = shipping[x]
        /\ shipping'[q.row].version = shipping[q.row].version + 1
    BY <1>2, <1>3, <1>8 DEF ShippingRows, Retired
  <2> QED
    BY <1>2, <1>4, <2>1 DEF ChangedBy
<1> QED
    BY <1>5, <1>6, <1>7, <1>8 DEF q

LEMMA StillSeen ==
    ASSUME FulfilmentInv, FulfilmentInv', SeenInv,
           \A x \in ShippingIds : \/ shipping'[x] = shipping[x]
                                 \/ shipping[x].version < shipping'[x].version,
           \/ writing' = writing
           \/ \E w \in Writers : \E q : writing' = [writing EXCEPT ![w] = q] /\ Seen(q, shipping')
    PROVE  SeenInv'
<1>1. ASSUME NEW w \in Writers PROVE Seen(writing[w], shipping')
  <2> DEFINE q == writing[w]
  <2> SUFFICES ASSUME q # None PROVE Seen(q, shipping')
    BY DEF Seen
  <2>1. q.row \in ShippingIds /\ q.seen \in Nat /\ Seen(q, shipping)
    BY DEF FulfilmentInv, WritingInv, OnItsWay, SeenInv
  <2>2. shipping[q.row].version \in Nat /\ shipping'[q.row].version \in Nat
    BY <2>1 DEF FulfilmentInv, ShippingInv, ShippingRows
  <2> HIDE DEF q
  <2>3. CASE shipping'[q.row] = shipping[q.row]
    BY <2>1, <2>3 DEF Seen
  <2>4. CASE shipping[q.row].version < shipping'[q.row].version
    BY <2>1, <2>2, <2>4 DEF Seen
  <2> QED
    BY <2>1, <2>3, <2>4
<1>2. ASSUME NEW w \in Writers, NEW q, writing' = [writing EXCEPT ![w] = q], Seen(q, shipping')
      PROVE  \A v \in Writers : Seen(writing'[v], shipping')
  <2>1. \A v \in Writers : writing'[v] = IF v = w THEN q ELSE writing[v]
    BY <1>2 DEF FulfilmentInv, WritingInv
  <2> QED
    BY <1>1, <1>2, <2>1
<1> QED
    BY <1>1, <1>2 DEF SeenInv

LEMMA SeenInitial == FulfilmentInit => SeenInv
BY DEF FulfilmentInit, SeenInv, Seen

LEMMA SeenNext ==
    ASSUME FulfilmentInv, SeenInv, [Next]_vars
    PROVE  SeenInv'
<1>1. FulfilmentInv'
    BY FulfilmentNext
<1>2. CASE UNCHANGED <<shipping, writing>>
    BY <1>1, <1>2, StillSeen
<1>3. ASSUME NEW w \in Writers, NEW x \in Rules \cup Presets, NEW s \in ShopIds,
             BeginShippingWrite(w, x, s)
      PROVE  SeenInv'
  <2> DEFINE q == [row |-> x, shop |-> s, seen |-> shipping[x].version]
  <2>1. /\ writing' = [writing EXCEPT ![w] = q] /\ UNCHANGED shipping
        /\ shipping[x].status # "NONE" => shipping[x].shop = s
    BY <1>3 DEF BeginShippingWrite
  <2>2. shipping[x].version \in Nat
    BY DEF FulfilmentInv, ShippingInv, ShippingIds, ShippingRows
  <2>3. Seen(q, shipping')
    BY <2>1, <2>2 DEF Seen
  <2> HIDE DEF q
  <2> QED
    BY <1>1, <2>1, <2>3, StillSeen
<1>4. ASSUME NEW w \in Writers, RuleRequest(w) \/ PresetRequest(w) PROVE SeenInv'
  <2>1. writing' = [writing EXCEPT ![w] = None] /\ Seen(None, shipping')
    BY <1>4 DEF RuleRequest, PresetRequest, SaveRule, RetireRule, SavePreset, SetPresetEnabled,
                RetirePreset, Written, Seen
  <2>2. \A x \in ShippingIds : shipping'[x] = shipping[x] \/ shipping[x].version < shipping'[x].version
    BY <1>4, WritesChange DEF ChangedBy
  <2> QED
    BY <1>1, <2>1, <2>2, StillSeen
<1>5. CASE FulfilmentPart
  <2>1. ASSUME \/ \E x \in Shipments : ParcelRequest(x)
               \/ \E x \in Aftersales : AftersaleRequest(x) \/ Refund(x)
        PROVE  UNCHANGED <<shipping, writing>>
    BY <2>1, ParcelKeeps, AftersaleKeeps DEF FulfilmentInv
  <2>2. ASSUME NEW x \in Complaints, NEW status \in ComplaintReviews, ReviewComplaint(x, status)
        PROVE  UNCHANGED <<shipping, writing>>
    BY <2>2 DEF ReviewComplaint, ComplaintCommand, ShopWrite
  <2> QED
    BY <1>2, <1>3, <1>4, <1>5, <2>1, <2>2 DEF FulfilmentPart, FulfilmentStep
<1> QED
    BY <1>2, <1>5 DEF Next, vars, Shops, DomainPart, SettingsPart, BookPart, SubscriptionPart, fulfilment

FinalFulfilment ==
    /\ \A x \in ShippingIds : shipping[x].status = "RETIRED" \/ ClosedShop(shipping[x].shop) =>
            shipping'[x] = shipping[x]
    /\ \A x \in Shipments : shipment[x].status = "DELIVERED" \/ ClosedShop(shipment[x].shop) =>
            shipment'[x] = shipment[x]
    /\ \A x \in Aftersales : aftersale[x].status # "PENDING" =>
            aftersale'[x].amount = aftersale[x].amount /\ aftersale'[x].status # "PENDING"
    /\ \A x \in Complaints : complaint[x].status # "OPEN" => complaint'[x] = complaint[x]

LEMMA FulfilmentFinal ==
    ASSUME FulfilmentInv, SeenInv, [Next]_vars
    PROVE  FinalFulfilment
<1>1. CASE UNCHANGED <<shipping, shipment, aftersale, complaint>>
    BY <1>1 DEF FinalFulfilment
<1>2. \A s : ShopOpen(s) => ~ClosedShop(s)
    BY DEF ShopOpen, Open, ClosedShop
<1>3. ASSUME NEW w \in Writers, NEW x \in Rules \cup Presets, NEW s \in ShopIds,
             BeginShippingWrite(w, x, s)
      PROVE  FinalFulfilment
    BY <1>1, <1>3 DEF BeginShippingWrite
<1>4. ASSUME NEW w \in Writers, RuleRequest(w) \/ PresetRequest(w) PROVE FinalFulfilment
  <2> DEFINE q == writing[w]
  <2>1. UNCHANGED <<shipment, aftersale, complaint>>
    BY <1>4, WritesKeepShipping DEF FulfilmentInv
  <2>2. UNCHANGED shipping \/ (Ready(q) /\ ChangedBy(q))
    BY <1>4, WritesChange
  <2>3. q # None
    BY <1>4 DEF RuleRequest, PresetRequest, SaveRule, RetireRule, SavePreset, SetPresetEnabled,
                RetirePreset, Of
  <2>4. Seen(q, shipping)
    BY DEF SeenInv
  <2> HIDE DEF q
  <2>5. ASSUME Ready(q), ChangedBy(q), NEW x \in ShippingIds,
               shipping[x].status = "RETIRED" \/ ClosedShop(shipping[x].shop)
        PROVE  shipping'[x] = shipping[x]
    <3>1. x \notin DefaultsOf(q.shop)
        BY <1>2, <2>5 DEF DefaultsOf, Live, Open, Ready
    <3>2. CASE x = q.row
      <4>1. shipping[x].version = q.seen /\ shipping[x].status # "RETIRED" /\ ShopOpen(q.shop)
        BY <2>5, <3>2 DEF Ready, ReadyWherever
      <4>2. shipping[x].status = "NONE" \/ shipping[x].shop = q.shop
        BY <2>3, <2>4, <3>2, <4>1 DEF Seen
      <4>3. shipping[x].status = "NONE" => shipping[x].shop = 0
        BY DEF FulfilmentInv, ShippingInv, NoShipping
      <4> QED
        BY <1>2, <2>5, <4>1, <4>2, <4>3 DEF ClosedShop, ShopIds
    <3> QED
        BY <2>5, <3>1, <3>2 DEF ChangedBy
  <2> QED
    BY <2>1, <2>2, <2>5 DEF FinalFulfilment
<1>5. ASSUME NEW x \in Shipments, ParcelRequest(x) PROVE FinalFulfilment
  <2>1. UNCHANGED <<shipping, aftersale, complaint>>
    BY <1>5, ParcelKeeps DEF FulfilmentInv
  <2>2. \A y \in Shipments : y # x => shipment'[y] = shipment[y]
    BY <1>5 DEF ParcelRequest, Ship, AddTrace, CloseShipment, FulfilmentInv, ShipmentInv
  <2>3. \/ shipment[x] = NoShipment
        \/ shipment[x].status = "SHIPPED" /\ ShopOpen(shipment[x].shop)
    BY <1>5 DEF ParcelRequest, Ship, AddTrace, CloseShipment, ParcelCommand, ShopWrite, Fresh
  <2>4. shipment[x].status # "DELIVERED" /\ ~ClosedShop(shipment[x].shop)
    BY <1>2, <2>3 DEF NoShipment, ClosedShop, ShopIds
  <2> QED
    BY <2>1, <2>2, <2>4 DEF FinalFulfilment
<1>6. ASSUME NEW x \in Aftersales, AftersaleRequest(x) \/ Refund(x) PROVE FinalFulfilment
  <2>1. UNCHANGED <<shipping, shipment, complaint>>
    BY <1>6, AftersaleKeeps DEF FulfilmentInv
  <2>2. aftersale \in [Aftersales -> AftersaleRows]
    BY DEF FulfilmentInv, AftersaleInv
  <2>3. \A y \in Aftersales : y # x => aftersale'[y] = aftersale[y]
    BY <1>6, <2>2 DEF AftersaleRequest, ReviewAftersale, ReceiveAftersale, Refund
  <2>4. aftersale[x].status # "PENDING" =>
            aftersale'[x].amount = aftersale[x].amount /\ aftersale'[x].status # "PENDING"
    <3>1. CASE AftersaleRequest(x)
      <4>1. aftersale[x].status # "PENDING" =>
                aftersale' = [aftersale EXCEPT ![x].return = "RECEIVED", ![x].received = TRUE]
        BY <3>1 DEF AftersaleRequest, ReviewAftersale, ReceiveAftersale
      <4> QED
        BY <2>2, <4>1 DEF AftersaleRows
    <3>2. CASE Refund(x)
        BY <2>2, <3>2 DEF Refund, AftersaleRows
    <3> QED
        BY <1>6, <3>1, <3>2
  <2> QED
    BY <2>1, <2>3, <2>4 DEF FinalFulfilment
<1>7. ASSUME NEW x \in Complaints, NEW status \in ComplaintReviews, ReviewComplaint(x, status)
      PROVE  FinalFulfilment
  <2>1. UNCHANGED <<shipping, shipment, aftersale>> /\ complaint[x].status = "OPEN"
    BY <1>7 DEF ReviewComplaint, ComplaintCommand, ShopWrite
  <2>2. \A y \in Complaints : y # x => complaint'[y] = complaint[y]
    BY <1>7 DEF ReviewComplaint, FulfilmentInv, ComplaintInv
  <2> QED
    BY <2>1, <2>2 DEF FinalFulfilment
<1>8. CASE FulfilmentPart
    BY <1>3, <1>4, <1>5, <1>6, <1>7, <1>8 DEF FulfilmentPart, FulfilmentStep
<1> QED
    BY <1>1, <1>8 DEF Next, vars, Shops, DomainPart, SettingsPart, BookPart, SubscriptionPart, fulfilment

\* What has ended stays as it ended, and nothing the merchant keeps at a closed shop
\* changes, whatever was already on its way when it ended: every write asks again
\* for the row and its shop (lifecycle.go:344-395, domain.go:192-206,
\* repository_shipping.go:290-297).
THEOREM EndedForGood == Spec => FinalStaysFinal
<1> DEFINE Inv == TenancyInv /\ DomainsInv /\ SettingsInv /\ FulfilmentInv /\ SeenInv /\ BookInv
           Ends == FinalTenancy /\ FinalDomains /\ FinalSettings /\ FinalFulfilment /\ FinalBook
           Final ==
       /\ \A m \in MerchantIds : merchant[m].status = "CLOSED" => merchant'[m] = merchant[m]
       /\ \A p \in People : person[p].member = "REVOKED" => person'[p] = person[p]
       /\ \A c \in Categories : category[c] = "RETIRED" => category'[c] = category[c]
       /\ \A d \in DomainIds : domain[d].status = "DELETED" => domain'[d] = domain[d]
       /\ \A p \in Policies : policy[p].status = "ARCHIVED" => policy'[p] = policy[p]
       /\ \A x \in Rules \cup Presets : shipping[x].status = "RETIRED" => shipping'[x] = shipping[x]
       /\ \A x \in Shipments : shipment[x].status = "DELIVERED" => shipment'[x] = shipment[x]
       /\ \A x \in Aftersales : aftersale[x].status # "PENDING" =>
            aftersale'[x].amount = aftersale[x].amount /\ aftersale'[x].status # "PENDING"
       /\ \A x \in Complaints : complaint[x].status # "OPEN" => complaint'[x] = complaint[x]
       /\ \A s \in ShopIds : shop[s].status = "CLOSED" =>
            /\ shop'[s] = shop[s] /\ languages'[s] = languages[s] /\ privacy'[s] = privacy[s]
            /\ \A d \in DomainIds : domain[d].shop = s => domain'[d] = domain[d]
            /\ \A a \in Apps : app[a].shop = s => app'[a] = app[a]
            /\ \A p \in Policies : policy[p].shop = s => policy'[p] = policy[p]
            /\ \A x \in Rules \cup Presets : shipping[x].shop = s => shipping'[x] = shipping[x]
            /\ \A x \in Shipments : shipment[x].shop = s => shipment'[x] = shipment[x]
            /\ \A a \in Accounts : account[a].shop = s => account'[a] = account[a]
<1>1. Ends => Final
  <2> SUFFICES ASSUME Ends PROVE Final
    OBVIOUS
  <2>1. ASSUME NEW s \in ShopIds, shop[s].status = "CLOSED"
        PROVE  /\ shop'[s] = shop[s] /\ languages'[s] = languages[s] /\ privacy'[s] = privacy[s]
               /\ \A d \in DomainIds : domain[d].shop = s => domain'[d] = domain[d]
               /\ \A a \in Apps : app[a].shop = s => app'[a] = app[a]
               /\ \A p \in Policies : policy[p].shop = s => policy'[p] = policy[p]
               /\ \A x \in Rules \cup Presets : shipping[x].shop = s => shipping'[x] = shipping[x]
               /\ \A x \in Shipments : shipment[x].shop = s => shipment'[x] = shipment[x]
               /\ \A a \in Accounts : account[a].shop = s => account'[a] = account[a]
    BY <2>1 DEF ClosedShop, FinalTenancy, FinalDomains, FinalSettings, FinalFulfilment, FinalBook,
                ShippingIds
  <2> QED
    BY <2>1 DEF FinalTenancy, FinalDomains, FinalSettings, FinalFulfilment, FinalBook, ShippingIds
<1>2. Inv /\ [Next]_vars => Ends
    BY TenancyFinal, DomainsFinal, SettingsFinal, FulfilmentFinal, BookFinal
<1> HIDE DEF Ends, Final
<1>3. Inv /\ [Next]_vars => [part # "subscription" => Final]_vars
    BY <1>1, <1>2
<1>4. Init => Inv
    BY BackofficeTenancyInit, DomainsInitial, SettingsInitial, FulfilmentInitial, SeenInitial,
       BookInitial DEF Init
<1>5. Inv /\ [Next]_vars => Inv'
    BY BackofficeTenancyNext, DomainsNext, SettingsNext, FulfilmentNext, SeenNext, BookNext
<1> HIDE DEF Inv
<1> QED
    BY <1>3, <1>4, <1>5, PTL DEF Spec, FinalStaysFinal, Final
=============================================================================
