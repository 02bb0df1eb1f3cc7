------------------------------ MODULE Backoffice ------------------------------
(***************************************************************************)
(* The parts of the back office of merchants around what they share: the   *)
(* merchants, their shops and the platform's restrictions.  Any part goes  *)
(* on while merchants and shops are closed under it.  The parts have no    *)
(* other state in common, so a behaviour is about one of them; the plans   *)
(* and purchases of a merchant have none in common with the rest.          *)
(***************************************************************************)
EXTENDS Domains, ShopSettings, Fulfilment, CustomerBook

CONSTANTS
    Shorter,        \* bound: commands fewer of the parts with many rows
    Plans, Orders, Payments, Slots, Durations, MaxTime, MaxCommands, Crashes

ASSUME BackofficeAssumption ==
    /\ Shorter \in 0..MaxWrites
    /\ Durations \subseteq Nat /\ \E d \in Durations : \A x \in Durations : x <= d
    /\ {MaxTime, MaxCommands} \subseteq Nat /\ Crashes \in BOOLEAN
    /\ None \notin Orders

VARIABLES
    part,           \* the part a behaviour is about
    now, plan, order, payment, assignment, assigns, fact, opened, request, commands

Subscription == INSTANCE Subscriptions

domains   == <<domain, lookup>>
purchases == <<now, plan, order, payment, assignment, assigns, fact, opened, request, commands>>
vars == <<part, writes, tenancy, domains, settings, fulfilment, book, purchases>>

Restrictable ==
    [merchants |-> {}, domains |-> {"domains"}, settings |-> {"apps", "policies", "privacy"},
     fulfilment |-> {"shipping"}, book |-> {}, subscription |-> {}]

Init ==
    /\ part \in DOMAIN Restrictable
    /\ writes = IF part \in {"merchants", "book"} THEN 0 ELSE Shorter
    /\ MerchantsInit
    /\ DomainsInit /\ SettingsInit /\ FulfilmentInit /\ BookInit
    /\ Subscription!Init
    /\ part # "domains" => \A d \in DomainIds : domain[d] = NoDomain
    /\ part # "fulfilment" =>
            \A x \in Aftersales : aftersale[x].type = "REFUND_ONLY" /\ aftersale[x].amount = 1
    /\ part # "subscription" => \A p \in Plans : plan[p] = Subscription!NoPlan
    /\ part \in {"subscription", "book"} => Cardinality(ShopsOf(1)) = 1

Shops ==
    /\ part # "subscription"
    /\ ShopStep \/ Intervention(Restrictable[part]) \/ (part = "merchants" /\ MerchantStep)
    /\ UNCHANGED <<part, domains, settings, fulfilment, book, purchases>>

DomainPart ==
    /\ part = "domains" /\ DomainStep
    /\ UNCHANGED <<part, settings, fulfilment, book, purchases>>

SettingsPart ==
    /\ part = "settings" /\ SettingsStep
    /\ UNCHANGED <<part, domains, fulfilment, book, purchases>>

FulfilmentPart ==
    /\ part = "fulfilment" /\ FulfilmentStep
    /\ UNCHANGED <<part, domains, settings, book, purchases>>

BookPart ==
    /\ part = "book" /\ BookStep
    /\ UNCHANGED <<part, domains, settings, fulfilment, purchases>>

SubscriptionPart ==
    /\ part = "subscription" /\ Subscription!Next
    /\ UNCHANGED <<part, writes, tenancy, domains, settings, fulfilment, book>>

Next == \/ Shops \/ DomainPart \/ SettingsPart \/ FulfilmentPart \/ BookPart
        \/ SubscriptionPart

Spec == Init /\ [][Next]_vars

-----------------------------------------------------------------------------
(* Correctness                                                             *)

\* Every row is one its readers accept.
TypeOK ==
    IF part = "subscription" THEN Subscription!TypeOK
    ELSE /\ MerchantsTypeOK /\ DomainsTypeOK /\ SettingsTypeOK /\ FulfilmentTypeOK
         /\ BookTypeOK

\* Wherever the program picks one of several rows, whatever commands led here,
\* there is one to pick: one shop for a slug, one shop and primary domain for a host
\* and scene, one published policy of a type, one default preset and
\* address, one parcel of an order, one account of a contact, and for a visitor a
\* default among the languages.  No key of the database sees to policies, presets,
\* addresses and languages (domain.go:227-302, policy.go:219-225,
\* repository_shipping.go:290-297, mysql.go:382-390, shop/model/locale.go:106-133).
SelectionsAreUnique ==
    part # "subscription" =>
        SlugsResolve /\ DomainsSelected /\ SettingsSelected /\ FulfilmentSelected /\ BookSelected

\* A domain becomes verified, or fails, by a look-up that was answered while the
\* domain was as it is replaced: an answer that comes after another test, an
\* activation or a deletion is dropped (domain.go:124, domain.go:192-206).
VerifiedByItsLookup ==
    [][part = "domains" => \A d \in DomainIds :
        domain'[d].status \in {"VERIFIED", "FAILED"} \ {domain[d].status} =>
            \E t \in Lookups :
                /\ lookup[t] # None /\ lookup[t].answered
                /\ lookup[t].domain = d /\ lookup[t].against = domain[d].version
                /\ domain'[d].status = IF lookup[t].matched THEN "VERIFIED" ELSE "FAILED"]_vars

\* What has ended stays as it ended, whatever was already on its way: closed
\* merchants and shops with their owners, deleted domains, archived policies,
\* retired categories, rules and presets, delivered parcels, decided after-sales
\* and complaints; and nothing the merchant keeps at a closed shop changes.
FinalStaysFinal ==
    [][part # "subscription" =>
       /\ \A m \in MerchantIds : merchant[m].status = "CLOSED" => merchant'[m] = merchant[m]
       /\ \A p \in People : person[p].member = "REVOKED" => person'[p] = person[p]
       /\ \A c \in Categories : category[c] = "RETIRED" => category'[c] = category[c]
       /\ \A d \in DomainIds : domain[d].status = "DELETED" => domain'[d] = domain[d]
       /\ \A p \in Policies : policy[p].status = "ARCHIVED" => policy'[p] = policy[p]
       /\ \A x \in Rules \cup Presets : shipping[x].status = "RETIRED" => shipping'[x] = shipping[x]
       /\ \A x \in Shipments : shipment[x].status = "DELIVERED" => shipment'[x] = shipment[x]
       /\ \A x \in Aftersales : aftersale[x].status # "PENDING" =>
            aftersale'[x].amount = aftersale[x].amount /\ aftersale'[x].status # "PENDING"
       /\ \A x \in Complaints : complaint[x].status # "OPEN" => complaint'[x] = complaint[x]
       /\ \A s \in ShopIds : shop[s].status = "CLOSED" =>
            /\ shop'[s] = shop[s] /\ languages'[s] = languages[s] /\ privacy'[s] = privacy[s]
            /\ \A d \in DomainIds : domain[d].shop = s => domain'[d] = domain[d]
            /\ \A a \in Apps : app[a].shop = s => app'[a] = app[a]
            /\ \A p \in Policies : policy[p].shop = s => policy'[p] = policy[p]
            /\ \A x \in Rules \cup Presets : shipping[x].shop = s => shipping'[x] = shipping[x]
            /\ \A x \in Shipments : shipment[x].shop = s => shipment'[x] = shipment[x]
            /\ \A a \in Accounts : account[a].shop = s => account'[a] = account[a]]_vars

\* Of the plans and purchases.
OneDefaultPlan == Subscription!OneDefaultPlan
OrdersOpenOnce == Subscription!OrdersOpenOnce
OpenedWasPaid  == Subscription!OpenedWasPaid
=============================================================================
