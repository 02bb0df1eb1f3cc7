------------------------------- MODULE Domains -------------------------------
(***************************************************************************)
(* The custom domains of shops and the DNS look-ups that verify them:      *)
(*   data/shop/domain.go, capability/shop/domain.go                        *)
(* Commands lock the shop, so each is one step, except the test of a       *)
(* domain: its look-up runs before the transaction and takes what time it  *)
(* likes.                                                                  *)
(*                                                                         *)
(* An operator no action uses is its neighbour with a fault in it.         *)
(***************************************************************************)
EXTENDS Merchants

CONSTANTS
    DomainIds, Hosts, Scenes,
    Lookups         \* tests that may be in progress at a time

VARIABLES
    domain,         \* identity_shop_domain
    lookup          \* tests in progress

\* What a merchant may ask for.
NewDomains == [host : Hosts, scene : Scenes]

NoDomain == [status |-> "NONE", shop |-> 0, host |-> None, scene |-> None,
             primary |-> FALSE, version |-> 0]
DomainRow(s, host, scene, status, version) ==
    [status |-> status, shop |-> s, host |-> host, scene |-> scene,
     primary |-> FALSE, version |-> version]

Bound(d)      == domain[d].status \in {"PENDING", "VERIFIED", "FAILED"}
HostFree(h)   == \A d \in DomainIds : Bound(d) => domain[d].host # h
Writable(s)   == ShopOpen(s) /\ Unrestricted(s, "domains")
Siblings(d)   == {x \in DomainIds : x # d /\ Bound(x) /\ domain[x].shop = domain[d].shop
                                    /\ domain[x].scene = domain[d].scene}

\* The first shop may have verified domains already.
DomainsInit ==
    /\ \/ domain = [d \in DomainIds |-> NoDomain]
       \/ \E scene \in Scenes, host \in [DomainIds -> Hosts] :
            /\ \A d, e \in DomainIds : host[d] = host[e] => d = e
            /\ domain = [d \in DomainIds |-> DomainRow(1, host[d], scene, "VERIFIED", 2)]
    /\ lookup = [t \in Lookups |-> None]

\* One command of a merchant on its domains.
DomainCommand == Command /\ UNCHANGED tenancy

CreateDomain(d, s, new) ==
    /\ DomainCommand
    /\ Writable(s)
    /\ Fresh(d, domain, NoDomain) /\ HostFree(new.host)
    /\ domain' = [domain EXCEPT ![d] = DomainRow(s, new.host, new.scene, "PENDING", 1)]
    /\ UNCHANGED lookup

\* Test: the row is read, with the version the merchant saw;
BeginTest(t, d) ==
    /\ DomainCommand
    /\ Fresh(t, lookup, None)
    /\ Bound(d) /\ Unrestricted(domain[d].shop, "domains")
    /\ lookup' = [lookup EXCEPT ![t] =
            [domain |-> d, expected |-> domain[d].version, answered |-> FALSE]]
    /\ UNCHANGED domain

\* the resolver answers, whatever is in the zone now,
Answer(t) ==
    /\ lookup[t] # None /\ ~lookup[t].answered
    /\ \E matched \in BOOLEAN :
        lookup' = [lookup EXCEPT ![t] =
            [domain |-> lookup[t].domain, expected |-> lookup[t].expected, answered |-> TRUE,
             matched |-> matched, against |-> domain[lookup[t].domain].version]]
    /\ UNCHANGED <<writes, tenancy, domain>>

\* or does not, and nothing is written;
NoAnswer(t) ==
    /\ lookup[t] # None /\ ~lookup[t].answered
    /\ lookup' = [lookup EXCEPT ![t] = None]
    /\ UNCHANGED <<writes, tenancy, domain>>

\* TestDomain writes the answer over the version it was asked for, or refuses.
StillAny(q) == Bound(q.domain) /\ Writable(domain[q.domain].shop)
Still(q) == StillAny(q) /\ domain[q.domain].version = q.expected

FinishTest(t) ==
    LET q == lookup[t] IN
    /\ lookup[t] # None /\ lookup[t].answered
    /\ IF Still(q)
       THEN domain' = [domain EXCEPT ![q.domain].status = IF q.matched THEN "VERIFIED" ELSE "FAILED",
                                     ![q.domain].version = @ + 1]
       ELSE UNCHANGED domain
    /\ lookup' = [lookup EXCEPT ![t] = None]
    /\ UNCHANGED <<writes, tenancy>>

\* The domain replaces the primary one of its scene, whose version stays.
MakePrimary(d) ==
    domain' = [x \in DomainIds |->
        IF x = d THEN [domain[x] EXCEPT !.primary = TRUE, !.version = @ + 1]
        ELSE IF x \in Siblings(d) THEN [domain[x] EXCEPT !.primary = FALSE]
        ELSE domain[x]]

ActivateDomain(d) ==
    /\ DomainCommand
    /\ domain[d].status = "VERIFIED" /\ Writable(domain[d].shop)
    /\ MakePrimary(d)
    /\ UNCHANGED lookup

\* Also while the shop is restricted.  The host may be bound again.
DeleteDomain(d) ==
    /\ DomainCommand
    /\ Bound(d) /\ ShopOpen(domain[d].shop)
    /\ domain' = [domain EXCEPT ![d].status = "DELETED", ![d].primary = FALSE,
                                ![d].version = @ + 1]
    /\ UNCHANGED lookup

\* ResolveHost: the shop a host leads to; the row's status goes with it.
Leads(host) == {domain[d].shop : d \in {x \in DomainIds : Bound(x) /\ domain[x].host = host
                                                         /\ ShopOpen(domain[x].shop)}}

DomainStep ==
    \/ \E d \in DomainIds :
        \/ \E s \in ShopIds, new \in NewDomains : CreateDomain(d, s, new)
        \/ ActivateDomain(d) \/ DeleteDomain(d)
        \/ \E t \in Lookups : BeginTest(t, d)
    \/ \E t \in Lookups : Answer(t) \/ NoAnswer(t) \/ FinishTest(t)

DomainsTypeOK ==
    /\ domain \in [DomainIds -> [status : {"NONE", "PENDING", "VERIFIED", "FAILED", "DELETED"},
                                 shop : 0..MaxShops, host : Hosts \cup {None},
                                 scene : Scenes \cup {None}, primary : BOOLEAN, version : Nat]]
    /\ \A d \in DomainIds : domain[d].primary => domain[d].status \in {"VERIFIED", "FAILED"}

\* A host leads to one shop, and a shop has one primary domain per scene.
DomainsSelected ==
    /\ \A host \in Hosts : Cardinality(Leads(host)) <= 1
    /\ \A d \in DomainIds : domain[d].primary => \A x \in Siblings(d) : ~domain[x].primary
=============================================================================
