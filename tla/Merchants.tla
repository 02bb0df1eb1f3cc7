------------------------------ MODULE Merchants ------------------------------
(***************************************************************************)
(* Merchants, their shops and owners, the shop categories and the          *)
(* platform's interventions:                                               *)
(*   data/merchant/lifecycle.go        opening, changing, closing          *)
(*   data/shop/lifecycle.go            the shops of a merchant             *)
(*   data/shop/category.go             the categories shops are filed under*)
(*   data/merchant_governance/repository.go  what a shop may not write     *)
(* Every command locks the row of the merchant or the shop it decides on   *)
(* before it reads it, so a command is one step.  A command whose key was  *)
(* used repeats its answer and one whose expected version is stale is      *)
(* refused: neither changes anything, so keys are left out, and versions   *)
(* where no other step depends on them.                                    *)
(*                                                                         *)
(* An operator no action uses is its neighbour with a fault in it.         *)
(***************************************************************************)
EXTENDS Naturals, FiniteSets

CONSTANTS
    MaxMerchants, MaxShops,     \* bounds: ids are allocated from 1
    FirstShops,     \* how many shops the first merchant may start with
    People, Categories,
    Subdomains,     \* what a shop may be called: number k reads as the code "shop-k"
                    \* when there can be one, any other as a name of its own
    Modules,        \* the modules of a shop the platform may restrict
    MaxWrites,      \* bound: commands
    None

ASSUME MerchantsAssumption ==
    /\ {MaxWrites, MaxMerchants, MaxShops} \subseteq Nat
    /\ MaxMerchants > 0 /\ MaxShops > 0 /\ FirstShops \subseteq 1..MaxShops
    /\ People # {} /\ Subdomains \subseteq Nat \ {0}
    /\ Modules \subseteq {"privacy", "policies", "domains", "apps", "languages", "shipping"}

VARIABLES
    writes,         \* commands so far
    merchant,       \* identity_merchant and its identity_organization
    shop,           \* identity_shop
    person,         \* identity_workforce_member, identity_credential, sessions
    category,       \* identity_shop_category
    overlay         \* identity_merchant_capability: platform_status

tenancy == <<merchant, shop, person, category, overlay>>

MerchantIds == 1..MaxMerchants
ShopIds     == 1..MaxShops

NoMerchant == [status |-> "NONE", organization |-> "NONE"]
NoShop     == [status |-> "NONE", code |-> 0, subdomain |-> 0, merchant |-> 0, category |-> None]
NoPerson   == [merchant |-> 0, member |-> "NONE", credential |-> "NONE",
               shops |-> {}, session |-> FALSE]
Open == {"ACTIVE", "DISABLED"}

ShopOpen(s)      == shop[s].status \in Open
ShopsOf(m)       == {s \in ShopIds : ShopOpen(s) /\ shop[s].merchant = m}
OwnersOf(m)      == {p \in People : person[p].merchant = m /\ person[p].member = "ACTIVE"}
Unrestricted(s, module) == overlay[s][module] = "active"

Command == writes < MaxWrites /\ writes' = writes + 1

\* Ids are the largest ever given and one more; a code is never used twice.
NextId(rows, none) == 1 + Cardinality({x \in DOMAIN rows : rows[x] # none})
\* Rows are inserted in one order.
Fresh(x, rows, none) == x \in DOMAIN rows /\ rows[x] = none
                        /\ x = CHOOSE y \in DOMAIN rows : rows[y] = none

\* The statuses an owner, and the platform, may ask for.
NewShops      == [category : Categories \cup {None}, status : Open, subdomain : Subdomains]
NewCategories == Open
Interventions == {"active", "restricted", "suspended"}

\* No shop, closed or not, has it: the keys of the table leave out only NULL.
CodeFree(code) == \A s \in ShopIds : shop[s].code # code
SubdomainFree(name, s) == \A t \in ShopIds \ {s} : shop[t].subdomain # name

\* ShopCodeForMerchant and ShopCodeForID: "shop-" and the number.
MerchantRow == [status |-> "ACTIVE", organization |-> "ACTIVE"]
ShopRow(m, code, name, c, status) ==
    [status |-> status, code |-> code, subdomain |-> name, merchant |-> m, category |-> c]
FirstShop(m) == ShopRow(m, m, 0, None, "ACTIVE")
OwnerRow(m, shops) == [merchant |-> m, member |-> "ACTIVE", credential |-> "ACTIVE",
                       shops |-> shops, session |-> FALSE]

\* Where a shop is found: its code is looked for first.
BySlug(slug) ==
    LET coded == {s \in ShopIds : ShopOpen(s) /\ shop[s].code = slug} IN
    IF coded # {} THEN coded ELSE {s \in ShopIds : ShopOpen(s) /\ shop[s].subdomain = slug}

\* One merchant was opened, and has created shops since, each with a name of its own.
OwnName(s) == IF s = 1 THEN 0 ELSE MaxMerchants + MaxShops + s
MerchantsInit ==
    /\ merchant = [x \in MerchantIds |-> IF x = 1 THEN MerchantRow ELSE NoMerchant]
    /\ \E n \in FirstShops : LET owner == CHOOSE p \in People : TRUE IN
        /\ shop = [x \in ShopIds |-> IF x <= n THEN ShopRow(1, x, OwnName(x), None, "ACTIVE") ELSE NoShop]
        /\ person = [x \in People |-> IF x = owner THEN OwnerRow(1, 1..n) ELSE NoPerson]
    /\ category = [c \in Categories |-> "NONE"]
    /\ overlay = [s \in ShopIds |-> [x \in Modules |-> "active"]]

-----------------------------------------------------------------------------
(* Merchants                                                               *)

MerchantCommand == Command /\ UNCHANGED <<category, overlay>>

\* A merchant comes with its organization, a first shop and its owner.
CreateMerchant(p) ==
    LET m == NextId(merchant, NoMerchant)  s == NextId(shop, NoShop) IN
    /\ MerchantCommand
    /\ m \in MerchantIds /\ s \in ShopIds /\ Fresh(p, person, NoPerson)
    /\ CodeFree(m)
    /\ merchant' = [merchant EXCEPT ![m] = MerchantRow]
    /\ shop' = [shop EXCEPT ![s] = FirstShop(m)]
    /\ person' = [person EXCEPT ![p] = OwnerRow(m, {s})]

MerchantMayChange(m) == merchant[m].status \in Open

\* The organization changes status with its merchant.
UpdateMerchant(m, status) ==
    /\ MerchantCommand
    /\ MerchantMayChange(m)
    /\ merchant' = [merchant EXCEPT ![m] = [status |-> status, organization |-> status]]
    /\ UNCHANGED <<shop, person>>

\* The new password ends the owner's sessions.
ResetOwnerPassword(m) ==
    /\ MerchantCommand
    /\ MerchantMayChange(m)
    /\ \E p \in OwnersOf(m) :
        /\ person[p].credential # "CLOSED"
        /\ person' = [person EXCEPT ![p].credential = "ACTIVE", ![p].session = FALSE]
    /\ UNCHANGED <<merchant, shop>>

\* Everything of the merchant is closed, revoked and logged out with it.
CloseShopsOf(m) ==
    shop' = [s \in ShopIds |-> IF s \in ShopsOf(m) THEN [shop[s] EXCEPT !.status = "CLOSED"]
                               ELSE shop[s]]
RevokePeopleOf(m) ==
    person' = [p \in People |->
        IF person[p].merchant # m THEN person[p]
        ELSE [person[p] EXCEPT !.member = "REVOKED", !.credential = "CLOSED",
                               !.shops = {}, !.session = FALSE]]

CloseMerchant(m) ==
    /\ MerchantCommand
    /\ MerchantMayChange(m)
    /\ merchant' = [merchant EXCEPT ![m] = [status |-> "CLOSED", organization |-> "CLOSED"]]
    /\ CloseShopsOf(m)
    /\ RevokePeopleOf(m)

\* The login of an owner (modelled in full by AuthSessions).
Login(p) ==
    /\ Command
    /\ person[p].member = "ACTIVE" /\ person[p].credential = "ACTIVE" /\ ~person[p].session
    /\ person' = [person EXCEPT ![p].session = TRUE]
    /\ UNCHANGED <<merchant, shop, category, overlay>>

-----------------------------------------------------------------------------
(* Shops                                                                   *)

\* Commands on shops leave the rest alone.
ShopCommand == Command /\ UNCHANGED <<merchant, category, overlay>>

CategoryUsable(c) == c # None => category[c] = "ACTIVE"

\* The owner operates every shop of the merchant.
GrantOwnerShop(m, s) ==
    \E p \in OwnersOf(m) : person' = [person EXCEPT ![p].shops = @ \cup {s}]

CreateShop(m, new) ==
    LET s == NextId(shop, NoShop) IN
    /\ ShopCommand
    /\ MerchantMayChange(m)
    /\ CategoryUsable(new.category)
    /\ s \in ShopIds /\ CodeFree(s) /\ SubdomainFree(new.subdomain, s)
    /\ shop' = [shop EXCEPT ![s] = ShopRow(m, s, new.subdomain, new.category, new.status)]
    /\ GrantOwnerShop(m, s)

\* The merchant is not asked for; the first shop of a merchant gets its subdomain here.
UpdateShop(s, name) ==
    /\ ShopCommand
    /\ ShopOpen(s) /\ SubdomainFree(name, s)
    /\ shop' = [shop EXCEPT ![s].subdomain = name]
    /\ UNCHANGED person

\* Enabling needs a merchant that is not closed; disabling does not ask.
SetShopEnabled(s, enabled) ==
    LET target == IF enabled THEN "ACTIVE" ELSE "DISABLED" IN
    /\ ShopCommand
    /\ ShopOpen(s) /\ shop[s].status # target
    /\ enabled => MerchantMayChange(shop[s].merchant)
    /\ shop' = [shop EXCEPT ![s].status = target]
    /\ UNCHANGED person

\* The last shop of a merchant is closed only with the merchant.
MayCloseAny(s) == ShopOpen(s)
MayClose(s) == ShopOpen(s) /\ Cardinality(ShopsOf(shop[s].merchant)) > 1

CloseShop(s) ==
    /\ ShopCommand
    /\ MayClose(s)
    /\ shop' = [shop EXCEPT ![s].status = "CLOSED"]
    /\ UNCHANGED person

-----------------------------------------------------------------------------
(* Categories: shops keep theirs when it is disabled or retired            *)

CategoryCommand == Command /\ UNCHANGED <<merchant, shop, person, overlay>>

SaveCategory(c, status) ==
    /\ CategoryCommand
    /\ category[c] # "RETIRED"
    /\ category' = [category EXCEPT ![c] = status]

SetCategoryEnabled(c, enabled) ==
    LET target == IF enabled THEN "ACTIVE" ELSE "DISABLED" IN
    /\ CategoryCommand
    /\ category[c] \in Open /\ category[c] # target
    /\ category' = [category EXCEPT ![c] = target]

RetireCategory(c) ==
    /\ CategoryCommand
    /\ category[c] \in Open
    /\ category' = [category EXCEPT ![c] = "RETIRED"]

-----------------------------------------------------------------------------
(* Governance                                                              *)

GovernanceCommand == Command /\ UNCHANGED <<merchant, shop, person, category>>

\* The platform restricts or suspends a module of a shop, or restores it.
Intervene(s, module, status) ==
    /\ GovernanceCommand
    /\ ShopOpen(s)
    /\ overlay' = [overlay EXCEPT ![s][module] = status]

-----------------------------------------------------------------------------

MerchantRequest(m) ==
    \/ \E status \in Open : UpdateMerchant(m, status)
    \/ ResetOwnerPassword(m) \/ CloseMerchant(m)

CategoryRequest(c) ==
    \/ \E status \in NewCategories : SaveCategory(c, status)
    \/ \E enabled \in BOOLEAN : SetCategoryEnabled(c, enabled)
    \/ RetireCategory(c)

MerchantStep ==
    \/ \E p \in People : CreateMerchant(p) \/ Login(p)
    \/ \E m \in MerchantIds :
        \/ MerchantRequest(m)
        \/ \E new \in NewShops : CreateShop(m, new)
    \/ \E s \in ShopIds, name \in Subdomains : UpdateShop(s, name)
    \/ \E c \in Categories : CategoryRequest(c)

\* The commands that change what the other parts of a shop may do.
ShopStep ==
    \/ \E m \in MerchantIds : CloseMerchant(m)
    \/ \E s \in ShopIds :
        \/ \E enabled \in BOOLEAN : SetShopEnabled(s, enabled)
        \/ CloseShop(s)

Intervention(modules) ==
    \E s \in ShopIds, module \in modules, status \in Interventions :
        Intervene(s, module, status)

MerchantsTypeOK ==
    /\ writes \in 0..MaxWrites
    /\ merchant \in [MerchantIds -> [status : Open \cup {"NONE", "CLOSED"},
                                     organization : Open \cup {"NONE", "CLOSED"}]]
    /\ shop \in [ShopIds -> [status : Open \cup {"NONE", "CLOSED"}, code : 0..(MaxShops + MaxMerchants),
                             subdomain : Nat, merchant : 0..MaxMerchants, category : Categories \cup {None}]]
    /\ person \in [People -> [merchant : 0..MaxMerchants,
                              member : {"NONE", "ACTIVE", "REVOKED"},
                              credential : {"NONE", "ACTIVE", "CLOSED"},
                              shops : SUBSET ShopIds, session : BOOLEAN]]
    /\ category \in [Categories -> Open \cup {"NONE", "RETIRED"}]
    /\ overlay \in [ShopIds -> [Modules -> {"active", "restricted", "suspended"}]]

\* A closed merchant has nothing open: no shop, owner, credential or session;
\* any other keeps a shop, and its owner operates all of them.
ClosedIsEmpty ==
    \A m \in MerchantIds :
        /\ merchant[m].organization = merchant[m].status
        /\ merchant[m].status = "CLOSED" =>
            /\ ShopsOf(m) = {} /\ OwnersOf(m) = {}
            /\ \A p \in People : person[p].merchant = m =>
                    person[p].credential = "CLOSED" /\ person[p].shops = {} /\ ~person[p].session
        /\ merchant[m].status \in Open =>
            /\ ShopsOf(m) # {}
            /\ \E p \in OwnersOf(m) : ShopsOf(m) \subseteq person[p].shops

\* An open shop is found under its code, and under its subdomain too unless that is the
\* code of another open shop.
SlugsResolve ==
    \A s \in ShopIds : ShopOpen(s) =>
        /\ BySlug(shop[s].code) = {s}
        /\ shop[s].subdomain # 0 =>
            \E t \in ShopIds :
                /\ BySlug(shop[s].subdomain) = {t}
                /\ t = s \/ shop[t].code = shop[s].subdomain

\* The documents have an opening allocate its ids and write the first shop in one
\* transaction; so the code of that shop, made from the merchant's id, must be
\* free whatever shops were created before (merchant.go:243, lifecycle.go:202).
NextMerchantCanOpen ==
    NextId(merchant, NoMerchant) \in MerchantIds => CodeFree(NextId(merchant, NoMerchant))
=============================================================================
