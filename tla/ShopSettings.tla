----------------------------- MODULE ShopSettings -----------------------------
(***************************************************************************)
(* What a merchant sets up for a shop: private applications, policies,     *)
(* privacy and languages:                                                  *)
(*   data/shop/app.go, policy.go, privacy.go, locale.go                    *)
(* Applications and policies read the platform's restriction under a lock  *)
(* in the transaction that writes; privacy reads it before its transaction.*)
(* A visitor's languages are read by two statements, with no transaction.  *)
(***************************************************************************)
EXTENDS Merchants

CONSTANTS
    Apps, Policies, PolicyTypes, Locales

\* Every opening writes a default language (merchant/lifecycle.go:125-133).
ASSUME SettingsAssumption == Locales # {}

VARIABLES
    app,            \* identity_shop_app
    policy,         \* identity_shop_policy
    privacy,        \* identity_shop_privacy: its version, 0 without a row
    permit,         \* privacy is being saved: the version that was seen
    languages,      \* default_locale and identity_shop_locale
    visit           \* a visitor's languages are being read, or were: the rows are {} until then

settings == <<app, policy, privacy, permit, languages, visit>>

NoApp    == [status |-> "NONE", shop |-> 0, secret |-> 0]
NoPolicy == [status |-> "NONE", shop |-> 0, type |-> None, number |-> 0]
NoPermit == [shop |-> 0, expected |-> 0]
NoVisit  == [shop |-> 0, default |-> None, published |-> {}]

SettingsInit ==
    /\ app = [a \in Apps |-> NoApp]
    /\ policy = [p \in Policies |-> NoPolicy]
    /\ privacy = [s \in ShopIds |-> 0]
    /\ permit = NoPermit /\ visit = NoVisit
    /\ LET source == CHOOSE x \in Locales : TRUE IN
       languages = [s \in ShopIds |-> [default |-> source, published |-> {source}]]

\* What a merchant may ask for: the published languages are of the catalogue,
\* which always has the source locale, and the default is one of them.
NewPolicies  == [type : PolicyTypes, publish : BOOLEAN]
NewLanguages == {c \in [default : Locales, published : SUBSET Locales] : c.default \in c.published}

-----------------------------------------------------------------------------
(* Applications                                                            *)

AppCommand == Command /\ UNCHANGED <<tenancy, policy, privacy, permit, languages, visit>>

AppStep(a, s, row) ==
    /\ AppCommand
    /\ ShopOpen(s)
    /\ app' = [app EXCEPT ![a] = row]

CreateApp(a, s) ==
    /\ Fresh(a, app, NoApp) /\ Unrestricted(s, "apps")
    /\ AppStep(a, s, [status |-> "ACTIVE", shop |-> s, secret |-> 1])

\* A disabled application gets a new secret too.
ResetAppSecret(a) ==
    /\ app[a] # NoApp /\ Unrestricted(app[a].shop, "apps")
    /\ AppStep(a, app[a].shop, [app[a] EXCEPT !.secret = @ + 1])

\* Disabling is not stopped by a restriction.
EnableApp(a) ==
    /\ app[a].status = "DISABLED" /\ Unrestricted(app[a].shop, "apps")
    /\ AppStep(a, app[a].shop, [app[a] EXCEPT !.status = "ACTIVE"])

DisableApp(a) ==
    /\ app[a].status = "ACTIVE"
    /\ AppStep(a, app[a].shop, [app[a] EXCEPT !.status = "DISABLED"])

-----------------------------------------------------------------------------
(* Policies: publishing one archives the published one of its type         *)

OfType(s, type) == {p \in Policies : policy[p].shop = s /\ policy[p].type = type}
NextNumber(s, type) == 1 + Cardinality(OfType(s, type))

Archived(s, type) ==
    [p \in Policies |-> IF p \in OfType(s, type) /\ policy[p].status = "PUBLISHED"
                        THEN [policy[p] EXCEPT !.status = "ARCHIVED"] ELSE policy[p]]

PolicyCommand == Command /\ UNCHANGED <<tenancy, app, privacy, permit, languages, visit>>

PolicyStep(s) == PolicyCommand /\ ShopOpen(s)

SavePolicy(p, s, c) ==
    /\ PolicyStep(s)
    /\ Fresh(p, policy, NoPolicy)
    /\ c.publish => Unrestricted(s, "policies")
    /\ LET row == [status |-> IF c.publish THEN "PUBLISHED" ELSE "DRAFT",
                   shop |-> s, type |-> c.type, number |-> NextNumber(s, c.type)] IN
       policy' = [IF c.publish THEN Archived(s, c.type) ELSE policy EXCEPT ![p] = row]

PublishPolicy(p) ==
    /\ policy[p].status = "DRAFT"
    /\ PolicyStep(policy[p].shop)
    /\ Unrestricted(policy[p].shop, "policies")
    /\ policy' = [Archived(policy[p].shop, policy[p].type) EXCEPT ![p].status = "PUBLISHED"]

-----------------------------------------------------------------------------
(* Privacy and languages                                                   *)

\* The handler reads the restriction, with what the merchant last saw;
BeginPrivacy(s) ==
    /\ Command
    /\ permit = NoPermit
    /\ Unrestricted(s, "privacy")
    /\ \E seen \in 0..privacy[s] : permit' = [shop |-> s, expected |-> seen]
    /\ UNCHANGED <<tenancy, app, policy, privacy, languages, visit>>

\* the repository reads the shop and the version, not the restriction.
SavePrivacy ==
    LET s == permit.shop IN
    /\ permit # NoPermit
    /\ privacy' = IF ShopOpen(s) /\ privacy[s] = permit.expected
                  THEN [privacy EXCEPT ![s] = @ + 1] ELSE privacy
    /\ permit' = NoPermit
    /\ UNCHANGED <<writes, tenancy, app, policy, languages, visit>>

ReplaceLanguages(s, c) ==
    /\ Command
    /\ ShopOpen(s)
    /\ languages' = [languages EXCEPT ![s] = c]
    /\ UNCHANGED <<tenancy, app, policy, privacy, permit, visit>>

ShownAsRead(default, rows) ==
    [default |-> default, published |-> IF rows = {} THEN {default} ELSE rows]

\* PublishedFromRows: what a visitor may choose from, and the language shown otherwise.
Shown(default, rows) ==
    LET published == IF rows = {} THEN {default} ELSE rows IN
    [default |-> IF default \in published THEN default ELSE CHOOSE x \in published : TRUE,
     published |-> published]

\* A visitor's request reads the shop with its default,
ReadDefault(s) ==
    /\ Command
    /\ visit = NoVisit /\ ShopOpen(s)
    /\ visit' = [shop |-> s, default |-> languages[s].default, published |-> {}]
    /\ UNCHANGED <<tenancy, app, policy, privacy, permit, languages>>

\* and by another statement the rows, of a save that may have come in between.
ReadRows ==
    LET shown == Shown(visit.default, languages[visit.shop].published) IN
    /\ visit # NoVisit /\ visit.published = {}
    /\ visit' = [visit EXCEPT !.default = shown.default, !.published = shown.published]
    /\ UNCHANGED <<writes, tenancy, app, policy, privacy, permit, languages>>

-----------------------------------------------------------------------------

AppRequest(a) ==
    \/ \E s \in ShopIds : CreateApp(a, s)
    \/ ResetAppSecret(a) \/ EnableApp(a) \/ DisableApp(a)

PolicyRequest(p) ==
    \/ \E s \in ShopIds, c \in NewPolicies : SavePolicy(p, s, c)
    \/ PublishPolicy(p)

SettingsStep ==
    \/ \E a \in Apps : AppRequest(a)
    \/ \E p \in Policies : PolicyRequest(p)
    \/ \E s \in ShopIds :
        \/ ShopOpen(s) /\ BeginPrivacy(s)
        \/ ReadDefault(s)
        \/ \E c \in NewLanguages : ReplaceLanguages(s, c)
    \/ SavePrivacy \/ ReadRows

SettingsTypeOK ==
    /\ app \in [Apps -> [status : {"NONE", "ACTIVE", "DISABLED"}, shop : 0..MaxShops,
                         secret : Nat]]
    /\ policy \in [Policies -> [status : {"NONE", "DRAFT", "PUBLISHED", "ARCHIVED"},
                                shop : 0..MaxShops, type : PolicyTypes \cup {None}, number : Nat]]
    /\ privacy \in [ShopIds -> Nat]
    /\ permit \in [shop : 0..MaxShops, expected : Nat]
    /\ languages \in [ShopIds -> [default : Locales, published : SUBSET Locales]]
    /\ visit \in [shop : 0..MaxShops, default : Locales \cup {None}, published : SUBSET Locales]

\* A shop shows one policy of each type, no two have the same number, and the language
\* a visitor is shown is one of those the visitor may choose, even if it was read before
\* a save and they were read after it.
SettingsSelected ==
    /\ \A p, q \in Policies : p # q /\ policy[p].shop = policy[q].shop
                                    /\ policy[p].type = policy[q].type /\ policy[p] # NoPolicy =>
            /\ ~(policy[p].status = "PUBLISHED" /\ policy[q].status = "PUBLISHED")
            /\ policy[p].number # policy[q].number
    /\ visit.published # {} => visit.default \in visit.published
=============================================================================
