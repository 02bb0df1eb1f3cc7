# TLA+ for liveshop-identity

This directory specifies, model-checks and proves properties of the business
backend under `src/business/backend/`: the Go service that keeps the accounts,
sessions, shops, subscriptions and fulfilment data of the Liveshop merchants in
MySQL. It is not complete: what is left out is named at the end. All paths below
are relative to `src/business/backend/`; `I` stands for `internal/identity`.

The service is a set of HTTP and gRPC handlers without shared memory. What makes
it hard is the database they share: every command is one MySQL transaction, and
the correctness of the system is a matter of which rows a transaction locks, what
it read before it waited for a lock, and what is left when it fails half way. The
models are therefore models of transactions: as atomic steps where the first lock
orders them, as the statements between two waits for a lock where it does not,
and as requests of several transactions where the logic layer makes them so.

## Inventory

| Component | Code | State | Operations | What is hard | What makes it correct |
|---|---|---|---|---|---|
| Workforce authentication | `I/data/mysql/auth.go`, `I/capability/authendpoint`, `I/app/authendpoint` | `identity_session`, `identity_refresh_token` | Login, RotateRefresh, Logout, SwitchContext | races of logins, refreshes, logouts and administrative commands; replays of used tokens | one live token per live session; a token rotates once; a replay ends its family; no session of a disabled account or of an old password |
| Account life cycle | `I/data/mysql/user_lifecycle.go`, `I/biz/user_lifecycle.go` | `identity_subject`, `identity_workforce_member`, `identity_credential` | ChangeUserStatus, ResetCredential, ChangeOwnCredential, RevokeSessions | lock order against logins; versions of two rows; idempotency keys | subject and member agree; grants follow the access version; sessions end with the password |
| Login codes, guests, customers | `I/data/auth/repository.go`, `I/capability/auth`, `I/data/mysql/auth.go` | `identity_auth_otp_challenge`, customer subjects, SHOP credentials | Request, Verify, login with a verified challenge, Guest | clocks read before locks; a shop that closes between two steps; upgrade of a guest whose session has moved on | one code, one session; only the newest code counts; bounded guesses; a customer has one credential |
| Platform operators and grants | `user_lifecycle.go`, `I/data/mysql/authorization.go` | platform members, `identity_subject_grant`, `identity_authorization_role`, `..._domain` | CreatePlatformOperator, ChangeUserStatus, ResetCredential, ReplaceSubjectGrants, PutRole, SetRolePolicy | counting and role checks in snapshots; two lock orders | holders of the system role are active; the platform keeps an operator; permissions never change silently |
| Transactions and idempotency | `I/data/mysql/directory.go:691-732` | `identity_idempotency` | transaction, reserveIdempotency, completeIdempotency | the same key twice at once; deadlock victims | a key works once; every transaction ends |
| Workforce directory | `directory.go`, `I/biz/directory.go` | members, organization units, access | ProvisionMember, ReplaceMemberAccess, UpdateMember, CreateOrganizationUnit | access version against grants and open sessions | a member's access matches its unit and shops |
| Effective authorization, capabilities | `authorization.go`, `I/biz/capability.go`, `I/app/capabilityendpoint` | read only, over the tables above | effective, ValidateCurrentAuthorization | a capability that is older than a revocation | an accepted capability confers nothing that has been taken away |
| Registry projection | `I/data/mysql/registry_projection.go`, `I/app/registrysync` | `identity_*_projection` | ReplaceRegistrySnapshot | snapshots out of order, retries, an empty projection | revisions never go back; one revision has one content |
| Entitlement projection | `I/data/mysql/entitlement_projection.go`, `I/app/entitlementsync` | `identity_entitlement_projection(_state)` | ReplaceEntitlementSnapshot, Once | staleness; the first error stops the other merchants | revisions never go back; a stale projection confers nothing |
| Subscriptions | `I/data/subscription`, `I/capability/subscription`, `I/application/merch/logic/subscription.go` | plans, orders, assignment, quota and permission entitlements | plan commands, purchase, settlement, cancellation, assignment | a request is several transactions; the payment service; READ COMMITTED; a first write nobody can lock | one default plan; nothing opened unpaid or twice; entitlements follow the plan |
| Shops | `I/data/shop`, `I/capability/shop` | shops, domains, applications, policies, categories, locales, privacy | CreateShop, UpdateShop, SetShopEnabled, CloseShop and the life cycles of the parts | the last shop; a DNS look-up outside the transaction; torn reads; the platform's restrictions | a merchant keeps a shop; one primary domain, one published policy of a type; closed is final |
| Merchants and governance | `I/data/merchant`, `I/data/merchant_governance` | merchants, owners, restrictions of modules | CreateMerchant, UpdateMerchant, ResetOwnerPassword, CloseMerchant, Intervene | ids and codes from two sequences; closing while anything is in progress | a closed merchant has no open shop, active owner or session; the next one can open |
| Fulfilment | `I/data/fulfillment` | shipping rules and presets, shipments, after-sales cases, complaints | save, switch, retire; ship, trace, close; review, receive, refund | a write whose checks precede its transaction | one default preset, one parcel of an order; final states stay final |
| Customers | `I/data/customer` | addresses, wishlists | create, change, set default | the default address, limits | one default |
| Customer service | `I/data/customer_service` | accounts | save, delete | two shops naming one contact | one account of a contact |
| Risk events | `I/data/risk` | an append-only log | record, list | | |
| Adapters | `I/application`, `I/app/grpc*`, `I/common` | none | decode, call, map errors | | |
| Notification client | `I/infra/notification` | none | send a code | failure after commit | |
| Start, migrations, tools | `cmd`, `migrations` | | run once | | |
| Web frontends | `src/business/frontend-*`, `src/business/ui` | browser state | | | |

The components meet in the tables. An administrator's command on an account ends
the sessions that logins created (shared rows `identity_subject`,
`identity_workforce_member`, `identity_credential`); a shop that is disabled
concerns the logins of its customers; grants carry the access version that a
status change moves; the domain revision tells the holders of a capability that
something changed. The entitlement of a merchant is written by subscriptions, fetched and
stored by a timer of every replica, and decides what roles may confer; the
restrictions of the platform are read by the commands on domains, applications,
policies, privacy and shipping; closing a merchant or a shop concerns everything
kept for it. Calls between components are function calls, mostly inside one
transaction; there is no message queue (`identity_outbox` rows are written and
nothing in this repository reads them).

## Modules

| Module | What it is |
|---|---|
| `AuthSessions` | the account and its sessions, one action per committed transaction; also the abstract specification of the next module |
| `AuthSessions_proofs` | theorems about `AuthSessions` |
| `AuthTransactions` | the same transactions lock by lock; shown to implement `AuthSessions` |
| `AuthTransactions_proofs` | the proof that it implements `AuthSessions` |
| `OtpLogin` | login codes, guests and customers, one action per transaction |
| `OtpLogin_proofs` | theorems about `OtpLogin` |
| `PlatformOperators` | platform operators and their grants, in steps between two lock waits |
| `PlatformOperators_proofs` | theorems about `PlatformOperators` |
| `Projections` | the read models of entitlements and of the module registry, fetched and stored by several replicas |
| `Authorization` | extends `Projections`: members, units, roles, grants, sessions, and the capabilities issued from them |
| `Subscriptions` | plans, purchases, assignments and entitlements of one merchant, request by request |
| `Subscriptions_proofs` | theorems about `Subscriptions` |
| `Authorization_proofs` | theorems about `Authorization` and `Projections` |
| `Merchants` | merchants, shops, owners, categories and the platform's restrictions |
| `Domains`, `ShopSettings`, `Fulfilment`, `CustomerBook` | extend `Merchants`: what is kept for a shop |
| `Backoffice` | composes the four and `Subscriptions` around `Merchants` |
| `Merchants_proofs` | lemmas about merchants and shops, whatever part goes on around them |
| `Backoffice_proofs` | theorems about `Backoffice` and its parts, `Subscriptions` among them |
| `MC*` | instances for TLC: symmetry, and a bound on the commands that commit |

In each module some definitions have a neighbour that no action uses
(`RevokeWithoutTokens` beside `Revoke`): the same definition with a plausible
fault in it. Putting the neighbour in its place must make a named property fail;
`PROJECT.json` lists which under "mutants".

### AuthSessions

A table is a function from primary key to row; an absent row has status
`"ABSENT"`. `Login`, `RotateRefresh`, `ReuseDetected`, `Logout` and
`SwitchContext` are the five functions of `auth.go`; `ChangeUserStatus`,
`ResetCredential`, `ChangeOwnCredential` and `RevokeSessions` those of
`user_lifecycle.go` in merchant scope. A rejected or rolled back transaction and
a replay from the idempotency ledger change nothing and are stuttering steps.
`now` is the database clock; `proved`, `parent` and `reused` are history.

- A *family* is the session its login created: the family id is fresh in every
  login (`I/app/authendpoint/auth.go:149,169`) and no other code writes it.
- The choice of a shop at login and the content of a switched context are left
  out: they can refuse the request and change nothing the properties mention.
- `SelfUpdateAllowed` says whether the server runs
  `UPDATE identity_session ... WHERE ... (SELECT ... FROM identity_session ...)`.
  MySQL, which `deploy/compose.local.yml` starts in version 8.4, refuses it with
  error 1093; other servers of the same protocol run it. Both are checked.

### AuthTransactions

A request occupies a slot (a handler with its connection). Its record in `tx`
says at which statement it is; `LockList` gives the rows of that statement, table
by table, `LockRow` takes one, and the statement runs when none is missing. A
plain SELECT reads committed rows, a locking one the newest; writes are kept in
the record and become visible at COMMIT, together with the release of all locks.
`DeadlockVictim` is InnoDB's deadlock detector, `RollBack` everything else that
ends a transaction: an error, the end of the request's context, a lost connection,
a crash of the service.

- The lock sets are the smallest any query plan takes. A plan that scans more
  rows removes interleavings, so what holds here holds there. Liveness is the
  exception in principle, but more locks only mean more deadlocks, which are
  detected in the same way.
- `sessionIndex` stands for the gap an `UPDATE ... WHERE subject=?` locks: an
  insert of a session of that subject waits for it.
- Arguments such as expected versions are read when a request begins and may be
  stale when it is served.
- Time stands still; expiry is the subject of `AuthSessions`.

### OtpLogin

Shops of one ACTIVE merchant; `Request`, `Verify...`, `Guest`, `Redeem` are one
transaction each. `Redeem` is the login with a verified challenge in its three
forms: `Returning`, `Upgrade` of a guest and `Register`. A handler reads its clock
before it waits for its lock, so it works with some time of `Clock`, up to
`MaxLag` old. The statuses of customers' subjects never change after creation in
this code, refresh tokens are left to `AuthSessions` (`EndSession` covers a
logout), a failed delivery of the code changes nothing, and a code for another
shop is a stuttering step.

### PlatformOperators

Every step is a stretch of a transaction between two waits for a lock. Under
REPEATABLE READ a plain SELECT reads the snapshot that the first one opened: so
the count of active operators in `ChangeUserStatus` and the role statuses in
`ReplaceSubjectGrants` may be old, while locked rows are current. Subject and
member of an operator are folded into one row, because `ChangeUserStatus` is the
only writer of either status and moves both versions. An absent role counts as
DISABLED; the shared locks of foreign keys on role rows are left out (more
interleavings). Sessions that a status change ends are left to `AuthSessions`.

### Projections and Authorization

A replica fetches a snapshot and stores it later (`FetchEntitlement`,
`StoreEntitlement`, `FetchRegistry`, `StoreRegistry`), so that stores come late
and out of order; `Decide` is the comparison of revisions that both stores make,
`GiveUp` a call that fails or times out. `entitled` and `released` are the
histories of the two sources, `domain` is the row of
`identity_authorization_domain` that both the commands and a store move.

`Authorization` has one action per command; `UpdateMember` and
`ReplaceSubjectGrants` are two (`BeginUpdate`, `CommitUpdate`), because their
role checks read a snapshot opened before the lock of the domain. A capability is
resolved by `ReadSession`, `ReadRow`, `ReadUnits`, `ReadShops` and `Issue`, one
per statement of the code, with anything in between; `Accepted` is
`ValidateCurrentAuthorization`. One capability is followed. All permissions are
of one resource, so a scope kind stands for the scope of that resource.
`UpdateMember` has three outcomes (`UpdateGrants`): new roles are written at the
next access version; other shops or units move that version and carry the grants
along; a mere rename, or nothing new, touches neither grants nor the domain, so
that capabilities issued before it stay accepted.

### Subscriptions

`request` holds what each request in progress knows; `At` is the place in
`subscription.go` or `logic.go` it has reached. A purchase is `BeginPurchase`,
`CreateOrder`, `Charge`, `AttachPayment` and perhaps `Activate`; a settlement
`BeginSettle`, `AskStatus`, `Activate`; then `ReadPolicy`, `ReadRevision`, `Apply`
and `Insert` for each entitlement. `OpenMerchant` and `BeginAssign`, `Assign` are
the platform's side, which expects no revision (`fresh` is FALSE). `Crash` ends
a request between any two transactions. Command keys are left out: a repeated
key repeats an answer, and what a stopped request has not done its retry does not
do either. `Pay` is a payer, at any time.

### Merchants and what is kept for their shops

Every command locks the row of the merchant or shop it decides on first, so it
is one step; the exceptions are two steps or more: the test of a domain
(`BeginTest`, `Answer`, `FinishTest`), privacy (`BeginPrivacy`, `SavePrivacy`)
and the shipping writes (`BeginShippingWrite` and the write), whose checks come
before their transaction. Versions are kept where another step depends on them.
`Merchants` allocates ids as the code does, from the largest id, and gives codes
by merchant id at an opening and by shop id later. Subdomains are the names that
`UpdateShop` and `CreateShop` may choose; `BySlug` looks a shop up under its code
first and then under its subdomain. The commands' ledgers of keys and answers are
left out: the operators that end in `Command` only count what commits.
After-sales and complaints are filed by another service: the first shop may have
some. A visitor's languages are read by two statements outside a transaction
(`ReadDefault`, `ReadRows`), with saves in between; `Shown` is what is made of the
two. That an order is shipped once is the table's unique key (`Shipped`).

`Backoffice` lets a behaviour be about one part (`part`), while shops are
closed, switched and restricted under it: the parts share no other state. Its
properties say once, over all parts, what is to hold of each.

## Runs

| Run | Module | Question | Answer |
|---|---|---|---|
| `sessions` | AuthSessions | does any order of nine operations on an account break a session, token, password or grant? | no |
| `sessions_mysql` | AuthSessions | does a replayed token end its session on MySQL? | no: finding |
| `transactions` | AuthTransactions | do two overlapping transactions ever have an effect that no serial order has? | no |
| `transactions_live` | AuthTransactions | can a request wait for ever? | no |
| `otp` | OtpLogin | do codes, guests and customers stay consistent with late clocks and closing shops? | yes |
| `otp_inactive` | OtpLogin | does a disabled shop get no new session? | it does: finding |
| `operators` | PlatformOperators | do grants, statuses and revisions stay together under two concurrent commands? | yes |
| `operators_skew` | PlatformOperators | does the platform keep an active operator? | no: finding |
| `authorization` | Authorization | does an accepted capability confer only what its subject may do now, and are the projections snapshots that never go back? | yes |
| `backoffice` | Backoffice | does any part of the back office lose uniqueness, pay, verification or finality while shops close under it? | no |
| `assignment` | Subscriptions | do entitlements follow an assignment by the platform? | no: finding |
| `shop_codes` | Backoffice | can the next merchant always be opened? | no: finding |

Bounds, and why they are enough:

- `sessions`: one account (the rows of two accounts never meet), two sessions
  (one that acts, one that is acted upon), four tokens (two logins and two
  rotations, or a chain of three rotations), three administrative commands, two
  passwords, one clock tick, which is enough to expire.
- `transactions`: two requests at a time, since a conflict of row locks has two
  parties; two sessions, two tokens and two administrative commands with
  different or the same key. The context switch is left to `transactions_live`.
- `transactions_live`: no symmetry, as it checks a liveness property; one
  session, two tokens.
- `otp`: two shops, one destination known to both, two persons, three sessions
  and two codes, three ticks with a time to live of two. `MaxAttempts` is 2, so
  that the last permitted guess differs from the first.
- `operators`: the bootstrap administrator and one more, two roles, two keys per
  command, two handlers, one role change. `FewCommits` ends the exploration
  after three committed commands; the fourth is still taken and checked.
- `authorization`: an owner and one employee, who is there at the start or is
  provisioned; two shops, one unit, likewise; one role, two permissions, two
  replicas. `MCBudgets` splits the exploration into four
  slices, each of which spends its steps on one kind of trouble: two commands
  between the reads of an issuing request; a store and a command; two fetches
  stored in the wrong order; three ticks of age. A violation of the properties
  needs the change, the stale read and the use: within these. The slack
  of a late store (`CallTimeout`) is one tick, the entitlement's staleness none
  and the registry's two, so that each can be exceeded alone.
- `backoffice`: two merchants, up to three shops, the first merchant with one or
  two; two rows of every kind that is selected among; five commands in the
  parts with few rows and three (`MaxWrites` less `Shorter`) in the others, after
  initial states that already hold verified domains, after-sales and complaints.
  `Subdomains` has the code of the second shop and a name that no code has, so a
  name can hide behind a code and can be taken. One visitor's language is read.
  Subscriptions: two plans, orders, payments and requests at a time, three
  commands after the opening and one tick, with stops. Rows are inserted in one
  order (`Fresh`), which is a symmetry of their ids.
- `assignment`, `shop_codes`: the smallest instances that show the finding.

Deadlock checking is off everywhere: the supplies of ids, keys and time run out,
which the program's do not.

Fairness (`FairSpec` in `AuthTransactions`): weak for `Statement`, because a
handler whose locks are held runs on; strong for `LockRow`, because InnoDB serves
a lock's waiters in a queue, so that a row that keeps being released is granted in
the end; weak for `DeadlockVictim`, because the detector finds every cycle.
Nothing is assumed of arrivals or of connections that drop. The other
modules state no fairness: their properties are safety properties.

## What is proved

TLC checks the instances above; the modules ending in `_proofs` prove theorems for
every value of the constants, from the named assumptions of the modules they
extend. Each invariant and each action property of a passing run is stated by a
theorem. Few of them are inductive as they stand; what follows says, per module,
what had to be added and why.

**`AuthSessions_proofs`**: any number of accounts, sessions, tokens, keys and clock
ticks, either server. `IInv` joins the safety properties with what carries them:
that a live session has exactly one live token survives a rotation only if the
token's session exists and the new token is not referenced (`ReferencesHold`);
that a replay is fatal survives one only if the rotated token's session is live
and the replayed token is USED; that disabled accounts have no session survives an
enabling only if subject and member agree (`SubjectAndMemberAgree`). The lemmas
`RevokeEffect` and `RevokeKeeps` say once what revoking a set of sessions does and
keeps; seven of the operations revoke. `ReuseIsFatal` assumes
`SelfUpdateAllowed`; on the other server the property is false (finding 1).
`EndedStaysEnded` is an action property.

**`AuthTransactions_proofs`**: any number of requests at a time, either server.
`Refinement` says that every COMMIT is one step of `AuthSessions` and every other
statement a stuttering step. The invariant `IInv` is two-phase locking spelt out:
for each request, `Facts` says how far it is, and that what its statements have
read is still so, because it holds the rows in which it was read. Three lemmas do
the work: a statement that is ready has locked its rows; a step writes only rows it
has locked or rows of ids it drew (`Respects`); and what spares the rows of another
request falsifies nothing that request has found (`RespectsSpares`, `FactsKeep`). The
delicate part is what has no row yet: new sessions are kept out by the lock of the
subject's index entries, and two requests never draw the same id (`DrawnOnce`).
`AccountsStaySafe` then carries the invariant of `AuthSessions` over to the
interleaved statements: no live session of a disabled account or of an outdated
password, however the statements fall. There time stands still, as in the model.

**`OtpLogin_proofs`**: any number of shops, destinations, codes, persons and
sessions, any lag of the clocks, any limits. To the properties, `IInv` adds that a
consumed code was consumed in time, that a session's opener names it back
(`SessionOK`), and that a guest has one live session: without the last, an upgrade
of a guest could leave a session behind whose kind no longer fits.

**`PlatformOperators_proofs`**: any number of operators, roles and concurrent
commands. What a command has read in its snapshot may be old and `IInv` says
nothing of it; `StillTrue` says what it has read under a lock: a change of status
that waits for the domain holds its operator's row, so the version is still that
one and, to be disabled, the operator still lacks the system role. That is what
makes `HoldersActive` inductive. The count of active operators is read in a
snapshot and protected by no lock, so `SomeOperatorIsActive` fails (finding 3).
`LastOperatorStays` says how far: it holds in every behaviour in which no two
disablings are past their checks at the same time (`OneDisabling`), whatever else
overlaps. A lock that admits one disabling at a time would keep the promise.

**`Authorization_proofs`**: any number of subjects, roles, shops, units, replicas
and permissions. `Inv` has four parts.

- `ProjectionInv` adds that every snapshot on its way is one its source had
  (`Genuine`); it stays so because the sources only append (`SourcesGrow`), and a
  late one is then either refused or newer: `SnapshotsAreWhole`, `NeverBack`.
- `GrantInv` gives `GrantsKeepPace`; every command that moves a member is one use of
  the lemma `OneMemberMoves`.
- `AgeInv` says that what is stored was in force at most `CallTimeout` before the
  time it is stored with. With the staleness check at use it gives
  `EntitlementsRunOut`: what a subscription took away is in no accepted capability
  once both times have passed.
- `AccessInv` gives `CapabilityIsCurrent`. A capability and a half-finished
  resolution are compared with two things: `Standing`, what roles or ownership are
  worth now, which does not change while neither revision does (`Weighed`); and the
  scope of the session (`Scoped`), which ends or moves its context before a
  member's shops or units shrink (`SessionForward`). No statement of the resolution
  needs to see what the others saw: the versions in the capability do that.

**`Subscriptions_proofs`**: any number of plans, orders, payments, commands and
requests in progress.

- `OneDefault` from `PlanInv`, the types of the plans with the property.
- `OpeningsWerePaid`. The rows do not say why an order may become PAID; the requests
  do. `RequestsKnow`: one that has opened a payment knows one of its own order, one
  about to activate has a paid payment for it. Payments stay with their order and
  stay paid, and `PaymentsMatch` carries the number on an order to the request that
  settles it.
- `OpenedOnce`. `OpenInv` lets the version of the assignment count the openings, and
  bounds the time left by their number times the longest duration; a request that
  is to assign carries days it read earlier, so these must be bounded, too.
- `TypeInv`, with `Carries`: what a request read of a plan steps ago is fit to be
  written, as a plan once saved stays and its policies are numbered from 1.

**`Merchants_proofs`** has the lemmas on merchants and shops that every part
stands on. `TenancyInv` adds to `ClosedIsEmpty` that ids are dense, so that the next
one is free (`NextIdIsNext`); that a merchant has one owner, so that a new shop goes
to the person who has the others; and that revoked people have lost everything.
`SlugsApart` says that codes differ and subdomains differ, each within its kind, from
which `SlugsResolve` follows.

**`Backoffice_proofs`**: the theorems of the whole. `SubscriptionStep` says that a
step of `Backoffice` is one of `Subscriptions` or leaves its variables alone, so
`PlansHaveOneDefault`, `PurchasesWerePaid` and `PurchasesOpenOnce` hold in the
composition; `ClosedAreEmpty` is the same for `TenancyInv`. The rest is proved part
by part:

- Domains: versions only grow and a domain keeps its shop, host and scene
  (`DomainsMove`), so a row with the version that a look-up was answered for is the
  row it was answered for: `VerifiedByAnswers`.
- Settings: the policies of a shop and type have numbers up to their count, so a
  new one has a number of its own; a publication archives the other in one step.
  A visitor's language is among the choices however old the default is that was
  read (`VisitInv`): `Shown` replaces a default that the rows no longer have.
- Shipping: a write finds its row as it was seen or is refused; who becomes the
  default takes the flag from the others of the shop. Parcels are one for an
  order, after-sales stay readable (nothing refunded beyond what was asked).
- The book: whoever makes an address the default clears the customer's others.
- `SelectionsUnique` and `RowsAreReadable` put these together.
- `EndedForGood`: each command asks for the row, or its shop, in the step that
  writes, except a shipping write, which is on its way when the shop may close.
  `SeenInv` says why that is no gap: the write saw its row at the shop it names, or
  the row has changed since and the version refuses it; and the shop is asked again.

Assumptions worth naming: `MerchantsAssumption` has somebody in `People`, as an
opening writes an owner; `SettingsAssumption` has a language, as it writes one;
`BackofficeAssumption` says that `None` is no order and that there is a longest
duration of a plan. TLC evaluates all of them on every run.

What stays with TLC: `EveryRequestEnds`, a liveness property under fairness; and
the properties of the findings that the code does not have.

## Findings

1. **A replayed refresh token leaves its session alive** (`sessions_mysql`,
   `auth.go:399`). The revoking UPDATE reads the table it updates; MySQL refuses
   it, the transaction rolls back, `docs/domain/不变量.md:13` promises otherwise.
2. **A disabled shop still gets customer sessions** (`otp_inactive`,
   `auth.go:105`). The login with a verified challenge does not read the status
   of the shop; `docs/domain/不变量.md:12` promises otherwise.
3. **Two operators can disable each other** (`operators_skew`,
   `user_lifecycle.go:281`). Both count the active operators in their snapshots;
   `docs/domain/状态机.md:20` promises that the last one is not disabled.
4. **An assigned plan does not reach the entitlements** (`assignment`,
   `I/application/admin/logic/logic.go:608`). The platform's side names no
   expected revision, so once the opening of the merchant has written revision 1
   every assignment commits and its entitlements are refused;
   `docs/domain/subscription/事务.md:51` and `docs/domain/merchant/事务.md:8` promise
   otherwise. The merchant's own purchase reads the revision and succeeds.
5. **A second shop can take the code of the next merchant** (`shop_codes`,
   `I/data/merchant/lifecycle.go:124`). "shop-k" is the code of merchant k's first
   shop and of any further shop with id k; codes are unique, and the opening fails
   for ever since it spends no id. `docs/domain/merchant/事务.md:3` promises an
   opening with a shop.

Two more disagreements with the documents were met and are not kept as runs: the
credential of the last operator without a system role can be reset
(`user_lifecycle.go:350` against `不变量.md:25`), and the victim of a deadlock is
not retried (`directory.go:691` against `事务.md:42`).

A third is a race that the models contain and no run asks for.
`docs/domain/subscription/事务.md:31` promises that of two concurrent updates of one
quota only the one with the matching expected revision succeeds. Of two first
configurations, which both expect revision 0, neither finds a row to lock under READ
COMMITTED (`I/data/subscription/quota.go:118`), both succeed, and the upsert of
the second replaces the first at the same revision. `Apply` and `Insert` of
`Subscriptions` can be taken in that order; a run for it would repeat the setting
of `assignment`.

## Plan

Done, in this order: sessions, transactions, codes and operators; the projections
and authorization; subscriptions; merchants, shops and what is kept for them; then
the proofs, of every safety property of a passing run and of the refinement. Left:

1. Of the hazards without a property, those that a small addition would cover: the
   second payment of one pending order, and a disabled shop in a capability.
2. The converse of `OpeningsWerePaid` under fairness, that a paid order is opened in
   the end if its request is repeated, and liveness of a sync: a replica that keeps
   running stores the newest snapshot. The latter needs the timer's period against
   the timeout of a call. Both stay with TLC.
3. A run for the two first configurations of a quota.

## Not modelled

- `UpdateProfile` of a merchant writes texts that no modelled step reads; the
  subdomain is the only text of a shop that is modelled.
- Risk events are an append-only log that is only queried.
- Adapters: decoding, presentation and the mapping of errors. The order in which
  the logic layer calls the components is in the modules.
- The notification client is one call whose failure changes nothing; process
  start, migrations and command line tools run once, and what they leave are the
  initial states; the web frontends decide nothing the backend does not decide
  again.
- The text of answers, audit and outbox rows (written with random ids and read by
  nobody here), lists and own-account views.
- The stored answers of idempotency ledgers outside `AuthTransactions`: a repeated
  key is a stuttering step.
