---------------------------- MODULE Subscriptions ----------------------------
(***************************************************************************)
(* The plans, and what one merchant gets of them:                          *)
(*   data/subscription/plan.go         the catalogue of plans              *)
(*   data/subscription/order.go        purchases; assignment.go            *)
(*   data/subscription/permission_entitlement.go and quota.go              *)
(*   application/merch/logic/subscription.go  purchase and settlement      *)
(*   application/admin/logic/logic.go  opening a merchant, assigning plans *)
(* A transaction is one step; a request is several, each of them visible,  *)
(* and the process may stop between any two.  A repeated command key only  *)
(* repeats the first answer, so keys are left out: what a stopped request  *)
(* has not done is not done by its retry either.  The payment service is   *)
(* outside: it may be paid at any time.  The content of an entitlement is  *)
(* the plan and the policy revision it was taken from.                     *)
(*                                                                         *)
(* An operator no action uses is its neighbour with a fault in it.         *)
(***************************************************************************)
EXTENDS Naturals, FiniteSets

CONSTANTS
    Plans, Orders, Payments,
    Slots,          \* requests that may be in progress at a time
    Durations,      \* duration_days, in ticks; 0 is for ever
    MaxTime, MaxCommands,   \* bounds: ticks; commands after the opening
    Crashes,        \* whether requests may stop half-way
    None

VARIABLES
    now,
    plan,           \* subscription_plan, with its policy_revision
    order,          \* subscription_order
    payment,        \* payments at the payment service
    assignment,     \* subscription_merchant_assignment
    assigns,        \* assignments by the platform so far
    fact,           \* the permission entitlement and the quota of the merchant
    opened,         \* whether the merchant was created
    request,        \* requests in progress
    commands        \* commands so far

purchase  == <<order, payment>>
merchant  == <<assignment, assigns, fact, opened>>
vars      == <<now, plan, purchase, merchant, request, commands>>

Kinds == {"permissions", "quota"}
NoPlan == [status |-> "NONE", default |-> FALSE, priced |-> FALSE, days |-> 0, policy |-> 0]
NoOrder == [status |-> "NONE", plan |-> None, days |-> 0, pay |-> None]
NoPayment == [order |-> None, paid |-> FALSE]
NoAssignment == [plan |-> None, expires |-> None, version |-> 0]
NoFact == [revision |-> 0, of |-> None]

Active(p) == plan[p].status = "ACTIVE"
Kept == {p \in Plans : plan[p].status \notin {"NONE", "RETIRED"}}

Init ==
    /\ now = 0
    /\ \E saved \in SUBSET Plans, days \in Durations : \E d \in Plans :
        /\ saved # {} => d \in saved
        /\ plan = [p \in Plans |->
            IF p \notin saved THEN NoPlan
            ELSE [status |-> "ACTIVE", default |-> p = d, priced |-> p # d,
                  days |-> IF p = d THEN 0 ELSE days, policy |-> 1]]
    /\ order = [o \in Orders |-> NoOrder]
    /\ payment = [y \in Payments |-> NoPayment]
    /\ assignment = NoAssignment /\ assigns = 0
    /\ fact = [k \in Kinds |-> NoFact]
    /\ opened = FALSE
    /\ request = [r \in Slots |-> None]
    /\ commands = 0

Tick == /\ now < MaxTime /\ now' = now + 1
        /\ UNCHANGED <<plan, purchase, merchant, request, commands>>

-----------------------------------------------------------------------------
(* The catalogue.  Commands on plans are serialised by the plan guard.     *)

Command == commands < MaxCommands /\ commands' = commands + 1

Change == Command /\ UNCHANGED <<now, purchase, merchant, request>>

\* SavePlan leaves the other plans' default flag alone unless it sets its own.
PutPlanBeside(p, row) == plan' = [plan EXCEPT ![p] = row]
PutPlan(p, row) ==
    plan' = [q \in Plans |-> IF q = p THEN row
                             ELSE IF row.default THEN [plan[q] EXCEPT !.default = FALSE]
                             ELSE plan[q]]

\* A default plan is ACTIVE (Plan.Validate); the default is never just dropped.
MayBe(p, row) ==
    /\ row.default => row.status = "ACTIVE"
    /\ plan[p].default => row.default
    /\ Kept = {} => row.default

\* A new plan starts with an empty policy.
PolicyAfterUnset(p) == plan[p].policy
PolicyAfter(p) == IF plan[p].status = "NONE" THEN 1 ELSE plan[p].policy

SavePlan(p, status, default, priced, days) ==
    LET row == [status |-> status, default |-> default, priced |-> priced, days |-> days,
                policy |-> PolicyAfter(p)] IN
    /\ Change
    /\ plan[p].status # "RETIRED" /\ MayBe(p, row)
    /\ PutPlan(p, row)

RetirePlan(p) ==
    /\ Change
    /\ p \in Kept /\ ~plan[p].default
    /\ plan' = [plan EXCEPT ![p].status = "RETIRED"]

SavePlanPolicy(p) ==
    /\ Change
    /\ p \in Kept
    /\ plan' = [plan EXCEPT ![p].policy = @ + 1]

-----------------------------------------------------------------------------
(* Requests                                                                *)

To(r, q) == request' = [request EXCEPT ![r] = q]
End(r) == To(r, None)
At(r, step) == request[r] # None /\ request[r].at = step

\* RenewExpiresAt: the same plan is extended from the day it expires.
Renewed(p, days) ==
    IF days = 0 THEN None
    ELSE days + (IF assignment.plan = p /\ assignment.expires # None /\ assignment.expires > now
                 THEN assignment.expires ELSE now)

Assigned(p, expires) ==
    assignment' = [plan |-> p, expires |-> expires, version |-> assignment.version + 1]

\* Buyable, and CreateOrderCommand.Normalize.
Buyable(p) == /\ Active(p) /\ plan[p].priced
              /\ ~(assignment.plan = p /\ plan[p].days = 0)

\* Rows are inserted in one order.
Fresh(x, rows, none) == rows[x] = none /\ x = CHOOSE y \in DOMAIN rows : rows[y] = none

\* CreateSubscriptionOrder reads the plan and the assignment,
BeginPurchase(r, p) ==
    /\ Command
    /\ opened /\ request[r] = None /\ Buyable(p)
    /\ To(r, [at |-> "create", plan |-> p, days |-> plan[p].days])
    /\ UNCHANGED <<now, plan, purchase, merchant>>

\* creates the order, or takes the pending one of the plan as it is,
PendingOf(p) == {o \in Orders : order[o].status = "PENDING" /\ order[o].plan = p}
Reusable(p) == PendingOf(p)

CreateOrder(r) ==
    LET q == request[r]
        charged(o) == To(r, [at |-> "charge", order |-> o]) IN
    /\ At(r, "create")
    /\ \/ \E o \in Reusable(q.plan) : charged(o) /\ UNCHANGED order
       \/ /\ Reusable(q.plan) = {}
          /\ \E o \in Orders :
                /\ Fresh(o, order, NoOrder)
                /\ order' = [order EXCEPT ![o] =
                        [status |-> "PENDING", plan |-> q.plan, days |-> q.days, pay |-> None]]
                /\ charged(o)
    /\ UNCHANGED <<now, plan, payment, merchant, commands>>

\* has the payment service open a payment, which may be paid at once,
Charge(r, y, paid) ==
    /\ At(r, "charge")
    /\ Fresh(y, payment, NoPayment)
    /\ payment' = [payment EXCEPT ![y] = [order |-> request[r].order, paid |-> paid]]
    /\ To(r, [at |-> "attach", order |-> request[r].order, pay |-> y, paid |-> paid])
    /\ UNCHANGED <<now, plan, order, merchant, commands>>

\* and notes its number.
AttachPayment(r) ==
    LET q == request[r] IN
    /\ At(r, "attach")
    /\ IF order[q.order].status = "PENDING"
       THEN /\ order' = [order EXCEPT ![q.order].pay = q.pay]
            /\ IF q.paid THEN To(r, [at |-> "activate", order |-> q.order]) ELSE End(r)
       ELSE UNCHANGED order /\ End(r)
    /\ UNCHANGED <<now, plan, payment, merchant, commands>>

\* settleOrder: the order, then the status of its payment.
BeginSettle(r, o) ==
    /\ Command
    /\ request[r] = None
    /\ order[o].status # "PAID" /\ order[o].pay # None
    /\ To(r, [at |-> "status", order |-> o, pay |-> order[o].pay])
    /\ UNCHANGED <<now, plan, purchase, merchant>>

SettledUnasked(y) == TRUE
Settled(y) == payment[y].paid

AskStatus(r) ==
    /\ At(r, "status")
    /\ IF Settled(request[r].pay) THEN To(r, [at |-> "activate", order |-> request[r].order])
       ELSE End(r)
    /\ UNCHANGED <<now, plan, purchase, merchant, commands>>

\* Activate: order and assignment in one transaction, once per order.
PayableAgain(o) == order[o].status \in {"PENDING", "PAID"}
Payable(o) == order[o].status = "PENDING"

Activate(r) ==
    LET o == request[r].order IN
    /\ At(r, "activate")
    /\ IF Payable(o)
       THEN /\ order' = [order EXCEPT ![o].status = "PAID"]
            /\ Assigned(order[o].plan, Renewed(order[o].plan, order[o].days))
            /\ To(r, [at |-> "policy", plan |-> order[o].plan, fresh |-> TRUE])
       ELSE UNCHANGED <<order, assignment>> /\ End(r)
    /\ UNCHANGED <<now, plan, payment, assigns, fact, opened, commands>>

CloseOrder(o) ==
    /\ Command
    /\ order[o].status = "PENDING"
    /\ order' = [order EXCEPT ![o].status = "CANCELLED"]
    /\ UNCHANGED <<now, plan, payment, merchant, request>>

\* Somebody pays; the payment service knows nothing of the order's status.
Pay(y) ==
    /\ payment[y].order # None /\ ~payment[y].paid
    /\ payment' = [payment EXCEPT ![y].paid = TRUE]
    /\ UNCHANGED <<now, plan, order, merchant, request, commands>>

\* CreateMerchant commits the merchant; then it gets the default plan's
\* entitlements, or an empty set if there is no plan.
OpenMerchant(r) ==
    /\ ~opened /\ opened' = TRUE
    /\ request[r] = None
    /\ \/ \E p \in Plans : plan[p].default /\ To(r, [at |-> "policy", plan |-> p, fresh |-> FALSE])
       \/ /\ \A p \in Plans : ~plan[p].default
          /\ To(r, [at |-> "apply", kind |-> "permissions", of |-> None, last |-> TRUE,
                    expected |-> 0, fresh |-> FALSE])
    /\ UNCHANGED <<now, plan, purchase, assignment, assigns, fact, commands>>

\* AssignMerchantSubscription, with the version the administrator last saw.
BeginAssign(r, p) ==
    /\ Command
    /\ opened /\ request[r] = None /\ Active(p)
    /\ To(r, [at |-> "assign", plan |-> p, days |-> plan[p].days,
              expected |-> assignment.version])
    /\ UNCHANGED <<now, plan, purchase, merchant>>

Assign(r) ==
    LET q == request[r] IN
    /\ At(r, "assign")
    /\ IF Active(q.plan) /\ assignment.version = q.expected
       THEN /\ Assigned(q.plan, IF q.days = 0 THEN None ELSE now + q.days)
            /\ assigns' = assigns + 1
            /\ To(r, [at |-> "policy", plan |-> q.plan, fresh |-> FALSE])
       ELSE UNCHANGED <<assignment, assigns>> /\ End(r)
    /\ UNCHANGED <<now, plan, purchase, fact, opened, commands>>

-----------------------------------------------------------------------------
(* applyPlanEntitlements: permissions, then the quota.  The merchant's side*)
(* reads the revision it replaces ("fresh"), the platform's side expects   *)
(* none.                                                                   *)

Following(q, kind) == [at |-> IF q.fresh THEN "expect" ELSE "apply", kind |-> kind, of |-> q.of,
                   last |-> kind = "quota", expected |-> 0, fresh |-> q.fresh]

ReadPolicy(r) ==
    LET q == request[r] IN
    /\ At(r, "policy")
    /\ IF plan[q.plan].status # "RETIRED"
       THEN To(r, Following([of |-> <<q.plan, plan[q.plan].policy>>, fresh |-> q.fresh],
                        "permissions"))
       ELSE End(r)
    /\ UNCHANGED <<now, plan, purchase, merchant, commands>>

ReadRevision(r) ==
    /\ At(r, "expect")
    /\ To(r, [request[r] EXCEPT !.at = "apply", !.expected = fact[request[r].kind].revision])
    /\ UNCHANGED <<now, plan, purchase, merchant, commands>>

Done(r) == IF request[r].last THEN End(r) ELSE To(r, Following(request[r], "quota"))

\* ApplyPermissionEntitlement and QuotaRepository.Apply.  The row is locked if
\* there is one; a missing row is not, under READ COMMITTED.
Apply(r) ==
    LET q == request[r]  f == fact[q.kind] IN
    /\ At(r, "apply")
    /\ \/ f.revision # q.expected /\ End(r) /\ UNCHANGED fact
       \/ /\ f.revision = q.expected /\ f.revision = 0
          /\ To(r, [q EXCEPT !.at = "insert"]) /\ UNCHANGED fact
       \/ /\ f.revision = q.expected /\ f.revision # 0
          /\ fact' = [fact EXCEPT ![q.kind] = [revision |-> @.revision + 1, of |-> q.of]]
          /\ Done(r)
    /\ UNCHANGED <<now, plan, purchase, assignment, assigns, opened, commands>>

\* INSERT ... ON DUPLICATE KEY UPDATE writes revision 1 whatever is there.
Insert(r) ==
    LET q == request[r] IN
    /\ At(r, "insert")
    /\ fact' = [fact EXCEPT ![q.kind] = [revision |-> 1, of |-> q.of]]
    /\ Done(r)
    /\ UNCHANGED <<now, plan, purchase, assignment, assigns, opened, commands>>

\* The process stops, or a call fails.
Crash(r) == /\ Crashes /\ request[r] # None /\ End(r)
            /\ UNCHANGED <<now, plan, purchase, merchant, commands>>

Catalogue ==
    \E p \in Plans :
        \/ \E status \in {"ACTIVE", "DISABLED"}, default, priced \in BOOLEAN, days \in Durations :
                SavePlan(p, status, default, priced, days)
        \/ RetirePlan(p) \/ SavePlanPolicy(p)

Purchase ==
    \/ \E r \in Slots :
        \/ \E p \in Plans : BeginPurchase(r, p)
        \/ CreateOrder(r)
        \/ \E y \in Payments, paid \in BOOLEAN : Charge(r, y, paid)
        \/ AttachPayment(r)
        \/ \E o \in Orders : BeginSettle(r, o)
        \/ AskStatus(r) \/ Activate(r)
    \/ \E o \in Orders : CloseOrder(o)
    \/ \E y \in Payments : Pay(y)

Platform == \E r \in Slots : OpenMerchant(r) \/ (\E p \in Plans : BeginAssign(r, p)) \/ Assign(r)

Entitle == \E r \in Slots : ReadPolicy(r) \/ ReadRevision(r) \/ Apply(r) \/ Insert(r) \/ Crash(r)

Next == Tick \/ Catalogue \/ Purchase \/ Platform \/ Entitle

Spec == Init /\ [][Next]_vars

-----------------------------------------------------------------------------
(* Correctness                                                             *)

TypeOK ==
    /\ now \in 0..MaxTime
    /\ plan \in [Plans -> [status : {"NONE", "ACTIVE", "DISABLED", "RETIRED"}, default : BOOLEAN,
                           priced : BOOLEAN, days : Durations \cup {0}, policy : Nat]]
    /\ \A p \in Plans : plan[p].status = "NONE" <=> plan[p].policy = 0
    /\ order \in [Orders -> [status : {"NONE", "PENDING", "PAID", "CANCELLED"},
                             plan : Plans \cup {None}, days : Durations \cup {0},
                             pay : Payments \cup {None}]]
    /\ payment \in [Payments -> [order : Orders \cup {None}, paid : BOOLEAN]]
    /\ assignment \in [plan : Plans \cup {None}, expires : Nat \cup {None}, version : Nat]
    /\ fact \in [Kinds -> [revision : Nat, of : (Plans \X (Nat \ {0})) \cup {None}]]
    /\ {commands, assigns} \subseteq Nat /\ opened \in BOOLEAN

\* Once there is a plan, exactly one is the default that merchants are opened
\* with, and it is ACTIVE, whatever sequence of commands the catalogue goes through
\* (plan.go:72-90, plan.go:160-165).
OneDefaultPlan ==
    /\ Kept # {} => \E p \in Plans : \A q \in Plans : plan[q].default <=> q = p
    /\ \A p \in Plans : plan[p].default => Active(p)

Paid == {o \in Orders : order[o].status = "PAID"}

\* However often an order is settled, by however many requests, it opens the
\* plan once: the assignment has moved once for each paid order and each
\* assignment, and no more time is left than these have given.  One order per
\* plan is pending (order.go:149-231, order.go:34-70).
OrdersOpenOnce ==
    /\ assignment.version = Cardinality(Paid) + assigns
    /\ assignment.expires # None =>
            assignment.expires <= now + (Cardinality(Paid) + assigns)
                                        * (CHOOSE d \in Durations : \A x \in Durations : x <= d)
    /\ \A p \in Plans : Cardinality(PendingOf(p)) <= 1

\* Nothing is opened that has not been paid for: every paid order has a paid
\* payment that was opened for it, whichever requests overlapped, and so has
\* every plan that a merchant has without having been assigned it
\* (subscription.go:298-345; not PAID before the payment service says so).
OpenedWasPaid ==
    /\ \A o \in Paid : \E y \in Payments : payment[y].order = o /\ payment[y].paid
    /\ assigns = 0 /\ assignment.plan # None =>
            \E o \in Paid : order[o].plan = assignment.plan

\* Once no request is in progress, what the merchant is entitled to comes from
\* the plan it has: the transactions document has the entitlements applied after
\* every opening and every assignment.
EntitlementFollowsAssignment ==
    (\A r \in Slots : request[r] = None) /\ assignment.plan # None =>
        \A k \in Kinds : fact[k].of # None /\ fact[k].of[1] = assignment.plan
=============================================================================
