------------------------- MODULE Subscriptions_proofs -------------------------
(***************************************************************************)
(* Proofs about Subscriptions, for every number of plans, orders, payments *)
(* and requests in progress: the catalogue always has one default plan, and*)
(* nothing is opened that was not paid for.                                *)
(***************************************************************************)
EXTENDS Subscriptions, FiniteSetTheorems, TLAPS

-----------------------------------------------------------------------------
(* The catalogue.  Its default plan depends on the rows of plans only; that*)
(* the default is ACTIVE is what makes it one of the plans that are kept.  *)

PlanRow == [status : {"NONE", "ACTIVE", "DISABLED", "RETIRED"}, default : BOOLEAN,
            priced : BOOLEAN, days : Durations \cup {0}, policy : Nat]

PlanInv == plan \in [Plans -> PlanRow] /\ OneDefaultPlan

\* Requests read plans and never change them.
LEMMA RequestsKeepPlans ==
    ASSUME Tick \/ Purchase \/ Platform \/ Entitle
    PROVE  UNCHANGED plan
BY DEF Tick, Purchase, BeginPurchase, CreateOrder, Charge, AttachPayment, BeginSettle, AskStatus,
       Activate, CloseOrder, Pay, Platform, OpenMerchant, BeginAssign, Assign, Entitle, ReadPolicy,
       ReadRevision, Apply, Insert, Crash

\* Any of the commands on plans, in whatever order, keeps one default.
LEMMA PlanInit == Init => PlanInv
<1> SUFFICES ASSUME Init PROVE PlanInv
    OBVIOUS
<1>1. PICK saved \in SUBSET Plans, days \in Durations : \E d \in Plans :
        /\ saved # {} => d \in saved
        /\ plan = [p \in Plans |->
            IF p \notin saved THEN NoPlan
            ELSE [status |-> "ACTIVE", default |-> p = d, priced |-> p # d,
                  days |-> IF p = d THEN 0 ELSE days, policy |-> 1]]
    BY DEF Init
<1>2. PICK d \in Plans :
        /\ saved # {} => d \in saved
        /\ plan = [p \in Plans |->
            IF p \notin saved THEN NoPlan
            ELSE [status |-> "ACTIVE", default |-> p = d, priced |-> p # d,
                  days |-> IF p = d THEN 0 ELSE days, policy |-> 1]]
    BY <1>1
<1>3. plan \in [Plans -> PlanRow]
    BY <1>2 DEF NoPlan, PlanRow
<1>4. \A p \in Plans : plan[p].default <=> p \in saved /\ p = d
    BY <1>2 DEF NoPlan
<1>5. \A p \in Plans : plan[p].status = IF p \in saved THEN "ACTIVE" ELSE "NONE"
    BY <1>2 DEF NoPlan
<1> QED
    BY <1>2, <1>3, <1>4, <1>5 DEF PlanInv, OneDefaultPlan, Kept, Active

LEMMA SavePlanKeepsOneDefault ==
    ASSUME PlanInv, NEW p \in Plans, NEW status \in {"ACTIVE", "DISABLED"}, NEW default \in BOOLEAN,
           NEW priced \in BOOLEAN, NEW days \in Durations, SavePlan(p, status, default, priced, days)
    PROVE  PlanInv'
<1> DEFINE row == [status |-> status, default |-> default, priced |-> priced, days |-> days,
                   policy |-> PolicyAfter(p)]
<1>1. row \in PlanRow
    BY DEF PlanInv, PlanRow, PolicyAfter
<1>2. MayBe(p, row) /\ PutPlan(p, row)
    BY DEF SavePlan
<1>3. plan' \in [Plans -> PlanRow]
  <2>1. \A q \in Plans : [plan[q] EXCEPT !.default = FALSE] \in PlanRow
    BY DEF PlanInv, PlanRow
  <2> QED
    BY <1>1, <1>2, <2>1 DEF PutPlan, PlanInv
<1>4. plan'[p].default = default /\ plan'[p].status = status
    BY <1>2 DEF PutPlan
<1>5. \A q \in Plans \ {p} : /\ plan'[q].status = plan[q].status
                             /\ plan'[q].default = (plan[q].default /\ ~default)
  <2> SUFFICES ASSUME NEW q \in Plans \ {p}
               PROVE  /\ plan'[q].status = plan[q].status
                      /\ plan'[q].default = (plan[q].default /\ ~default)
    OBVIOUS
  <2>1. plan[q] \in PlanRow
    BY DEF PlanInv
  <2>2. plan'[q] = IF default THEN [plan[q] EXCEPT !.default = FALSE] ELSE plan[q]
    BY <1>2 DEF PutPlan
  <2> QED
    BY <2>1, <2>2 DEF PlanRow
<1>6. /\ default => status = "ACTIVE"
      /\ plan[p].default => default
      /\ Kept = {} => default
    BY <1>2 DEF MayBe
<1>7. CASE default
    BY <1>3, <1>4, <1>5, <1>6, <1>7 DEF PlanInv, OneDefaultPlan, Kept, Active
<1>8. CASE ~default
  <2>1. PICK d \in Plans : \A q \in Plans : plan[q].default <=> q = d
    BY <1>6, <1>8 DEF PlanInv, OneDefaultPlan
  <2>2. \A q \in Plans : plan'[q].default <=> q = d
    BY <1>4, <1>5, <1>6, <1>8, <2>1
  <2>3. d # p
    BY <1>6, <1>8, <2>1
  <2> QED
    BY <1>3, <1>5, <2>1, <2>2, <2>3 DEF PlanInv, OneDefaultPlan, Kept, Active
<1> QED
    BY <1>7, <1>8

LEMMA PlanNext == PlanInv /\ [Next]_vars => PlanInv'
<1> SUFFICES ASSUME PlanInv, [Next]_vars PROVE PlanInv'
    OBVIOUS
<1>1. CASE UNCHANGED plan
    BY <1>1 DEF PlanInv, OneDefaultPlan, Kept, Active
<1>2. CASE Catalogue
  <2>1. CASE \E p \in Plans, status \in {"ACTIVE", "DISABLED"}, default, priced \in BOOLEAN,
                days \in Durations : SavePlan(p, status, default, priced, days)
    BY <2>1, SavePlanKeepsOneDefault
  <2>2. ASSUME NEW p \in Plans, RetirePlan(p) PROVE PlanInv'
    <3>1. plan' = [plan EXCEPT ![p].status = "RETIRED"] /\ p \in Kept /\ ~plan[p].default
        BY <2>2 DEF RetirePlan
    <3>2. \A q \in Plans : /\ plan'[q] \in PlanRow
                           /\ plan'[q].default = plan[q].default
                           /\ q # p => plan'[q].status = plan[q].status
        BY <3>1 DEF PlanInv, PlanRow
    <3>3. plan' \in [Plans -> PlanRow]
        BY <3>1, <3>2 DEF PlanInv
    <3> QED
        BY <3>1, <3>2, <3>3 DEF PlanInv, OneDefaultPlan, Kept, Active
  <2>3. ASSUME NEW p \in Plans, SavePlanPolicy(p) PROVE PlanInv'
    <3>1. plan' = [plan EXCEPT ![p].policy = @ + 1]
        BY <2>3 DEF SavePlanPolicy
    <3>2. \A q \in Plans : /\ plan'[q] \in PlanRow
                           /\ plan'[q].default = plan[q].default
                           /\ plan'[q].status = plan[q].status
        BY <3>1 DEF PlanInv, PlanRow
    <3>3. plan' \in [Plans -> PlanRow]
        BY <3>1, <3>2 DEF PlanInv
    <3> QED
        BY <3>2, <3>3 DEF PlanInv, OneDefaultPlan, Kept, Active
  <2> QED
    BY <1>2, <2>1, <2>2, <2>3 DEF Catalogue
<1> QED
    BY <1>1, <1>2, RequestsKeepPlans DEF Next, vars

\* Once there is a plan there is exactly one default plan and it is ACTIVE, whatever
\* commands the catalogue goes through (plan.go:72-90, plan.go:160-165).
THEOREM OneDefault == Spec => []OneDefaultPlan
<1>1. PlanInv => OneDefaultPlan
    BY DEF PlanInv
<1> QED
    BY <1>1, PlanInit, PlanNext, PTL DEF Spec

-----------------------------------------------------------------------------
(* The purchases.  A request carries what it was told across its steps: the*)
(* payment it opened, or the answer that a payment is paid.  No invariant  *)
(* of the rows alone says why an order may become PAID.                    *)

OrderRow == [status : {"NONE", "PENDING", "PAID", "CANCELLED"}, plan : Plans \cup {None},
             days : Durations \cup {0}, pay : Payments \cup {None}]
PaymentRow == [order : Orders \cup {None}, paid : BOOLEAN]

Backed(o, pays) == \E y \in Payments : pays[y].order = o /\ pays[y].paid

\* What request q knows, the payments being pays.
Knows(q, pays) ==
    q # None =>
        /\ q.at = "create" => q.plan \in Plans /\ q.days \in Durations \cup {0}
        /\ q.at \in {"charge", "attach", "status", "activate"} => q.order \in Orders
        /\ q.at \in {"attach", "status"} => q.pay \in Payments /\ pays[q.pay].order = q.order
        /\ q.at = "attach" /\ q.paid => pays[q.pay].paid
        /\ q.at = "activate" => Backed(q.order, pays)
        /\ q.at \in {"expect", "apply"} => "at" \in DOMAIN q

RequestsKnow == /\ request = [r \in Slots |-> request[r]]
                /\ \A r \in Slots : Knows(request[r], payment)

PaymentsMatch == \A o \in Orders : order[o].pay # None => payment[order[o].pay].order = o

RowsInv == /\ order \in [Orders -> OrderRow] /\ payment \in [Payments -> PaymentRow]
           /\ assigns \in Nat
           /\ PaymentsMatch /\ OpenedWasPaid

PaidInv == RequestsKnow /\ RowsInv

\* A payment stays with its order, and stays paid.
PaymentsStay ==
    \A y \in Payments, o \in Orders :
        payment[y].order = o => payment'[y].order = o /\ (payment[y].paid => payment'[y].paid)

\* At most one request moves, and it knows what it has to.
OneMoves ==
    \/ request' = request
    \/ \E r \in Slots : \E q : request' = [request EXCEPT ![r] = q] /\ Knows(q, payment')

LEMMA KnowledgeStays ==
    ASSUME PaymentsStay, NEW q, Knows(q, payment)
    PROVE  Knows(q, payment')
BY DEF PaymentsStay, Knows, Backed

LEMMA RequestsStayInformed ==
    ASSUME RequestsKnow, PaymentsStay, OneMoves
    PROVE  RequestsKnow'
<1>1. \A r \in Slots : Knows(request[r], payment')
    BY KnowledgeStays DEF RequestsKnow
<1>2. CASE request' = request
    BY <1>1, <1>2 DEF RequestsKnow
<1>3. ASSUME NEW r \in Slots, NEW q, request' = [request EXCEPT ![r] = q], Knows(q, payment')
      PROVE  RequestsKnow'
    BY <1>1, <1>3 DEF RequestsKnow
<1> QED
    BY <1>2, <1>3 DEF OneMoves

LEMMA RowsStay ==
    ASSUME RowsInv, UNCHANGED <<purchase, assignment, assigns>>
    PROVE  RowsInv' /\ PaymentsStay
BY DEF RowsInv, PaymentsMatch, OpenedWasPaid, Paid, purchase, PaymentsStay

LEMMA PaidInit == Init => PaidInv
<1> SUFFICES ASSUME Init PROVE PaidInv
    OBVIOUS
<1>1. RequestsKnow
    BY DEF Init, RequestsKnow, Knows
<1>2. RowsInv
    BY DEF Init, RowsInv, OrderRow, PaymentRow, PaymentsMatch, OpenedWasPaid, Paid, NoOrder,
           NoPayment, NoAssignment
<1> QED
    BY <1>1, <1>2 DEF PaidInv

\* A request that waits, asks or applies entitlements leaves the purchases alone.
LEMMA QuietSteps ==
    ASSUME PaidInv, NEW r \in Slots,
           \/ ReadPolicy(r) \/ ReadRevision(r) \/ Apply(r) \/ Insert(r) \/ Crash(r) \/ OpenMerchant(r)
    PROVE  PaidInv'
<1>1. UNCHANGED <<purchase, assignment, assigns>>
    BY DEF ReadPolicy, ReadRevision, Apply, Insert, Crash, OpenMerchant, purchase, merchant
<1>2. RowsInv' /\ PaymentsStay
    BY <1>1, RowsStay DEF PaidInv
<1>3. OneMoves
  <2>1. CASE ReadRevision(r)
    <3> DEFINE q == [request[r] EXCEPT !.at = "apply", !.expected = fact[request[r].kind].revision]
    <3>1. To(r, q) /\ request[r] # None /\ request[r].at = "expect"
        BY <2>1 DEF ReadRevision, At
    <3>2. "at" \in DOMAIN request[r]
        BY <3>1 DEF PaidInv, RequestsKnow, Knows
    <3>3. q.at = "apply" /\ "at" \in DOMAIN q
        BY <3>2
    <3> HIDE DEF q
    <3>4. Knows(q, payment')
        BY <3>3 DEF Knows
    <3> QED
        BY <3>1, <3>4 DEF OneMoves, To
  <2>2. CASE Apply(r)
    <3>1. request[r] # None /\ request[r].at = "apply"
        BY <2>2 DEF Apply, At
    <3>2. "at" \in DOMAIN request[r]
        BY <3>1 DEF PaidInv, RequestsKnow, Knows
    <3> DEFINE q == [request[r] EXCEPT !.at = "insert"]
    <3>3. q.at = "insert"
        BY <3>2
    <3>4. Knows(q, payment')
        BY <3>3 DEF Knows
    <3>5. Knows(None, payment') /\ Knows(Following(request[r], "quota"), payment')
        BY DEF Knows, Following
    <3>6. \/ To(r, None) \/ To(r, q) \/ To(r, Following(request[r], "quota"))
        BY <2>2 DEF Apply, Done, End
    <3> QED
        BY <3>4, <3>5, <3>6 DEF OneMoves, To
  <2>3. CASE Insert(r)
    <3>1. Knows(None, payment') /\ Knows(Following(request[r], "quota"), payment')
        BY DEF Knows, Following
    <3>2. To(r, None) \/ To(r, Following(request[r], "quota"))
        BY <2>3 DEF Insert, Done, End
    <3> QED
        BY <3>1, <3>2 DEF OneMoves, To
  <2>4. CASE ReadPolicy(r)
    <3> DEFINE q == Following([of |-> <<request[r].plan, plan[request[r].plan].policy>>,
                               fresh |-> request[r].fresh], "permissions")
    <3>1. Knows(None, payment') /\ Knows(q, payment')
        BY DEF Knows, Following
    <3>2. To(r, None) \/ To(r, q)
        BY <2>4 DEF ReadPolicy, End
    <3> QED
        BY <3>1, <3>2 DEF OneMoves, To
  <2>5. CASE Crash(r)
    BY <2>5 DEF Crash, End, To, OneMoves, Knows
  <2>6. CASE OpenMerchant(r)
    <3> DEFINE q == [at |-> "apply", kind |-> "permissions", of |-> None, last |-> TRUE,
                     expected |-> 0, fresh |-> FALSE]
    <3>1. Knows(q, payment') /\ \A p \in Plans :
                Knows([at |-> "policy", plan |-> p, fresh |-> FALSE], payment')
        BY DEF Knows
    <3>2. \/ To(r, q)
          \/ \E p \in Plans : To(r, [at |-> "policy", plan |-> p, fresh |-> FALSE])
        BY <2>6 DEF OpenMerchant
    <3> QED
        BY <3>1, <3>2 DEF OneMoves, To
  <2> QED
    BY <2>1, <2>2, <2>3, <2>4, <2>5, <2>6
<1> QED
    BY <1>2, <1>3, RequestsStayInformed DEF PaidInv

\* An assignment is no purchase.
LEMMA AssigningSteps ==
    ASSUME PaidInv, NEW r \in Slots, Assign(r) \/ (\E p \in Plans : BeginAssign(r, p))
    PROVE  PaidInv'
<1>1. UNCHANGED purchase
    BY DEF Assign, BeginAssign
<1>2. PaymentsStay
    BY <1>1 DEF PaymentsStay, purchase
<1>3. RowsInv'
  <2>1. CASE UNCHANGED <<assignment, assigns>>
    BY <1>1, <2>1, RowsStay DEF PaidInv
  <2>2. CASE assigns' = assigns + 1
    BY <1>1, <2>2 DEF PaidInv, RowsInv, PaymentsMatch, OpenedWasPaid, Paid, purchase
  <2> QED
    BY <2>1, <2>2 DEF Assign, BeginAssign, merchant
<1>4. OneMoves
  <2>1. Knows(None, payment')
    BY DEF Knows
  <2>2. CASE Assign(r)
    <3>1. Knows([at |-> "policy", plan |-> request[r].plan, fresh |-> FALSE], payment')
        BY DEF Knows
    <3> QED
        BY <2>1, <2>2, <3>1 DEF Assign, End, To, OneMoves
  <2>3. ASSUME NEW p \in Plans, BeginAssign(r, p) PROVE OneMoves
    <3>1. Knows([at |-> "assign", plan |-> p, days |-> plan[p].days,
                 expected |-> assignment.version], payment')
        BY DEF Knows
    <3> QED
        BY <2>3, <3>1 DEF BeginAssign, To, OneMoves
  <2> QED
    BY <2>2, <2>3
<1> QED
    BY <1>2, <1>3, <1>4, RequestsStayInformed DEF PaidInv

\* A step that touches neither rows nor requests.
LEMMA OtherSteps ==
    ASSUME PaidInv, UNCHANGED <<purchase, assignment, assigns, request>>
    PROVE  PaidInv'
<1>1. RowsInv' /\ PaymentsStay
    BY RowsStay DEF PaidInv
<1>2. OneMoves
    BY DEF OneMoves
<1> QED
    BY <1>1, <1>2, RequestsStayInformed DEF PaidInv

\* The steps of a purchase and of its settlement.  The payments that are known to
\* be opened or paid stay so; what is left is that the order is paid for when it
\* becomes PAID.
LEMMA PurchaseSteps ==
    ASSUME None \notin Orders, PlanInv, PaidInv, Purchase
    PROVE  PaidInv'
<1>1. ASSUME NEW r \in Slots, NEW p \in Plans, BeginPurchase(r, p)
      PROVE  PaidInv'
  <2> DEFINE q == [at |-> "create", plan |-> p, days |-> plan[p].days]
  <2>1. To(r, q) /\ UNCHANGED <<purchase, assignment, assigns>>
    BY <1>1 DEF BeginPurchase, merchant
  <2>2. RowsInv' /\ PaymentsStay
    BY <2>1, RowsStay DEF PaidInv
  <2>3. plan[p].days \in Durations \cup {0}
    BY DEF PlanInv, PlanRow
  <2>4. Knows(q, payment')
    BY <2>3 DEF Knows
  <2> QED
    BY <2>1, <2>2, <2>4, RequestsStayInformed DEF PaidInv, OneMoves, To
<1>2. ASSUME NEW r \in Slots, CreateOrder(r)
      PROVE  PaidInv'
  <2> DEFINE q(o) == [at |-> "charge", order |-> o]
             new == [status |-> "PENDING", plan |-> request[r].plan, days |-> request[r].days,
                     pay |-> None]
  <2>1. PICK o \in Orders :
            /\ To(r, q(o))
            /\ \/ UNCHANGED order
               \/ order[o] = NoOrder /\ order' = [order EXCEPT ![o] = new]
    BY <1>2 DEF CreateOrder, Fresh, Reusable, PendingOf
  <2>2. UNCHANGED <<payment, assignment, assigns>>
    BY <1>2 DEF CreateOrder, merchant
  <2>3. PaymentsStay
    BY <2>2 DEF PaymentsStay
  <2>4. Knows(q(o), payment')
    BY DEF Knows
  <2>5. new \in OrderRow
    BY <1>2 DEF CreateOrder, At, PaidInv, RequestsKnow, Knows, OrderRow
  <2>6. RowsInv'
    <3>1. CASE UNCHANGED order
        BY <2>2, <3>1, RowsStay DEF PaidInv, purchase
    <3>2. CASE order[o] = NoOrder /\ order' = [order EXCEPT ![o] = new]
        <4>1. order' \in [Orders -> OrderRow] /\ Paid' = Paid
            BY <2>5, <3>2 DEF PaidInv, RowsInv, Paid, NoOrder
        <4>2. PaymentsMatch'
            BY <2>2, <3>2 DEF PaidInv, RowsInv, PaymentsMatch
        <4>3. \A u \in Paid : order'[u] = order[u]
            BY <3>2 DEF PaidInv, RowsInv, Paid, NoOrder
        <4> QED
            BY <2>2, <4>1, <4>2, <4>3 DEF PaidInv, RowsInv, OpenedWasPaid
    <3> QED
        BY <2>1, <3>1, <3>2
  <2> QED
    BY <2>1, <2>3, <2>4, <2>6, RequestsStayInformed DEF PaidInv, OneMoves, To
<1>3. ASSUME NEW r \in Slots, NEW y \in Payments, NEW paid \in BOOLEAN, Charge(r, y, paid)
      PROVE  PaidInv'
  <2> DEFINE o == request[r].order
             q == [at |-> "attach", order |-> o, pay |-> y, paid |-> paid]
  <2>1. /\ payment[y] = NoPayment
        /\ payment' = [payment EXCEPT ![y] = [order |-> o, paid |-> paid]]
        /\ To(r, q) /\ UNCHANGED <<order, assignment, assigns>>
    BY <1>3 DEF Charge, Fresh, merchant
  <2>2. o \in Orders
    BY <1>3 DEF Charge, At, PaidInv, RequestsKnow, Knows
  <2> HIDE DEF o
  <2>3. payment[y].order = None
    BY <2>1 DEF NoPayment
  <2>4. PaymentsStay /\ payment' \in [Payments -> PaymentRow]
    BY <2>1, <2>2, <2>3 DEF PaymentsStay, PaidInv, RowsInv, PaymentRow
  <2>5. payment'[y].order = o /\ payment'[y].paid = paid
    BY <2>1 DEF PaidInv, RowsInv
  <2>6. Knows(q, payment')
    BY <2>2, <2>5 DEF Knows
  <2>7. RowsInv'
    BY <2>1, <2>4 DEF PaidInv, RowsInv, PaymentsMatch, OpenedWasPaid, Paid, PaymentsStay, OrderRow
  <2> QED
    BY <2>1, <2>4, <2>6, <2>7, RequestsStayInformed DEF PaidInv, OneMoves, To
<1>4. ASSUME NEW r \in Slots, AttachPayment(r)
      PROVE  PaidInv'
  <2> DEFINE q == request[r]
  <2>1. /\ q # None /\ q.at = "attach"
        /\ UNCHANGED <<payment, assignment, assigns>>
    BY <1>4 DEF AttachPayment, At, merchant
  <2>2. /\ q.order \in Orders /\ q.pay \in Payments /\ payment[q.pay].order = q.order
        /\ q.paid => payment[q.pay].paid
    BY <2>1 DEF PaidInv, RequestsKnow, Knows
  <2>3. PaymentsStay
    BY <2>1 DEF PaymentsStay
  <2>4. OneMoves
    <3>1. Knows(None, payment')
        BY DEF Knows
    <3>2. q.paid => Knows([at |-> "activate", order |-> q.order], payment')
        BY <2>1, <2>2 DEF Knows, Backed
    <3> QED
        BY <1>4, <3>1, <3>2 DEF AttachPayment, End, To, OneMoves
  <2>5. RowsInv'
    <3>1. CASE UNCHANGED order
        BY <2>1, <3>1, RowsStay DEF PaidInv, purchase
    <3>2. CASE order' = [order EXCEPT ![q.order].pay = q.pay]
        <4>1. \A o \in Orders : /\ order'[o] \in OrderRow
                                /\ order'[o].status = order[o].status
                                /\ order'[o].plan = order[o].plan
                                /\ order'[o].pay = IF o = q.order THEN q.pay ELSE order[o].pay
            BY <2>2, <3>2 DEF PaidInv, RowsInv, OrderRow
        <4>2. order' \in [Orders -> OrderRow]
            BY <3>2, <4>1 DEF PaidInv, RowsInv
        <4>3. PaymentsMatch'
            BY <2>1, <2>2, <4>1 DEF PaidInv, RowsInv, PaymentsMatch
        <4>4. OpenedWasPaid'
            BY <2>1, <4>1 DEF PaidInv, RowsInv, OpenedWasPaid, Paid
        <4> QED
            BY <2>1, <4>2, <4>3, <4>4 DEF PaidInv, RowsInv
    <3> QED
        BY <1>4, <3>1, <3>2 DEF AttachPayment
  <2> QED
    BY <2>3, <2>4, <2>5, RequestsStayInformed DEF PaidInv
<1>5. ASSUME NEW r \in Slots, NEW o \in Orders, BeginSettle(r, o)
      PROVE  PaidInv'
  <2> DEFINE q == [at |-> "status", order |-> o, pay |-> order[o].pay]
  <2>1. /\ To(r, q) /\ order[o].pay # None
        /\ UNCHANGED <<purchase, assignment, assigns>>
    BY <1>5 DEF BeginSettle, merchant
  <2>2. RowsInv' /\ PaymentsStay
    BY <2>1, RowsStay DEF PaidInv
  <2>3. order[o].pay \in Payments /\ payment'[order[o].pay].order = o
    BY <2>1 DEF PaidInv, RowsInv, OrderRow, PaymentsMatch, purchase
  <2>4. Knows(q, payment')
    BY <2>3 DEF Knows
  <2> QED
    BY <2>1, <2>2, <2>4, RequestsStayInformed DEF PaidInv, OneMoves, To
<1>6. ASSUME NEW r \in Slots, AskStatus(r)
      PROVE  PaidInv'
  <2> DEFINE q == request[r]
  <2>1. /\ q # None /\ q.at = "status" /\ UNCHANGED <<purchase, assignment, assigns>>
        /\ \/ payment[q.pay].paid /\ To(r, [at |-> "activate", order |-> q.order])
           \/ To(r, None)
    BY <1>6 DEF AskStatus, At, Settled, End, merchant
  <2>2. RowsInv' /\ PaymentsStay
    BY <2>1, RowsStay DEF PaidInv
  <2>3. q.order \in Orders /\ q.pay \in Payments /\ payment[q.pay].order = q.order
    BY <2>1 DEF PaidInv, RequestsKnow, Knows
  <2>4. payment[q.pay].paid => Knows([at |-> "activate", order |-> q.order], payment')
    BY <2>1, <2>3 DEF Knows, Backed, purchase
  <2>5. Knows(None, payment')
    BY DEF Knows
  <2> QED
    BY <2>1, <2>2, <2>4, <2>5, RequestsStayInformed DEF PaidInv, OneMoves, To
<1>7. ASSUME NEW r \in Slots, Activate(r)
      PROVE  PaidInv'
  <2> DEFINE o == request[r].order
  <2>1. /\ request[r] # None /\ request[r].at = "activate"
        /\ UNCHANGED <<payment, assigns>>
    BY <1>7 DEF Activate, At
  <2>2. o \in Orders /\ Backed(o, payment)
    BY <2>1 DEF PaidInv, RequestsKnow, Knows
  <2>3. PaymentsStay
    BY <2>1 DEF PaymentsStay
  <2>4. OneMoves
    <3>1. Knows(None, payment')
            /\ Knows([at |-> "policy", plan |-> order[o].plan, fresh |-> TRUE], payment')
        BY DEF Knows
    <3> QED
        BY <1>7, <3>1 DEF Activate, End, To, OneMoves
  <2>5. RowsInv'
    <3>1. CASE UNCHANGED <<order, assignment>>
        BY <2>1, <3>1, RowsStay DEF PaidInv, purchase
    <3>2. CASE /\ order' = [order EXCEPT ![o].status = "PAID"]
               /\ assignment'.plan = order[o].plan
        <4>1. \A u \in Orders : /\ order'[u] \in OrderRow
                                /\ order'[u].status = IF u = o THEN "PAID" ELSE order[u].status
                                /\ order'[u].plan = order[u].plan
                                /\ order'[u].pay = order[u].pay
            BY <2>2, <3>2 DEF PaidInv, RowsInv, OrderRow
        <4>2. order' \in [Orders -> OrderRow]
            BY <3>2, <4>1 DEF PaidInv, RowsInv
        <4>3. PaymentsMatch'
            BY <2>1, <4>1 DEF PaidInv, RowsInv, PaymentsMatch
        <4>4. Paid' = Paid \cup {o}
            BY <2>2, <4>1 DEF Paid
        <4>5. OpenedWasPaid'
            BY <2>1, <2>2, <3>2, <4>1, <4>4 DEF PaidInv, RowsInv, OpenedWasPaid, Backed
        <4> QED
            BY <2>1, <4>2, <4>3, <4>5 DEF PaidInv, RowsInv
    <3> QED
        BY <1>7, <3>1, <3>2 DEF Activate, Assigned
  <2> QED
    BY <2>3, <2>4, <2>5, RequestsStayInformed DEF PaidInv
<1>8. ASSUME NEW o \in Orders, CloseOrder(o)
      PROVE  PaidInv'
  <2>1. /\ order[o].status = "PENDING" /\ order' = [order EXCEPT ![o].status = "CANCELLED"]
        /\ UNCHANGED <<payment, assignment, assigns, request>>
    BY <1>8 DEF CloseOrder, merchant
  <2>2. \A u \in Orders : /\ order'[u] \in OrderRow
                          /\ order'[u].status = IF u = o THEN "CANCELLED" ELSE order[u].status
                          /\ order'[u].plan = order[u].plan
                          /\ order'[u].pay = order[u].pay
    BY <2>1 DEF PaidInv, RowsInv, OrderRow
  <2>3. order' \in [Orders -> OrderRow] /\ Paid' = Paid
    BY <2>1, <2>2 DEF PaidInv, RowsInv, Paid
  <2>4. PaymentsMatch' /\ OpenedWasPaid'
    BY <2>1, <2>2, <2>3 DEF PaidInv, RowsInv, PaymentsMatch, OpenedWasPaid, Paid
  <2>5. PaymentsStay /\ OneMoves
    BY <2>1 DEF PaymentsStay, OneMoves
  <2> QED
    BY <2>1, <2>3, <2>4, <2>5, RequestsStayInformed DEF PaidInv, RowsInv
<1>9. ASSUME NEW y \in Payments, Pay(y)
      PROVE  PaidInv'
  <2>1. /\ payment' = [payment EXCEPT ![y].paid = TRUE]
        /\ UNCHANGED <<order, assignment, assigns, request>>
    BY <1>9 DEF Pay, merchant
  <2>2. \A z \in Payments : /\ payment'[z] \in PaymentRow
                            /\ payment'[z].order = payment[z].order
                            /\ payment[z].paid => payment'[z].paid
    BY <2>1 DEF PaidInv, RowsInv, PaymentRow
  <2>3. payment' \in [Payments -> PaymentRow] /\ PaymentsStay /\ OneMoves
    BY <2>1, <2>2 DEF PaidInv, RowsInv, PaymentsStay, OneMoves
  <2>4. PaymentsMatch' /\ OpenedWasPaid'
    BY <2>1, <2>2 DEF PaidInv, RowsInv, PaymentsMatch, OpenedWasPaid, Paid, OrderRow
  <2> QED
    BY <2>1, <2>3, <2>4, RequestsStayInformed DEF PaidInv, RowsInv
<1> QED
    BY <1>1, <1>2, <1>3, <1>4, <1>5, <1>6, <1>7, <1>8, <1>9 DEF Purchase

LEMMA PaidNext ==
    ASSUME None \notin Orders
    PROVE  PlanInv /\ PaidInv /\ [Next]_vars => PaidInv'
<1> SUFFICES ASSUME PlanInv, PaidInv, [Next]_vars PROVE PaidInv'
    OBVIOUS
<1>1. CASE Purchase
    BY <1>1, PurchaseSteps
<1>2. CASE Platform
    BY <1>2, QuietSteps, AssigningSteps DEF Platform
<1>3. CASE Entitle
    BY <1>3, QuietSteps DEF Entitle
<1>4. CASE Tick \/ Catalogue \/ UNCHANGED vars
  <2>1. UNCHANGED <<purchase, assignment, assigns, request>>
    BY <1>4 DEF Tick, Catalogue, SavePlan, RetirePlan, SavePlanPolicy, Change, vars, merchant
  <2> QED
    BY <2>1, OtherSteps
<1> QED
    BY <1>1, <1>2, <1>3, <1>4 DEF Next

\* Nothing is opened that has not been paid for, however the requests of a purchase,
\* its settlements, cancellations and payments overlap, and wherever they stop
\* (subscription.go:298-345, order.go:34-70).
THEOREM OpeningsWerePaid ==
    ASSUME None \notin Orders
    PROVE  Spec => []OpenedWasPaid
<1>1. PaidInv => OpenedWasPaid
    BY DEF PaidInv, RowsInv
<1> QED
    BY <1>1, PlanInit, PlanNext, PaidInit, PaidNext, PTL DEF Spec

-----------------------------------------------------------------------------
(* How much an order opens.  The assignment counts its openings, and the   *)
(* time it gives is bounded by them.  A request carries the days of a plan *)
(* as they were when it read them, so it is they that must be bounded.     *)

Longest == CHOOSE d \in Durations : \A x \in Durations : x <= d

\* A plan is bought for some time or for ever, and there is a longest time.
DurationsAreBounded ==
    /\ Durations \subseteq Nat
    /\ \E d \in Durations : \A x \in Durations : x <= d

Openings == Cardinality(Paid) + assigns

Counted == /\ IsFiniteSet(Paid) /\ now \in Nat
           /\ assignment.version \in Nat
           /\ assignment.version = Openings

WithinTime(expires, n) ==
    expires # None => expires \in Nat /\ expires <= now + n * Longest

OnePending == \A a, b \in Orders :
                /\ order[a].status = "PENDING" /\ order[b].status = "PENDING"
                /\ order[a].plan = order[b].plan
                => a = b

\* What an assignment on its way gives.
DaysKnown(q) == q # None /\ q.at = "assign" => q.days \in Durations \cup {0}
DaysAreKnown == \A r \in Slots : DaysKnown(request[r])

OpenInv == /\ assigns \in Nat /\ Counted /\ WithinTime(assignment.expires, Openings)
           /\ OnePending /\ DaysAreKnown

LEMMA LongestOfAll ==
    ASSUME DurationsAreBounded
    PROVE  Longest \in Nat /\ \A x \in Durations \cup {0} : x \in Nat /\ x <= Longest
<1>1. Longest \in Durations /\ \A x \in Durations : x <= Longest
    BY DEF DurationsAreBounded, Longest
<1> QED
    BY <1>1 DEF DurationsAreBounded

LEMMA OneMore ==
    ASSUME NEW n \in Nat, NEW d \in Nat
    PROVE  (n + 1) * d = n * d + d /\ n * d \in Nat
OBVIOUS

LEMMA OpeningsAreNat ==
    ASSUME OpenInv
    PROVE  Openings \in Nat /\ Cardinality(Paid) \in Nat
BY FS_CardinalityType DEF OpenInv, Counted, Openings

\* What an opening adds to the time that is allowed.
LEMMA MoreTime ==
    ASSUME NEW n \in Nat, NEW d \in Nat, NEW t \in Nat, NEW u \in Nat, t <= u,
           NEW e \in Nat, e <= t + n * d, NEW x \in Nat, x <= d
    PROVE  /\ e <= u + n * d /\ e <= u + (n + 1) * d
           /\ u + x <= u + (n + 1) * d
           /\ x + e <= t + (n + 1) * d
<1> DEFINE a == n * d  b == (n + 1) * d
<1>1. a \in Nat /\ b = a + d
    BY OneMore
<1>2. e <= t + a
    OBVIOUS
<1> HIDE DEF a, b
<1>3. /\ e <= u + a /\ e <= u + b
      /\ u + x <= u + b
      /\ x + e <= t + b
    BY <1>1, <1>2
<1> QED
    BY <1>3 DEF a, b

\* As many openings and no less time allow what was allowed.
LEMMA StillWithin ==
    ASSUME DurationsAreBounded, OpenInv, now' \in Nat, now <= now', UNCHANGED assignment,
           Openings' \in {Openings, Openings + 1}
    PROVE  WithinTime(assignment.expires, Openings)'
<1> DEFINE e == assignment.expires
<1> SUFFICES ASSUME e # None PROVE e \in Nat /\ e <= now' + Openings' * Longest
    BY DEF WithinTime
<1>1. /\ Longest \in Nat /\ Openings \in Nat /\ 0 \in Nat /\ 0 <= Longest /\ now \in Nat
      /\ e \in Nat /\ e <= now + Openings * Longest
    BY LongestOfAll, OpeningsAreNat DEF OpenInv, WithinTime, Counted
<1> HIDE DEF e
<1>2. e <= now' + Openings * Longest /\ e <= now' + (Openings + 1) * Longest
    BY <1>1, MoreTime
<1> QED
    BY <1>1, <1>2

LEMMA OpenInit == DurationsAreBounded /\ Init => OpenInv
<1> SUFFICES ASSUME DurationsAreBounded, Init PROVE OpenInv
    OBVIOUS
<1>1. Paid = {}
    BY DEF Init, Paid, NoOrder
<1>2. IsFiniteSet(Paid) /\ Cardinality(Paid) = 0
    BY <1>1, FS_EmptySet
<1>3. Counted
    BY <1>2 DEF Init, Counted, Openings, NoAssignment
<1>4. WithinTime(assignment.expires, Openings)
    BY DEF Init, WithinTime, NoAssignment
<1>5. OnePending /\ DaysAreKnown
    BY DEF Init, OnePending, NoOrder, DaysAreKnown, DaysKnown
<1> QED
    BY <1>3, <1>4, <1>5 DEF OpenInv, Init

\* At most one request moves, and only to what gives a known time.
DaysMove == \/ request' = request
            \/ \E r \in Slots : \E q : To(r, q) /\ DaysKnown(q)

LEMMA DaysStayKnown ==
    ASSUME RequestsKnow, DaysAreKnown, DaysMove
    PROVE  DaysAreKnown'
<1>1. ASSUME NEW r \in Slots, NEW q, To(r, q), DaysKnown(q) PROVE DaysAreKnown'
    BY <1>1 DEF RequestsKnow, DaysAreKnown, DaysKnown, To
<1>2. CASE request' = request
    BY <1>2 DEF DaysAreKnown, DaysKnown
<1> QED
    BY <1>1, <1>2 DEF DaysMove

\* A step that opens nothing.
LEMMA NothingOpened ==
    ASSUME DurationsAreBounded, OpenInv, RequestsKnow, now' \in Nat, now <= now',
           UNCHANGED <<assignment, assigns>>, Paid' = Paid, OnePending', DaysMove
    PROVE  OpenInv'
<1>1. Openings' = Openings
    BY DEF Openings
<1>2. WithinTime(assignment.expires, Openings)'
    BY <1>1, StillWithin
<1>3. Counted'
    BY <1>1 DEF OpenInv, Counted
<1> QED
    BY <1>2, <1>3, DaysStayKnown DEF OpenInv

\* A step of a request that neither orders nor opens anything.
LEMMA OrdersAlone ==
    ASSUME DurationsAreBounded, OpenInv, RequestsKnow,
           UNCHANGED <<now, order, assignment, assigns>>, DaysMove
    PROVE  OpenInv'
<1>1. Paid' = Paid /\ OnePending' /\ now \in Nat /\ now' = now
    BY DEF OpenInv, Paid, OnePending, Counted
<1> QED
    BY <1>1, NothingOpened

\* What a request is after a step that is not the beginning of an assignment.
LEMMA OtherRequests ==
    ASSUME RequestsKnow, NEW r \in Slots,
           \/ \E p \in Plans : BeginPurchase(r, p)
           \/ CreateOrder(r)
           \/ \E y \in Payments, paid \in BOOLEAN : Charge(r, y, paid)
           \/ AttachPayment(r)
           \/ \E o \in Orders : BeginSettle(r, o)
           \/ AskStatus(r) \/ Activate(r)
           \/ OpenMerchant(r) \/ Assign(r)
           \/ ReadPolicy(r) \/ ReadRevision(r) \/ Apply(r) \/ Insert(r) \/ Crash(r)
    PROVE  DaysMove
<1>1. DaysKnown(None)
    BY DEF DaysKnown
<1>2. CASE \E p \in Plans : BeginPurchase(r, p)
    BY <1>2 DEF BeginPurchase, DaysMove, DaysKnown
<1>3. CASE CreateOrder(r)
  <2>1. PICK o \in Orders : To(r, [at |-> "charge", order |-> o])
    BY <1>3 DEF CreateOrder, Reusable, PendingOf
  <2>2. DaysKnown([at |-> "charge", order |-> o])
    BY DEF DaysKnown
  <2> QED
    BY <2>1, <2>2 DEF DaysMove
<1>4. CASE \E y \in Payments, paid \in BOOLEAN : Charge(r, y, paid)
    BY <1>4 DEF Charge, DaysMove, DaysKnown
<1>5. CASE AttachPayment(r)
    BY <1>1, <1>5 DEF AttachPayment, End, DaysMove, DaysKnown
<1>6. CASE \E o \in Orders : BeginSettle(r, o)
    BY <1>6 DEF BeginSettle, DaysMove, DaysKnown
<1>7. CASE AskStatus(r)
    BY <1>1, <1>7 DEF AskStatus, End, DaysMove, DaysKnown
<1>8. CASE Activate(r)
  <2> DEFINE q == [at |-> "policy", plan |-> order[request[r].order].plan, fresh |-> TRUE]
  <2>1. To(r, q) \/ To(r, None)
    BY <1>8 DEF Activate, End
  <2>2. DaysKnown(q)
    BY DEF DaysKnown
  <2> QED
    BY <1>1, <2>1, <2>2 DEF DaysMove
<1>9. CASE OpenMerchant(r)
  <2> DEFINE q == [at |-> "apply", kind |-> "permissions", of |-> None, last |-> TRUE,
                   expected |-> 0, fresh |-> FALSE]
  <2>1. DaysKnown(q) /\ \A p \in Plans : DaysKnown([at |-> "policy", plan |-> p, fresh |-> FALSE])
    BY DEF DaysKnown
  <2>2. \/ To(r, q)
        \/ \E p \in Plans : To(r, [at |-> "policy", plan |-> p, fresh |-> FALSE])
    BY <1>9 DEF OpenMerchant
  <2> HIDE DEF q
  <2> QED
    BY <2>1, <2>2 DEF DaysMove
<1>10. CASE Assign(r)
    BY <1>1, <1>10 DEF Assign, End, DaysMove, DaysKnown
<1>11. DaysKnown(Following(request[r], "quota"))
    BY DEF DaysKnown, Following
<1>12. CASE ReadPolicy(r)
  <2> DEFINE q == Following([of |-> <<request[r].plan, plan[request[r].plan].policy>>,
                             fresh |-> request[r].fresh], "permissions")
  <2>1. DaysKnown(q)
    BY DEF DaysKnown, Following
  <2>2. To(r, q) \/ To(r, None)
    BY <1>12 DEF ReadPolicy, End
  <2> QED
    BY <1>1, <2>1, <2>2 DEF DaysMove
<1>13. CASE ReadRevision(r)
  <2> DEFINE q == [request[r] EXCEPT !.at = "apply", !.expected = fact[request[r].kind].revision]
  <2>1. To(r, q) /\ request[r] # None /\ request[r].at = "expect"
    BY <1>13 DEF ReadRevision, At
  <2>2. "at" \in DOMAIN request[r]
    BY <2>1 DEF RequestsKnow, Knows
  <2>3. q.at = "apply"
    BY <2>2
  <2> HIDE DEF q
  <2>4. DaysKnown(q)
    BY <2>3 DEF DaysKnown
  <2> QED
    BY <2>1, <2>4 DEF DaysMove
<1>14. CASE Apply(r)
  <2> DEFINE q == [request[r] EXCEPT !.at = "insert"]
  <2>1. request[r] # None /\ request[r].at = "apply"
    BY <1>14 DEF Apply, At
  <2>2. "at" \in DOMAIN request[r]
    BY <2>1 DEF RequestsKnow, Knows
  <2>3. q.at = "insert"
    BY <2>2
  <2>4. To(r, q) \/ To(r, None) \/ To(r, Following(request[r], "quota"))
    BY <1>14 DEF Apply, Done, End
  <2> HIDE DEF q
  <2>5. DaysKnown(q)
    BY <2>3 DEF DaysKnown
  <2> QED
    BY <1>1, <1>11, <2>4, <2>5 DEF DaysMove
<1>15. CASE Insert(r)
  <2>1. To(r, None) \/ To(r, Following(request[r], "quota"))
    BY <1>15 DEF Insert, Done, End
  <2> QED
    BY <1>1, <1>11, <2>1 DEF DaysMove
<1>16. CASE Crash(r)
    BY <1>1, <1>16 DEF Crash, End, DaysMove
<1> QED
    BY <1>2, <1>3, <1>4, <1>5, <1>6, <1>7, <1>8, <1>9, <1>10, <1>12, <1>13, <1>14, <1>15, <1>16

\* Inserting the order of a purchase: the only step that makes one pending.
LEMMA CreateOpens ==
    ASSUME DurationsAreBounded, OpenInv, RequestsKnow, order \in [Orders -> OrderRow],
           NEW r \in Slots, CreateOrder(r)
    PROVE  OpenInv'
<1> DEFINE plans == request[r].plan
           new == [status |-> "PENDING", plan |-> plans, days |-> request[r].days, pay |-> None]
<1>1. /\ UNCHANGED <<now, assignment, assigns>> /\ DaysMove /\ now \in Nat
      /\ plans \in Plans
    BY OtherRequests DEF CreateOrder, merchant, OpenInv, Counted, RequestsKnow, Knows, At
<1>2. CASE UNCHANGED order
    BY <1>1, <1>2, OrdersAlone
<1>3. ASSUME NEW o \in Orders, order[o] = NoOrder, Reusable(plans) = {},
             order' = [order EXCEPT ![o] = new]
      PROVE  OpenInv'
  <2>1. Paid' = Paid
    BY <1>3 DEF Paid, NoOrder
  <2>2. \A a \in Orders : ~(order[a].status = "PENDING" /\ order[a].plan = plans)
    BY <1>3 DEF Reusable, PendingOf
  <2>3. \A a \in Orders : /\ a # o => order'[a] = order[a]
                          /\ a = o => order'[a].status = "PENDING" /\ order'[a].plan = plans
    BY <1>3
  <2>4. OnePending'
    BY <2>2, <2>3 DEF OpenInv, OnePending
  <2> QED
    BY <1>1, <2>1, <2>4, NothingOpened
<1> QED
    BY <1>2, <1>3 DEF CreateOrder, Fresh

\* The steps on an order that opens nothing.
LEMMA OrderMoves ==
    ASSUME DurationsAreBounded, OpenInv, RequestsKnow, order \in [Orders -> OrderRow],
           (\E r \in Slots : AttachPayment(r)) \/ (\E o \in Orders : CloseOrder(o))
    PROVE  OpenInv'
<1>1. UNCHANGED <<now, assignment, assigns>> /\ DaysMove /\ now \in Nat
    BY OtherRequests DEF AttachPayment, CloseOrder, merchant, OpenInv, Counted, DaysMove
<1>2. \A a \in Orders : /\ order'[a].plan = order[a].plan
                        /\ \/ order'[a].status = order[a].status
                           \/ order[a].status = "PENDING" /\ order'[a].status = "CANCELLED"
  <2>1. CASE \E r \in Slots : AttachPayment(r)
    BY <2>1 DEF AttachPayment, OrderRow
  <2>2. CASE \E o \in Orders : CloseOrder(o)
    BY <2>2 DEF CloseOrder, OrderRow
  <2> QED
    BY <2>1, <2>2
<1>3. Paid' = Paid
    BY <1>2 DEF Paid
<1>4. OnePending'
    BY <1>2 DEF OpenInv, OnePending
<1> QED
    BY <1>1, <1>3, <1>4, NothingOpened

\* A plan is opened once more: the openings, and the time they allow, grow with it.
LEMMA OpenedOnceMore ==
    ASSUME DurationsAreBounded, OpenInv, UNCHANGED now, DaysAreKnown', OnePending',
           assigns' \in Nat, IsFiniteSet(Paid'), Openings' = Openings + 1,
           assignment'.version = assignment.version + 1,
           WithinTime(assignment.expires, Openings)'
    PROVE  OpenInv'
BY OpeningsAreNat DEF OpenInv, Counted

\* A renewal from the day the plan expires gives no more than both times together.
LEMMA RenewedWithin ==
    ASSUME DurationsAreBounded, OpenInv, NEW p, NEW days \in Durations \cup {0}, UNCHANGED now,
           assignment'.expires = Renewed(p, days), Openings' = Openings + 1
    PROVE  WithinTime(assignment.expires, Openings)'
<1> DEFINE e == assignment.expires
<1> SUFFICES ASSUME Renewed(p, days) # None
             PROVE  /\ Renewed(p, days) \in Nat
                    /\ Renewed(p, days) <= now + (Openings + 1) * Longest
    BY DEF WithinTime
<1>1. /\ Longest \in Nat /\ Openings \in Nat /\ now \in Nat /\ days \in Nat /\ days <= Longest
    BY LongestOfAll, OpeningsAreNat DEF OpenInv, Counted
<1>2. e # None => e \in Nat /\ e <= now + Openings * Longest
    BY DEF OpenInv, WithinTime
<1>3. CASE e # None /\ e > now /\ Renewed(p, days) = days + e
    BY <1>1, <1>2, <1>3, MoreTime
<1>4. CASE Renewed(p, days) = days + now
  <2>1. now \in Nat /\ now <= now + Openings * Longest
    BY <1>1, OneMore
  <2>2. now + days <= now + (Openings + 1) * Longest
    BY <1>1, <2>1, MoreTime
  <2> QED
    BY <1>1, <1>4, <2>2
<1> QED
    BY <1>3, <1>4 DEF Renewed

\* A payment that settles an order opens its plan, once.
LEMMA ActivateOpens ==
    ASSUME DurationsAreBounded, OpenInv, PaidInv, NEW r \in Slots, Activate(r)
    PROVE  OpenInv'
<1> DEFINE o == request[r].order
<1>1. o \in Orders
    BY DEF Activate, At, PaidInv, RequestsKnow, Knows
<1>2. UNCHANGED <<now, assigns>> /\ DaysMove /\ DaysAreKnown'
    BY OtherRequests, DaysStayKnown DEF Activate, PaidInv, OpenInv
<1>3. CASE UNCHANGED <<order, assignment>>
    BY <1>2, <1>3, OrdersAlone DEF PaidInv
<1>4. CASE /\ order[o].status = "PENDING"
           /\ order' = [order EXCEPT ![o].status = "PAID"]
           /\ assignment'.expires = Renewed(order[o].plan, order[o].days)
           /\ assignment'.version = assignment.version + 1
  <2>1. \A a \in Orders : /\ order'[a].status = IF a = o THEN "PAID" ELSE order[a].status
                          /\ order'[a].plan = order[a].plan
    BY <1>1, <1>4 DEF PaidInv, RowsInv, OrderRow
  <2>2. Paid' = Paid \cup {o} /\ o \notin Paid
    BY <1>1, <1>4, <2>1 DEF Paid
  <2>3. IsFiniteSet(Paid') /\ Cardinality(Paid') = Cardinality(Paid) + 1
    BY <2>2, FS_AddElement DEF OpenInv, Counted
  <2>4. Openings' = Openings + 1
    BY <1>2, <2>3, OpeningsAreNat DEF Openings, OpenInv
  <2>5. OnePending'
    BY <2>1 DEF OpenInv, OnePending
  <2>6. order[o].days \in Durations \cup {0}
    BY <1>1 DEF PaidInv, RowsInv, OrderRow
  <2>7. WithinTime(assignment.expires, Openings)'
    BY <1>2, <1>4, <2>4, <2>6, RenewedWithin
  <2> QED
    BY <1>2, <1>4, <2>3, <2>4, <2>5, <2>7, OpenedOnceMore DEF OpenInv
<1> QED
    BY <1>3, <1>4 DEF Activate, Payable, Assigned

\* An assignment by the platform counts as one opening.
LEMMA AssignOpens ==
    ASSUME DurationsAreBounded, OpenInv, PaidInv, NEW r \in Slots, Assign(r)
    PROVE  OpenInv'
<1> DEFINE days == request[r].days
<1>1. days \in Durations \cup {0}
    BY DEF Assign, At, OpenInv, DaysAreKnown, DaysKnown
<1>2. UNCHANGED <<now, order>> /\ DaysMove /\ DaysAreKnown'
    BY OtherRequests, DaysStayKnown DEF Assign, PaidInv, OpenInv, purchase
<1>3. CASE UNCHANGED <<assignment, assigns>>
    BY <1>2, <1>3, OrdersAlone DEF PaidInv
<1>4. CASE /\ assigns' = assigns + 1
           /\ assignment'.expires = IF days = 0 THEN None ELSE now + days
           /\ assignment'.version = assignment.version + 1
  <2>1. Paid' = Paid /\ OnePending'
    BY <1>2 DEF Paid, OnePending, OpenInv
  <2>2. Openings' = Openings + 1 /\ assigns' \in Nat
    BY <1>4, <2>1, OpeningsAreNat DEF Openings, OpenInv
  <2>3. WithinTime(assignment.expires, Openings)'
    <3>1. /\ Longest \in Nat /\ Openings \in Nat /\ now \in Nat /\ days \in Nat /\ days <= Longest
        BY <1>1, LongestOfAll, OpeningsAreNat DEF OpenInv, Counted
    <3>2. now <= now + Openings * Longest
        BY <3>1, OneMore
    <3>3. now + days \in Nat /\ now + days <= now + (Openings + 1) * Longest
        BY <3>1, <3>2, MoreTime
    <3> QED
        BY <1>2, <1>4, <2>2, <3>3 DEF WithinTime
  <2> QED
    BY <1>2, <1>4, <2>1, <2>2, <2>3, OpenedOnceMore DEF OpenInv, Counted
<1> QED
    BY <1>3, <1>4 DEF Assign, Assigned

LEMMA OpenNext ==
    ASSUME DurationsAreBounded, PlanInv, PaidInv, OpenInv, [Next]_vars
    PROVE  OpenInv'
<1> USE DEF PaidInv, RowsInv
<1>1. CASE UNCHANGED vars
    BY <1>1, OrdersAlone DEF vars, purchase, merchant, DaysMove
<1>2. CASE Catalogue
    BY <1>2, OrdersAlone DEF Catalogue, SavePlan, RetirePlan, SavePlanPolicy, Change, purchase,
                             merchant, DaysMove
<1>3. CASE Tick
  <2>1. UNCHANGED <<order, assignment, assigns>> /\ DaysMove /\ now \in Nat /\ now' = now + 1
    BY <1>3 DEF Tick, purchase, merchant, DaysMove, OpenInv, Counted
  <2>2. Paid' = Paid /\ OnePending'
    BY <2>1 DEF Paid, OnePending, OpenInv
  <2> QED
    BY <2>1, <2>2, NothingOpened
<1>4. CASE Purchase
  <2>1. ASSUME NEW r \in Slots,
               \/ \E p \in Plans : BeginPurchase(r, p)
               \/ \E y \in Payments, paid \in BOOLEAN : Charge(r, y, paid)
               \/ \E o \in Orders : BeginSettle(r, o)
               \/ AskStatus(r)
        PROVE  OpenInv'
    <3>1. UNCHANGED <<now, order, assignment, assigns>>
        BY <2>1 DEF BeginPurchase, Charge, BeginSettle, AskStatus, purchase, merchant
    <3> QED
        BY <2>1, <3>1, OtherRequests, OrdersAlone
  <2>2. ASSUME NEW y \in Payments, Pay(y) PROVE OpenInv'
    BY <2>2, OrdersAlone DEF Pay, merchant, DaysMove
  <2> QED
    BY <1>4, <2>1, <2>2, CreateOpens, OrderMoves, ActivateOpens DEF Purchase
<1>5. CASE Platform
  <2>1. ASSUME NEW r \in Slots, OpenMerchant(r) PROVE OpenInv'
    <3>1. UNCHANGED <<now, order, assignment, assigns>>
        BY <2>1 DEF OpenMerchant, purchase
    <3> QED
        BY <2>1, <3>1, OtherRequests, OrdersAlone
  <2>2. ASSUME NEW r \in Slots, NEW p \in Plans, BeginAssign(r, p) PROVE OpenInv'
    <3> DEFINE q == [at |-> "assign", plan |-> p, days |-> plan[p].days,
                     expected |-> assignment.version]
    <3>1. To(r, q) /\ UNCHANGED <<now, order, assignment, assigns>>
        BY <2>2 DEF BeginAssign, purchase, merchant
    <3>2. DaysKnown(q)
        BY DEF DaysKnown, PlanInv, PlanRow
    <3> QED
        BY <3>1, <3>2, OrdersAlone DEF DaysMove
  <2> QED
    BY <1>5, <2>1, <2>2, AssignOpens DEF Platform
<1>6. CASE Entitle
  <2>1. PICK r \in Slots : ReadPolicy(r) \/ ReadRevision(r) \/ Apply(r) \/ Insert(r) \/ Crash(r)
    BY <1>6 DEF Entitle
  <2>2. UNCHANGED <<now, order, assignment, assigns>>
    BY <2>1 DEF ReadPolicy, ReadRevision, Apply, Insert, Crash, purchase, merchant
  <2> QED
    BY <2>1, <2>2, OtherRequests, OrdersAlone
<1> QED
    BY <1>1, <1>2, <1>3, <1>4, <1>5, <1>6 DEF Next

LEMMA OpenOnce ==
    ASSUME OpenInv
    PROVE  OrdersOpenOnce
<1>1. \A p \in Plans : Cardinality(PendingOf(p)) <= 1
  <2> TAKE p \in Plans
  <2>1. CASE PendingOf(p) = {}
    BY <2>1, FS_EmptySet
  <2>2. ASSUME NEW o \in PendingOf(p) PROVE Cardinality(PendingOf(p)) <= 1
    <3>1. PendingOf(p) = {o}
        BY DEF PendingOf, OpenInv, OnePending
    <3>2. Cardinality({o}) = 1
        BY FS_Singleton
    <3> QED
        BY <3>1, <3>2
  <2> QED
    BY <2>1, <2>2
<1> QED
    BY <1>1 DEF OpenInv, Counted, WithinTime, Openings, OrdersOpenOnce, Longest

\* However many requests settle an order, and however often it is paid, it opens its
\* plan once, and no more time is left than the openings have given
\* (order.go:149-231, order.go:34-70).
THEOREM OpenedOnce ==
    ASSUME None \notin Orders, DurationsAreBounded
    PROVE  Spec => []OrdersOpenOnce
<1> DEFINE IInv == PlanInv /\ PaidInv /\ OpenInv
<1>1. Init => IInv
    BY PlanInit, PaidInit, OpenInit
<1>2. IInv /\ [Next]_vars => IInv'
    BY PlanNext, PaidNext, OpenNext
<1>3. IInv => OrdersOpenOnce
    BY OpenOnce
<1> QED
    BY <1>1, <1>2, <1>3, PTL DEF Spec

-----------------------------------------------------------------------------
(* Types.  A request applies what it read of a plan steps ago, so the rows *)
(* are those their readers accept because a plan that was there once stays,*)
(* and its policy is numbered from 1.                                      *)

Contents == (Plans \X (Nat \ {0})) \cup {None}
AssignmentRow == [plan : Plans \cup {None}, expires : Nat \cup {None}, version : Nat]
FactRow == [revision : Nat, of : Contents]

Saved(p, rows) == p \in Plans /\ rows[p].status # "NONE"

PoliciesNumbered == \A p \in Plans : plan[p].status = "NONE" <=> plan[p].policy = 0
PlansStay == \A p \in Plans : Saved(p, plan) => Saved(p, plan')
OrdersOfPlans == \A o \in Orders : order[o].status # "NONE" => Saved(order[o].plan, plan)

\* What request q carries, the plans being rows.
Carries(q, rows) ==
    q # None =>
        /\ q.at \in {"create", "assign", "policy"} => Saved(q.plan, rows)
        /\ q.at = "assign" => q.days \in Durations \cup {0}
        /\ q.at \in {"expect", "apply", "insert"} =>
                {"at", "kind", "of"} \subseteq DOMAIN q /\ q.kind \in Kinds /\ q.of \in Contents

TypeInv == /\ now \in 0..MaxTime /\ commands \in Nat /\ assigns \in Nat /\ opened \in BOOLEAN
           /\ PoliciesNumbered /\ OrdersOfPlans
           /\ assignment \in AssignmentRow /\ fact \in [Kinds -> FactRow]
           /\ \A r \in Slots : Carries(request[r], plan)

\* At most one request moves, and it carries what it has to.
CarriesMove == \/ request' = request
               \/ \E r \in Slots : \E q : To(r, q) /\ Carries(q, plan')

LEMMA StillCarried ==
    ASSUME RequestsKnow, PlansStay, \A r \in Slots : Carries(request[r], plan), CarriesMove
    PROVE  \A r \in Slots : Carries(request[r], plan)'
<1>1. \A r \in Slots : Carries(request[r], plan')
    BY DEF PlansStay, Carries, Saved
<1>2. CASE request' = request
    BY <1>1, <1>2
<1>3. ASSUME NEW r \in Slots, NEW q, To(r, q), Carries(q, plan')
      PROVE  \A x \in Slots : Carries(request'[x], plan')
  <2>1. \A x \in Slots : request'[x] = IF x = r THEN q ELSE request[x]
    BY <1>3 DEF To, RequestsKnow
  <2> QED
    BY <1>1, <1>3, <2>1
<1> QED
    BY <1>2, <1>3 DEF CarriesMove

LEMMA TypeInit ==
    ASSUME MaxTime \in Nat, Init
    PROVE  TypeInv
<1>1. \A p \in Plans : plan[p].status = "NONE" <=> plan[p].policy = 0
    BY DEF Init, NoPlan
<1>2. assignment \in AssignmentRow
    BY DEF Init, NoAssignment, AssignmentRow
<1>3. NoFact \in FactRow
    BY DEF NoFact, FactRow, Contents
<1>4. OrdersOfPlans
    BY DEF Init, OrdersOfPlans, NoOrder
<1>5. \A r \in Slots : Carries(request[r], plan)
    BY DEF Init, Carries
<1> HIDE DEF NoFact
<1>6. fact \in [Kinds -> FactRow]
    BY <1>3 DEF Init
<1>7. now \in 0..MaxTime /\ commands \in Nat /\ assigns \in Nat
    BY DEF Init
<1>8. opened \in BOOLEAN
    BY Zenon DEF Init
<1> QED
    BY <1>1, <1>2, <1>4, <1>5, <1>6, <1>7, <1>8 DEF TypeInv, PoliciesNumbered

\* Commands on the catalogue.
LEMMA CatalogueKeepsTypes ==
    ASSUME PlanInv, PaidInv, TypeInv, Catalogue
    PROVE  TypeInv'
<1>1. UNCHANGED <<now, order, assignment, assigns, fact, opened, request>> /\ commands' \in Nat
  <2>1. Change
    BY DEF Catalogue, SavePlan, RetirePlan, SavePlanPolicy
  <2> QED
    BY <2>1 DEF Change, Command, purchase, merchant, TypeInv
<1>2. plan \in [Plans -> PlanRow]
    BY DEF PlanInv
<1>3. \A p \in Plans : /\ plan'[p].status = "NONE" <=> plan'[p].policy = 0
                       /\ plan[p].status # "NONE" => plan'[p].status # "NONE"
  <2>1. ASSUME NEW p \in Plans, NEW status \in {"ACTIVE", "DISABLED"}, NEW default \in BOOLEAN,
               NEW priced \in BOOLEAN, NEW days \in Durations,
               SavePlan(p, status, default, priced, days), NEW x \in Plans
        PROVE  /\ plan'[x].status = "NONE" <=> plan'[x].policy = 0
               /\ plan[x].status # "NONE" => plan'[x].status # "NONE"
    <3> DEFINE row == [status |-> status, default |-> default, priced |-> priced, days |-> days,
                       policy |-> PolicyAfter(p)]
    <3>1. PutPlan(p, row)
        BY <2>1 DEF SavePlan
    <3>2. row.status # "NONE" /\ row.policy # 0
        BY <2>1 DEF PolicyAfter, TypeInv, PoliciesNumbered
    <3> HIDE DEF row
    <3>3. CASE x = p
        BY <3>1, <3>2, <3>3 DEF PutPlan
    <3>4. CASE x # p
      <4>1. plan'[x] = plan[x] \/ plan'[x] = [plan[x] EXCEPT !.default = FALSE]
        BY <3>1, <3>4 DEF PutPlan
      <4>2. plan'[x].status = plan[x].status /\ plan'[x].policy = plan[x].policy
        BY <1>2, <4>1 DEF PlanRow
      <4> QED
        BY <4>2 DEF TypeInv, PoliciesNumbered
    <3> QED
        BY <3>3, <3>4
  <2>2. ASSUME NEW p \in Plans, RetirePlan(p), NEW x \in Plans
        PROVE  /\ plan'[x].status = "NONE" <=> plan'[x].policy = 0
               /\ plan[x].status # "NONE" => plan'[x].status # "NONE"
    <3>1. /\ plan[p].status # "NONE" /\ plan'[x].policy = plan[x].policy
          /\ plan'[x].status = IF x = p THEN "RETIRED" ELSE plan[x].status
        BY <1>2, <2>2 DEF RetirePlan, Kept, PlanRow
    <3> QED
        BY <3>1 DEF TypeInv, PoliciesNumbered
  <2>3. ASSUME NEW p \in Plans, SavePlanPolicy(p), NEW x \in Plans
        PROVE  /\ plan'[x].status = "NONE" <=> plan'[x].policy = 0
               /\ plan[x].status # "NONE" => plan'[x].status # "NONE"
    <3>1. /\ plan[p].status # "NONE" /\ plan'[x].status = plan[x].status /\ plan[x].policy \in Nat
          /\ plan'[x].policy = IF x = p THEN plan[x].policy + 1 ELSE plan[x].policy
        BY <1>2, <2>3 DEF SavePlanPolicy, Kept, PlanRow
    <3> QED
        BY <3>1 DEF TypeInv, PoliciesNumbered
  <2> QED
    BY <2>1, <2>2, <2>3 DEF Catalogue
<1>4. PlansStay /\ CarriesMove
    BY <1>1, <1>3 DEF PlansStay, Saved, CarriesMove
<1>5. \A r \in Slots : Carries(request[r], plan)'
    BY <1>4, StillCarried DEF PaidInv, TypeInv
<1>6. OrdersOfPlans'
    BY <1>1, <1>4 DEF TypeInv, OrdersOfPlans, PlansStay, Saved
<1> QED
    BY <1>1, <1>3, <1>5, <1>6 DEF TypeInv, PoliciesNumbered

\* What a request goes on with.
LEMMA CarriesOn ==
    ASSUME PlanInv, PaidInv, TypeInv, Purchase \/ Platform \/ Entitle
    PROVE  CarriesMove
<1> plan' = plan
    BY RequestsKeepPlans
<1>1. Carries(None, plan')
    BY DEF Carries
<1>2. ASSUME NEW r \in Slots, NEW q, To(r, q), Carries(q, plan') PROVE CarriesMove
    BY <1>2 DEF CarriesMove
<1>3. ASSUME NEW r \in Slots, End(r) PROVE CarriesMove
    BY <1>1, <1>3 DEF End, CarriesMove
<1>4. \A q : q.at \in {"charge", "attach", "status", "activate"} => Carries(q, plan')
    BY DEF Carries
<1>5. ASSUME NEW r \in Slots, NEW p \in Plans, BeginPurchase(r, p) PROVE CarriesMove
  <2> DEFINE q == [at |-> "create", plan |-> p, days |-> plan[p].days]
  <2>1. To(r, q) /\ Saved(p, plan')
    BY <1>5 DEF BeginPurchase, Buyable, Active, Saved
  <2>2. Carries(q, plan')
    BY <2>1 DEF Carries
  <2> QED
    BY <1>2, <2>1, <2>2
<1>6. ASSUME NEW r \in Slots, CreateOrder(r) PROVE CarriesMove
  <2>1. PICK o : To(r, [at |-> "charge", order |-> o])
    BY <1>6 DEF CreateOrder
  <2> QED
    BY <1>2, <1>4, <2>1
<1>7. ASSUME NEW r \in Slots, NEW y \in Payments, NEW paid \in BOOLEAN, Charge(r, y, paid)
      PROVE  CarriesMove
  <2>1. To(r, [at |-> "attach", order |-> request[r].order, pay |-> y, paid |-> paid])
    BY <1>7 DEF Charge
  <2> QED
    BY <1>2, <1>4, <2>1
<1>8. ASSUME NEW r \in Slots, AttachPayment(r) \/ AskStatus(r) PROVE CarriesMove
  <2>1. To(r, [at |-> "activate", order |-> request[r].order]) \/ End(r)
    BY <1>8 DEF AttachPayment, AskStatus
  <2> QED
    BY <1>2, <1>3, <1>4, <2>1
<1>9. ASSUME NEW r \in Slots, NEW o \in Orders, BeginSettle(r, o) PROVE CarriesMove
  <2>1. To(r, [at |-> "status", order |-> o, pay |-> order[o].pay])
    BY <1>9 DEF BeginSettle
  <2> QED
    BY <1>2, <1>4, <2>1
<1>10. ASSUME NEW r \in Slots, NEW p, NEW fresh, To(r, [at |-> "policy", plan |-> p, fresh |-> fresh]),
              Saved(p, plan)
       PROVE  CarriesMove
  <2>1. Carries([at |-> "policy", plan |-> p, fresh |-> fresh], plan')
    BY <1>10 DEF Carries
  <2> QED
    BY <1>2, <1>10, <2>1
<1>11. ASSUME NEW r \in Slots, Activate(r) PROVE CarriesMove
  <2> DEFINE o == request[r].order
  <2>1. \/ End(r)
        \/ order[o].status = "PENDING" /\ To(r, [at |-> "policy", plan |-> order[o].plan, fresh |-> TRUE])
    BY <1>11 DEF Activate, Payable
  <2>2. o \in Orders
    BY <1>11 DEF Activate, At, PaidInv, RequestsKnow, Knows
  <2>3. order[o].status = "PENDING" => Saved(order[o].plan, plan)
    BY <2>2 DEF TypeInv, OrdersOfPlans
  <2> HIDE DEF o
  <2> QED
    BY <1>3, <1>10, <2>1, <2>3
<1>12. ASSUME NEW r \in Slots, OpenMerchant(r) PROVE CarriesMove
  <2> DEFINE q == [at |-> "apply", kind |-> "permissions", of |-> None, last |-> TRUE,
                   expected |-> 0, fresh |-> FALSE]
  <2>1. Carries(q, plan')
    BY DEF Carries, Kinds, Contents
  <2>2. \/ To(r, q)
        \/ \E p \in Plans : plan[p].default /\ To(r, [at |-> "policy", plan |-> p, fresh |-> FALSE])
    BY <1>12 DEF OpenMerchant
  <2>3. \A p \in Plans : plan[p].default => Saved(p, plan)
    BY DEF PlanInv, OneDefaultPlan, Active, Saved
  <2> HIDE DEF q
  <2> QED
    BY <1>2, <1>10, <2>1, <2>2, <2>3
<1>13. ASSUME NEW r \in Slots, NEW p \in Plans, BeginAssign(r, p) PROVE CarriesMove
  <2> DEFINE q == [at |-> "assign", plan |-> p, days |-> plan[p].days, expected |-> assignment.version]
  <2>1. To(r, q) /\ Saved(p, plan')
    BY <1>13 DEF BeginAssign, Active, Saved
  <2>2. Carries(q, plan')
    BY <2>1 DEF Carries, PlanInv, PlanRow
  <2> QED
    BY <1>2, <2>1, <2>2
<1>14. ASSUME NEW r \in Slots, Assign(r) PROVE CarriesMove
  <2>1. Saved(request[r].plan, plan)
    BY <1>14 DEF Assign, At, TypeInv, Carries
  <2>2. End(r) \/ To(r, [at |-> "policy", plan |-> request[r].plan, fresh |-> FALSE])
    BY <1>14 DEF Assign
  <2> QED
    BY <1>3, <1>10, <2>1, <2>2
<1>15. ASSUME NEW q, NEW kind \in Kinds, q.of \in Contents PROVE Carries(Following(q, kind), plan')
    BY <1>15 DEF Carries, Following
<1>16. ASSUME NEW r \in Slots, ReadPolicy(r) PROVE CarriesMove
  <2> DEFINE p == request[r].plan  q == [of |-> <<p, plan[p].policy>>, fresh |-> request[r].fresh]
  <2>1. Saved(p, plan)
    BY <1>16 DEF ReadPolicy, At, TypeInv, Carries
  <2>2. q.of \in Contents
    BY <2>1 DEF Contents, Saved, TypeInv, PoliciesNumbered, PlanInv, PlanRow
  <2>3. End(r) \/ To(r, Following(q, "permissions"))
    BY <1>16 DEF ReadPolicy
  <2> HIDE DEF q
  <2> QED
    BY <1>2, <1>3, <1>15, <2>2, <2>3 DEF Kinds
<1>17. ASSUME NEW r \in Slots, At(r, "expect") \/ At(r, "apply") \/ At(r, "insert")
       PROVE  LET q == request[r] IN
              {"at", "kind", "of"} \subseteq DOMAIN q /\ q.kind \in Kinds /\ q.of \in Contents
    BY <1>17 DEF At, TypeInv, Carries
<1>18. ASSUME NEW r \in Slots, Apply(r) \/ Insert(r) PROVE CarriesMove
  <2> DEFINE q == request[r]
  <2>1. {"at", "kind", "of"} \subseteq DOMAIN q /\ q.kind \in Kinds /\ q.of \in Contents
    BY <1>17, <1>18 DEF Apply, Insert
  <2>2. End(r) \/ To(r, [q EXCEPT !.at = "insert"]) \/ To(r, Following(q, "quota"))
    BY <1>18 DEF Apply, Insert, Done
  <2> HIDE DEF q
  <2>3. Carries([q EXCEPT !.at = "insert"], plan')
    BY <2>1 DEF Carries
  <2> QED
    BY <1>2, <1>3, <1>15, <2>1, <2>2, <2>3 DEF Kinds
<1>19. ASSUME NEW r \in Slots, ReadRevision(r) PROVE CarriesMove
  <2> DEFINE q == request[r]
             n == fact[q.kind].revision
  <2>1. {"at", "kind", "of"} \subseteq DOMAIN q /\ q.kind \in Kinds /\ q.of \in Contents
    BY <1>17, <1>19 DEF ReadRevision
  <2>2. To(r, [q EXCEPT !.at = "apply", !.expected = n])
    BY <1>19 DEF ReadRevision
  <2> HIDE DEF q, n
  <2>3. Carries([q EXCEPT !.at = "apply", !.expected = n], plan')
    BY <2>1 DEF Carries
  <2> QED
    BY <1>2, <2>2, <2>3
<1>20. ASSUME NEW r \in Slots, Crash(r) PROVE CarriesMove
    BY <1>3, <1>20 DEF Crash
<1>21. ASSUME (\E o \in Orders : CloseOrder(o)) \/ (\E y \in Payments : Pay(y)) PROVE CarriesMove
    BY <1>21 DEF CloseOrder, Pay, CarriesMove
<1>22. CASE Purchase
    BY <1>5, <1>6, <1>7, <1>8, <1>9, <1>11, <1>21, <1>22 DEF Purchase
<1>23. CASE Platform
    BY <1>12, <1>13, <1>14, <1>23 DEF Platform
<1>24. CASE Entitle
    BY <1>16, <1>18, <1>19, <1>20, <1>24 DEF Entitle
<1> QED
    BY <1>22, <1>23, <1>24

\* What a request leaves behind.
LEMMA RowsOfPlans ==
    ASSUME PlanInv, PaidInv, TypeInv, Purchase \/ Platform \/ Entitle
    PROVE  OrdersOfPlans'
<1> plan' = plan
    BY RequestsKeepPlans
<1> SUFFICES ASSUME NEW o \in Orders, order'[o].status # "NONE" PROVE Saved(order'[o].plan, plan)
    BY DEF OrdersOfPlans
<1>1. CASE order'[o] = order[o]
    BY <1>1 DEF TypeInv, OrdersOfPlans
<1>2. CASE order'[o].plan = order[o].plan /\ order[o].status # "NONE"
    BY <1>2 DEF TypeInv, OrdersOfPlans
<1>3. order \in [Orders -> OrderRow]
    BY DEF PaidInv, RowsInv
<1>4. ASSUME NEW r \in Slots, CreateOrder(r) PROVE Saved(order'[o].plan, plan)
  <2> DEFINE q == request[r]
             row == [status |-> "PENDING", plan |-> q.plan, days |-> q.days, pay |-> None]
  <2>1. Saved(q.plan, plan)
    BY <1>4 DEF CreateOrder, At, TypeInv, Carries
  <2>2. UNCHANGED order \/ \E u \in Orders : order' = [order EXCEPT ![u] = row]
    BY <1>4 DEF CreateOrder
  <2>3. row.plan = q.plan
    OBVIOUS
  <2> HIDE DEF q, row
  <2> QED
    BY <1>1, <1>3, <2>1, <2>2, <2>3
<1>5. ASSUME NEW r \in Slots, AttachPayment(r) PROVE Saved(order'[o].plan, plan)
    BY <1>1, <1>2, <1>3, <1>5 DEF AttachPayment, OrderRow
<1>6. ASSUME NEW r \in Slots, Activate(r) PROVE Saved(order'[o].plan, plan)
    BY <1>1, <1>2, <1>3, <1>6 DEF Activate, Payable, OrderRow
<1>7. ASSUME NEW u \in Orders, CloseOrder(u) PROVE Saved(order'[o].plan, plan)
    BY <1>1, <1>2, <1>3, <1>7 DEF CloseOrder, OrderRow
<1>8. CASE UNCHANGED order
    BY <1>1, <1>8
<1>9. CASE Purchase
  <2>1. ASSUME NEW r \in Slots,
               \/ \E p \in Plans : BeginPurchase(r, p)
               \/ \E y \in Payments, paid \in BOOLEAN : Charge(r, y, paid)
               \/ \E u \in Orders : BeginSettle(r, u)
               \/ AskStatus(r)
        PROVE  UNCHANGED order
    BY <2>1 DEF BeginPurchase, Charge, BeginSettle, AskStatus, purchase
  <2>2. ASSUME NEW y \in Payments, Pay(y) PROVE UNCHANGED order
    BY <2>2 DEF Pay
  <2> QED
    BY <1>4, <1>5, <1>6, <1>7, <1>8, <1>9, <2>1, <2>2 DEF Purchase
<1>10. CASE Platform
    BY <1>8, <1>10 DEF Platform, OpenMerchant, BeginAssign, Assign, purchase
<1>11. CASE Entitle
    BY <1>8, <1>11 DEF Entitle, ReadPolicy, ReadRevision, Apply, Insert, Crash, purchase
<1> QED
    BY <1>9, <1>10, <1>11

LEMMA AssignmentsTyped ==
    ASSUME TypeInv, NEW p \in Plans, NEW expires \in Nat \cup {None}, Assigned(p, expires)
    PROVE  assignment' \in AssignmentRow
<1>1. assignment.version + 1 \in Nat
    BY DEF TypeInv, AssignmentRow
<1> QED
    BY <1>1 DEF Assigned, AssignmentRow

LEMMA MerchantsTyped ==
    ASSUME Durations \subseteq Nat, MaxTime \in Nat,
           PlanInv, PaidInv, TypeInv, Purchase \/ Platform \/ Entitle
    PROVE  /\ now' = now /\ commands' \in Nat /\ assigns' \in Nat /\ opened' \in BOOLEAN
           /\ assignment' \in AssignmentRow /\ fact' \in [Kinds -> FactRow]
<1>0. \A d \in Durations \cup {0} : d \in Nat
    OBVIOUS
<1>1. now \in Nat /\ commands \in Nat /\ assigns \in Nat /\ opened \in BOOLEAN
    BY DEF TypeInv
<1>2. now' = now
    BY DEF Purchase, BeginPurchase, CreateOrder, Charge, AttachPayment, BeginSettle, AskStatus,
           Activate, CloseOrder, Pay, Platform, OpenMerchant, BeginAssign, Assign, Entitle, ReadPolicy,
           ReadRevision, Apply, Insert, Crash
<1>3. commands' \in {commands, commands + 1}
    BY DEF Purchase, BeginPurchase, CreateOrder, Charge, AttachPayment, BeginSettle, AskStatus,
           Activate, CloseOrder, Pay, Platform, OpenMerchant, BeginAssign, Assign, Entitle, ReadPolicy,
           ReadRevision, Apply, Insert, Crash, Command
<1>4. assigns' \in {assigns, assigns + 1}
    BY DEF Purchase, BeginPurchase, CreateOrder, Charge, AttachPayment, BeginSettle, AskStatus,
           Activate, CloseOrder, Pay, Platform, OpenMerchant, BeginAssign, Assign, Entitle, ReadPolicy,
           ReadRevision, Apply, Insert, Crash, merchant
<1>5. opened' = opened \/ opened' = TRUE
    BY DEF Purchase, BeginPurchase, CreateOrder, Charge, AttachPayment, BeginSettle, AskStatus,
           Activate, CloseOrder, Pay, Platform, OpenMerchant, BeginAssign, Assign, Entitle, ReadPolicy,
           ReadRevision, Apply, Insert, Crash, merchant
<1>6. assignment' \in AssignmentRow
  <2>1. CASE UNCHANGED assignment
    BY <2>1 DEF TypeInv
  <2>2. ASSUME NEW r \in Slots, Activate(r) PROVE assignment' \in AssignmentRow
    <3> DEFINE o == request[r].order
    <3>1. \/ UNCHANGED assignment
          \/ order[o].status = "PENDING" /\ Assigned(order[o].plan, Renewed(order[o].plan, order[o].days))
        BY <2>2 DEF Activate, Payable
    <3>2. o \in Orders
        BY <2>2 DEF Activate, At, PaidInv, RequestsKnow, Knows
    <3>3. order[o].days \in Nat
      <4>1. order[o].days \in Durations \cup {0}
        BY <3>2 DEF PaidInv, RowsInv, OrderRow
      <4> QED
        BY <1>0, <4>1
    <3>4. order[o].status = "PENDING" => order[o].plan \in Plans
        BY <3>2 DEF TypeInv, OrdersOfPlans, Saved
    <3>5. assignment.expires \in Nat \cup {None}
        BY DEF TypeInv, AssignmentRow
    <3> HIDE DEF o
    <3>6. Renewed(order[o].plan, order[o].days) \in Nat \cup {None}
        BY <1>1, <3>3, <3>5 DEF Renewed
    <3> QED
        BY <2>1, <3>1, <3>4, <3>6, AssignmentsTyped
  <2>3. ASSUME NEW r \in Slots, Assign(r) PROVE assignment' \in AssignmentRow
    <3> DEFINE q == request[r]
    <3>1. UNCHANGED assignment \/ Assigned(q.plan, IF q.days = 0 THEN None ELSE now + q.days)
        BY <2>3 DEF Assign
    <3>2. q.plan \in Plans /\ q.days \in Nat
      <4>1. q.plan \in Plans /\ q.days \in Durations \cup {0}
        BY <2>3 DEF Assign, At, TypeInv, Carries, Saved
      <4> QED
        BY <1>0, <4>1
    <3> HIDE DEF q
    <3>3. (IF q.days = 0 THEN None ELSE now + q.days) \in Nat \cup {None}
        BY <1>1, <3>2
    <3> QED
        BY <2>1, <3>1, <3>2, <3>3, AssignmentsTyped
  <2>4. CASE Purchase
    <3>1. ASSUME NEW r \in Slots,
               \/ \E p \in Plans : BeginPurchase(r, p)
               \/ CreateOrder(r) \/ AttachPayment(r)
               \/ \E y \in Payments, paid \in BOOLEAN : Charge(r, y, paid)
               \/ \E u \in Orders : BeginSettle(r, u)
               \/ AskStatus(r)
          PROVE  UNCHANGED assignment
        BY <3>1 DEF BeginPurchase, CreateOrder, AttachPayment, Charge, BeginSettle, AskStatus, merchant
    <3>2. ASSUME (\E o \in Orders : CloseOrder(o)) \/ (\E y \in Payments : Pay(y))
          PROVE  UNCHANGED assignment
        BY <3>2 DEF CloseOrder, Pay, merchant
    <3> QED
        BY <2>1, <2>2, <2>4, <3>1, <3>2 DEF Purchase
  <2>5. CASE Platform
    <3>1. ASSUME NEW r \in Slots, OpenMerchant(r) \/ (\E p \in Plans : BeginAssign(r, p))
          PROVE  UNCHANGED assignment
        BY <3>1 DEF OpenMerchant, BeginAssign, merchant
    <3> QED
        BY <2>1, <2>3, <2>5, <3>1 DEF Platform
  <2>6. CASE Entitle
    BY <2>1, <2>6 DEF Entitle, ReadPolicy, ReadRevision, Apply, Insert, Crash, merchant
  <2> QED
    BY <2>4, <2>5, <2>6
<1>7. fact' \in [Kinds -> FactRow]
  <2>1. CASE UNCHANGED fact
    BY <2>1 DEF TypeInv
  <2>2. ASSUME NEW r \in Slots, Apply(r) \/ Insert(r) PROVE fact' \in [Kinds -> FactRow]
    <3> DEFINE q == request[r]
    <3>1. q.kind \in Kinds /\ q.of \in Contents
        BY <2>2 DEF Apply, Insert, At, TypeInv, Carries
    <3>2. fact[q.kind].revision + 1 \in Nat /\ fact \in [Kinds -> FactRow]
        BY <3>1 DEF TypeInv, FactRow
    <3>3. \/ UNCHANGED fact
          \/ \E n \in Nat : fact' = [fact EXCEPT ![q.kind] = [revision |-> n, of |-> q.of]]
        BY <2>2, <3>2 DEF Apply, Insert
    <3> HIDE DEF q
    <3>4. \A n \in Nat : [revision |-> n, of |-> q.of] \in FactRow
        BY <3>1 DEF FactRow
    <3> QED
        BY <3>2, <3>3, <3>4
  <2>3. CASE Purchase
    BY <2>1, <2>3 DEF Purchase, BeginPurchase, CreateOrder, Charge, AttachPayment, BeginSettle, AskStatus,
           Activate, CloseOrder, Pay, merchant
  <2>4. CASE Platform
    BY <2>1, <2>4 DEF Platform, OpenMerchant, BeginAssign, Assign, merchant
  <2>5. CASE Entitle
    BY <2>1, <2>2, <2>5 DEF Entitle, ReadPolicy, ReadRevision, Crash, merchant
  <2> QED
    BY <2>3, <2>4, <2>5
<1>8. commands' \in Nat /\ assigns' \in Nat
    BY <1>1, <1>3, <1>4
<1>9. opened' \in BOOLEAN
    BY Zenon, <1>1, <1>5
<1> QED
    BY <1>2, <1>6, <1>7, <1>8, <1>9

LEMMA TypeNext ==
    ASSUME Durations \subseteq Nat, MaxTime \in Nat, PlanInv, PaidInv, TypeInv, [Next]_vars
    PROVE  TypeInv'
<1>1. CASE Purchase \/ Platform \/ Entitle
  <2>1. plan' = plan
    BY <1>1, RequestsKeepPlans
  <2>2. \A r \in Slots : Carries(request[r], plan)'
    BY <1>1, <2>1, CarriesOn, StillCarried DEF PlansStay, PaidInv, TypeInv
  <2> QED
    BY <1>1, <2>1, <2>2, MerchantsTyped, RowsOfPlans DEF TypeInv, PoliciesNumbered
<1>2. CASE Tick \/ UNCHANGED vars
  <2>1. now' \in 0..MaxTime /\ UNCHANGED <<plan, order, assignment, assigns, fact, opened, request, commands>>
    BY <1>2 DEF Tick, vars, purchase, merchant, TypeInv
  <2> QED
    BY <2>1 DEF TypeInv, PoliciesNumbered, OrdersOfPlans
<1> QED
    BY <1>1, <1>2, CatalogueKeepsTypes DEF Next

LEMMA WellTyped ==
    ASSUME PlanInv, PaidInv, TypeInv
    PROVE  TypeOK
BY DEF PlanInv, PlanRow, PaidInv, RowsInv, OrderRow, PaymentRow, TypeInv, PoliciesNumbered,
       AssignmentRow, FactRow, Contents, TypeOK
=============================================================================
