------------------------------ MODULE Fulfilment ------------------------------
(***************************************************************************)
(* What a merchant does with the orders of a shop:                         *)
(*   data/fulfillment/repository_shipping.go   shipping rules and presets  *)
(*   data/fulfillment/shipment.go              parcels                     *)
(*   data/fulfillment/repository_aftersale.go, repository.go               *)
(*                                             after-sales, complaints     *)
(* Every command locks the shop, then the row.  The writes of rules and    *)
(* presets read the platform's restriction before their transaction; a rule*)
(* and a preset are rows of two tables with the same life, and of what is  *)
(* in them only the default flag of a preset is kept.                      *)
(*                                                                         *)
(* An operator no action uses is its neighbour with a fault in it.         *)
(***************************************************************************)
EXTENDS Merchants

CONSTANTS
    Rules, Presets, Shipments, Aftersales, Complaints,
    ShopOrders,     \* orders, at the order service
    Writers,        \* shipping writes that may be in progress at a time
    MaxTraces,      \* MaxShipmentTraces
    MaxAmount       \* bound: amounts of after-sales

ASSUME FulfilmentAssumption == {MaxTraces, MaxAmount} \subseteq Nat

VARIABLES
    shipping,       \* identity_shipping_rule and identity_shipping_preset
    writing,        \* shipping writes past the check of the restriction
    shipment,       \* identity_shipment
    aftersale,      \* identity_aftersale with its items
    complaint       \* identity_complaint

fulfilment == <<shipping, writing, shipment, aftersale, complaint>>

NoShipping  == [status |-> "NONE", shop |-> 0, default |-> FALSE, version |-> 0]
NoShipment  == [status |-> "NONE", shop |-> 0, order |-> None, traces |-> 0]

\* What a merchant may ask for.
NewRules         == Open
NewPresets       == [status : Open, default : BOOLEAN]
AftersaleReviews == [status : {"APPROVED", "REJECTED"}, amount : 0..(MaxAmount + 1)]
ComplaintReviews == {"ACCEPTED", "REJECTED"}

Live(x) == shipping[x].status \in Open
DefaultsOf(s) == {x \in Presets : Live(x) /\ shipping[x].shop = s /\ shipping[x].default}

\* After-sales and complaints are filed by another service: a first shop has some.
FulfilmentInit ==
    /\ shipping = [x \in Rules \cup Presets |-> NoShipping]
    /\ writing = [w \in Writers |-> None]
    /\ shipment = [x \in Shipments |-> NoShipment]
    /\ \E type \in {"REFUND_ONLY", "RETURN_REFUND"}, amount \in 1..MaxAmount :
        aftersale = [x \in Aftersales |->
            [status |-> "PENDING", shop |-> 1, type |-> type, requested |-> amount, amount |-> amount,
             return |-> IF type = "RETURN_REFUND" THEN "PENDING" ELSE "NOT_REQUIRED", received |-> FALSE]]
    /\ complaint = [x \in Complaints |-> [status |-> "OPEN", shop |-> 1]]

-----------------------------------------------------------------------------
(* Shipping rules and presets                                              *)

\* prepareShippingWrite: the restriction is read, and the write is on its way
\* with the version of the row that the merchant saw.
BeginShippingWrite(w, x, s) ==
    /\ Command
    /\ Fresh(w, writing, None)
    /\ shipping[x].status # "NONE" => shipping[x].shop = s
    /\ Unrestricted(s, "shipping")
    /\ writing' = [writing EXCEPT ![w] = [row |-> x, shop |-> s, seen |-> shipping[x].version]]
    /\ UNCHANGED <<tenancy, shipping, shipment, aftersale, complaint>>

\* The write is refused if the shop was closed, or the row changed or retired;
\* a row that was not there when it began is inserted.
ReadyWherever(q) ==
    /\ shipping[q.row].version = q.seen
    /\ shipping[q.row].status # "RETIRED"
Ready(q) == ShopOpen(q.shop) /\ ReadyWherever(q)

Written(w, rows) ==
    /\ shipping' = IF Ready(writing[w]) THEN rows ELSE shipping
    /\ writing' = [writing EXCEPT ![w] = None]
    /\ UNCHANGED <<writes, tenancy, shipment, aftersale, complaint>>

\* A preset that becomes the default takes the flag, and a version, from the other.
PutShippingBeside(q, c) ==
    [shipping EXCEPT ![q.row] = [status |-> c.status, shop |-> q.shop, default |-> c.default,
                                 version |-> @.version + 1]]
PutShipping(q, c) ==
    [x \in Rules \cup Presets |->
        IF x = q.row
        THEN [status |-> c.status, shop |-> q.shop, default |-> c.default,
              version |-> shipping[x].version + 1]
        ELSE IF c.default /\ x \in DefaultsOf(q.shop)
        THEN [shipping[x] EXCEPT !.default = FALSE, !.version = @ + 1]
        ELSE shipping[x]]

\* The write of a row of rows is at its transaction.
Of(w, rows) == writing[w] # None /\ writing[w].row \in rows

SaveRule(w, status) ==
    /\ Of(w, Rules)
    /\ Written(w, PutShipping(writing[w], [status |-> status, default |-> FALSE]))

SavePreset(w, c) ==
    /\ Of(w, Presets)
    /\ Written(w, PutShipping(writing[w], c))

\* A disabled preset may stay the default.
SetPresetEnabled(w, status) ==
    /\ Of(w, Presets) /\ writing[w].seen > 0
    /\ Written(w, [shipping EXCEPT ![writing[w].row].status = status,
                                   ![writing[w].row].version = @ + 1])

Retired(x) == [shipping EXCEPT ![x].status = "RETIRED", ![x].default = FALSE,
                               ![x].version = @ + 1]

RetireRule(w) ==
    /\ Of(w, Rules) /\ writing[w].seen > 0
    /\ Written(w, Retired(writing[w].row))

RetirePreset(w) ==
    /\ Of(w, Presets) /\ writing[w].seen > 0
    /\ Written(w, Retired(writing[w].row))

-----------------------------------------------------------------------------
(* Parcels, after-sales and complaints                                     *)

ShopWrite(s) == Command /\ ShopOpen(s) /\ UNCHANGED <<tenancy, shipping, writing>>

ParcelCommand(s)    == ShopWrite(s) /\ UNCHANGED <<aftersale, complaint>>
AftersaleCommand(s) == ShopWrite(s) /\ UNCHANGED <<shipment, complaint>>
ComplaintCommand(s) == ShopWrite(s) /\ UNCHANGED <<shipment, aftersale>>

\* An order is shipped once.
Shipped(s, o) == \E x \in Shipments : shipment[x].shop = s /\ shipment[x].order = o

Ship(x, s, o) ==
    /\ ParcelCommand(s)
    /\ Fresh(x, shipment, NoShipment) /\ ~Shipped(s, o)
    /\ shipment' = [shipment EXCEPT ![x] =
            [status |-> "SHIPPED", shop |-> s, order |-> o, traces |-> 0]]

AddTrace(x) ==
    /\ shipment[x].status = "SHIPPED"
    /\ ParcelCommand(shipment[x].shop)
    /\ shipment[x].traces < MaxTraces
    /\ shipment' = [shipment EXCEPT ![x].traces = @ + 1]

CloseShipment(x) ==
    /\ shipment[x].status = "SHIPPED"
    /\ ParcelCommand(shipment[x].shop)
    /\ shipment' = [shipment EXCEPT ![x].status = "DELIVERED"]

\* Approved for what was asked or less; 0 leaves the amount.
ReviewAftersale(x, c) ==
    LET granted == IF c.status = "APPROVED" /\ c.amount > 0 THEN c.amount
                   ELSE aftersale[x].amount IN
    /\ AftersaleCommand(aftersale[x].shop)
    /\ aftersale[x].status = "PENDING"
    /\ c.status = "APPROVED" => granted \in 1..aftersale[x].requested
    /\ aftersale' = [aftersale EXCEPT ![x].status = c.status, ![x].amount = granted]

\* The goods come back after the approval, before or after the refund; all
\* items are received at once.
Receivable(x) ==
    /\ aftersale[x].return = "PENDING"
    /\ aftersale[x].status \in {"APPROVED", "REFUNDED"}

ReceiveAftersale(x) ==
    /\ AftersaleCommand(aftersale[x].shop)
    /\ Receivable(x)
    /\ aftersale' = [aftersale EXCEPT ![x].return = "RECEIVED", ![x].received = TRUE]

\* The refund service pays an approved after-sale.
Refund(x) ==
    /\ aftersale[x].status = "APPROVED"
    /\ aftersale' = [aftersale EXCEPT ![x].status = "REFUNDED"]
    /\ UNCHANGED <<writes, tenancy, shipping, writing, shipment, complaint>>

ReviewComplaint(x, status) ==
    /\ ComplaintCommand(complaint[x].shop)
    /\ complaint[x].status = "OPEN"
    /\ complaint' = [complaint EXCEPT ![x].status = status]

-----------------------------------------------------------------------------

RuleRequest(w) == (\E status \in NewRules : SaveRule(w, status)) \/ RetireRule(w)

PresetRequest(w) ==
    \/ \E c \in NewPresets : SavePreset(w, c)
    \/ \E status \in Open : SetPresetEnabled(w, status)
    \/ RetirePreset(w)

ParcelRequest(x) ==
    \/ \E s \in ShopIds, o \in ShopOrders : Ship(x, s, o)
    \/ AddTrace(x) \/ CloseShipment(x)

AftersaleRequest(x) ==
    (\E c \in AftersaleReviews : ReviewAftersale(x, c)) \/ ReceiveAftersale(x)

FulfilmentStep ==
    \/ \E w \in Writers :
        \/ \E x \in Rules \cup Presets, s \in ShopIds : ShopOpen(s) /\ BeginShippingWrite(w, x, s)
        \/ RuleRequest(w) \/ PresetRequest(w)
    \/ \E x \in Shipments : ParcelRequest(x)
    \/ \E x \in Aftersales : AftersaleRequest(x) \/ Refund(x)
    \/ \E x \in Complaints, status \in ComplaintReviews : ReviewComplaint(x, status)

\* ValidatePersisted, without which nobody can read a row again.
PresetReadable(x) == shipping[x].status = "RETIRED" \/ shipping[x].status \in Open
ShipmentReadable(x) == shipment[x].status \in {"SHIPPED", "DELIVERED"} /\ shipment[x].traces <= MaxTraces
AftersaleReadable(x) == LET a == aftersale[x] IN
    /\ a.status \in {"PENDING", "APPROVED", "REJECTED", "REFUNDED"}
    /\ 1 <= a.amount /\ a.amount <= a.requested
    /\ a.type = "REFUND_ONLY" <=> a.return = "NOT_REQUIRED"
    /\ a.return = "RECEIVED" <=> a.received
ComplaintReadable(x) == complaint[x].status \in {"OPEN", "ACCEPTED", "REJECTED"}

FulfilmentTypeOK ==
    /\ \A x \in Rules \cup Presets :
        /\ shipping[x] = NoShipping \/ PresetReadable(x)
        /\ shipping[x].shop \in 0..MaxShops /\ shipping[x].version \in Nat
        /\ shipping[x].default => x \in Presets
    /\ \A w \in Writers : writing[w] # None => writing[w].row \in Rules \cup Presets
    /\ \A x \in Shipments :
        /\ shipment[x] = NoShipment \/ ShipmentReadable(x)
        /\ shipment[x].shop \in 0..MaxShops /\ shipment[x].order \in ShopOrders \cup {None}
    /\ \A x \in Aftersales : AftersaleReadable(x)
    /\ \A x \in Complaints : ComplaintReadable(x) /\ complaint[x].shop \in 0..MaxShops

\* A shop has one default preset, an order one parcel; and nothing was taken
\* back before the return was approved.
FulfilmentSelected ==
    /\ \A s \in ShopIds : Cardinality(DefaultsOf(s)) <= 1
    /\ \A x, y \in Shipments : x # y /\ shipment[x] # NoShipment =>
            <<shipment[x].shop, shipment[x].order>> # <<shipment[y].shop, shipment[y].order>>
    /\ \A x \in Aftersales : aftersale[x].received => aftersale[x].status \in {"APPROVED", "REFUNDED"}
=============================================================================
