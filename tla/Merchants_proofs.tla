--------------------------- MODULE Merchants_proofs ---------------------------
(***************************************************************************)
(* Proofs about Merchants, for every number of merchants, shops, people and*)
(* commands: what is closed is empty, and every other merchant keeps a shop*)
(* and an owner who operates all of its shops.  Merchants has no initial   *)
(* states and steps of its own; the theorems are those of Backoffice.      *)
(***************************************************************************)
EXTENDS Merchants, FiniteSetTheorems, TLAPS

-----------------------------------------------------------------------------
(* Ids.  The largest id and one more is free because none was ever left    *)
(* out: the rows that exist are those up to a number.                      *)

Dense(rows, n, none) ==
    /\ DOMAIN rows = 1..n
    /\ \E k \in 0..n : \A x \in 1..n : rows[x] # none <=> x <= k

LEMMA DenseUpTo ==
    ASSUME NEW n \in Nat, NEW rows, NEW none, DOMAIN rows = 1..n, NEW k \in 0..n,
           \A x \in 1..n : rows[x] # none <=> x <= k
    PROVE  Dense(rows, n, none)
BY DEF Dense

LEMMA NextIdIsNext ==
    ASSUME NEW n \in Nat, NEW rows, NEW none, Dense(rows, n, none)
    PROVE  /\ NextId(rows, none) \in 1..(n + 1)
           /\ \A x \in 1..n : rows[x] # none <=> x < NextId(rows, none)
<1>1. PICK k \in 0..n : \A x \in 1..n : rows[x] # none <=> x <= k
    BY DEF Dense
<1>2. {x \in DOMAIN rows : rows[x] # none} = 1..k
    BY <1>1 DEF Dense
<1>3. Cardinality(1..k) = k
    BY FS_Interval
<1>4. NextId(rows, none) = 1 + k
    BY <1>2, <1>3 DEF NextId
<1> QED
    BY <1>1, <1>4

LEMMA StaysDense ==
    ASSUME NEW n \in Nat, NEW rows, NEW none, Dense(rows, n, none),
           NextId(rows, none) \in 1..n,
           NEW new, DOMAIN new = 1..n, new[NextId(rows, none)] # none,
           \A x \in 1..n : x # NextId(rows, none) => new[x] = rows[x]
    PROVE  rows[NextId(rows, none)] = none /\ Dense(new, n, none)
<1>1. \A x \in 1..n : rows[x] # none <=> x < NextId(rows, none)
    BY NextIdIsNext
<1>2. \A x \in 1..n : new[x] # none <=> x <= NextId(rows, none)
    BY <1>1
<1>3. NextId(rows, none) \in 0..n
    OBVIOUS
<1>4. Dense(new, n, none)
    BY <1>2, <1>3 DEF Dense
<1> QED
    BY <1>1, <1>4

-----------------------------------------------------------------------------
(* Who belongs to what.  A merchant has one owner, so the owner that a new *)
(* shop is given to is the one who has the others.                         *)

OneOwner == \A p, q \in People :
                person[p].merchant # 0 /\ person[p].merchant = person[q].merchant => p = q

Belong ==
    /\ \A s \in ShopIds : shop[s].status # "NONE" =>
            shop[s].merchant \in MerchantIds /\ merchant[shop[s].merchant].status # "NONE"
    /\ \A p \in People : person[p].merchant # 0 => merchant[person[p].merchant].status # "NONE"

\* Who was revoked has lost everything else too.
Stripped == \A p \in People : person[p].member = "REVOKED" =>
    person[p].credential = "CLOSED" /\ person[p].shops = {} /\ ~person[p].session

Numbered == Dense(merchant, MaxMerchants, NoMerchant) /\ Dense(shop, MaxShops, NoShop)

\* A shop has a code, and no other has that or its subdomain, whether it is open or not.
SlugsApart == \A s \in ShopIds :
    /\ shop[s].status # "NONE" => shop[s].code # 0
    /\ \A t \in ShopIds \ {s} :
        /\ shop[s].code # 0 => shop[t].code # shop[s].code
        /\ shop[s].subdomain # 0 => shop[t].subdomain # shop[s].subdomain

TenancyInv == /\ MerchantsTypeOK
              /\ Numbered /\ OneOwner /\ Belong /\ Stripped /\ SlugsApart
              /\ ClosedIsEmpty

MerchantRows == [status : Open \cup {"NONE", "CLOSED"}, organization : Open \cup {"NONE", "CLOSED"}]
ShopRows == [status : Open \cup {"NONE", "CLOSED"}, code : 0..(MaxShops + MaxMerchants),
             subdomain : Nat, merchant : 0..MaxMerchants, category : Categories \cup {None}]
PersonRows == [merchant : 0..MaxMerchants, member : {"NONE", "ACTIVE", "REVOKED"},
               credential : {"NONE", "ACTIVE", "CLOSED"}, shops : SUBSET ShopIds, session : BOOLEAN]

LEMMA Rows ==
    ASSUME MerchantsTypeOK
    PROVE  /\ merchant \in [MerchantIds -> MerchantRows] /\ shop \in [ShopIds -> ShopRows]
           /\ person \in [People -> PersonRows] /\ MaxMerchants \in Nat /\ MaxShops \in Nat
           /\ 1 \in MerchantIds
BY MerchantsAssumption DEF MerchantsTypeOK, MerchantRows, ShopRows, PersonRows, MerchantIds

\* A command counts; the rest of the types is the rows'.
LEMMA TypesStay ==
    ASSUME MerchantsTypeOK, Command \/ UNCHANGED writes,
           merchant' \in [MerchantIds -> MerchantRows], shop' \in [ShopIds -> ShopRows],
           person' \in [People -> PersonRows], UNCHANGED <<category, overlay>>
    PROVE  MerchantsTypeOK'
BY MerchantsAssumption DEF MerchantsTypeOK, MerchantRows, ShopRows, PersonRows, Command

LEMMA TenancyStays ==
    ASSUME TenancyInv, Command \/ UNCHANGED writes, UNCHANGED tenancy
    PROVE  TenancyInv'
<1>1. MerchantsTypeOK'
    BY Rows, TypesStay DEF TenancyInv, tenancy
<1>2. ClosedIsEmpty'
    BY DEF TenancyInv, ClosedIsEmpty, ShopsOf, ShopOpen, OwnersOf, tenancy
<1> QED
    BY <1>1, <1>2 DEF TenancyInv, Numbered, OneOwner, Belong, Stripped, SlugsApart, tenancy

\* Commands that leave the names of the shops there are as they are.
LEMMA SlugsStayApart ==
    ASSUME SlugsApart,
           \A s \in ShopIds : /\ shop'[s].code = shop[s].code /\ shop'[s].subdomain = shop[s].subdomain
                              /\ shop'[s].status # "NONE" => shop[s].status # "NONE"
    PROVE  SlugsApart'
BY DEF SlugsApart

\* A shop is inserted with a code and a subdomain that no other has.
LEMMA NewSlugsApart ==
    ASSUME SlugsApart, NEW s \in ShopIds, NEW code, NEW name, code # 0, CodeFree(code),
           name # 0 => SubdomainFree(name, s),
           shop'[s].code = code, shop'[s].subdomain = name,
           \A t \in ShopIds \ {s} : shop'[t] = shop[t]
    PROVE  SlugsApart'
<1>1. ASSUME NEW t \in ShopIds \ {s}
      PROVE  /\ shop'[t] = shop[t] /\ shop'[t].code # code
             /\ shop'[t].subdomain # 0 => shop'[t].subdomain # name
    BY <1>1 DEF CodeFree, SubdomainFree
<1>2. ASSUME NEW t \in ShopIds
      PROVE  /\ shop'[t].status # "NONE" => shop'[t].code # 0
             /\ \A x \in ShopIds \ {t} :
                  /\ shop'[t].code # 0 => shop'[x].code # shop'[t].code
                  /\ shop'[t].subdomain # 0 => shop'[x].subdomain # shop'[t].subdomain
  <2>1. CASE t = s
    <3>1. \A x \in ShopIds \ {s} : shop'[x] = shop[x] /\ shop[x].code # code
        BY DEF CodeFree
    <3>2. name # 0 => \A x \in ShopIds \ {s} : shop[x].subdomain # name
        BY DEF SubdomainFree
    <3> QED
        BY <2>1, <3>1, <3>2
  <2>2. CASE t # s
    <3>1. /\ shop[t].status # "NONE" => shop[t].code # 0
          /\ \A x \in ShopIds \ {t} :
                /\ shop[t].code # 0 => shop[x].code # shop[t].code
                /\ shop[t].subdomain # 0 => shop[x].subdomain # shop[t].subdomain
        BY DEF SlugsApart
    <3> QED
        BY <1>1, <2>2, <3>1
  <2> QED
    BY <2>1, <2>2
<1> QED
    BY <1>2 DEF SlugsApart

\* So every slug leads where it should.
LEMMA SlugsHold ==
    ASSUME TenancyInv
    PROVE  SlugsResolve
<1> USE DEF TenancyInv, SlugsApart
<1>1. ASSUME NEW s \in ShopIds, ShopOpen(s) PROVE BySlug(shop[s].code) = {s}
  <2>1. shop[s].code # 0
    BY <1>1 DEF ShopOpen, Open
  <2>2. {t \in ShopIds : ShopOpen(t) /\ shop[t].code = shop[s].code} = {s}
    BY <1>1, <2>1
  <2> QED
    BY <2>2 DEF BySlug
<1>2. ASSUME NEW s \in ShopIds, ShopOpen(s), shop[s].subdomain # 0
      PROVE  \E t \in ShopIds : /\ BySlug(shop[s].subdomain) = {t}
                                /\ t = s \/ shop[t].code = shop[s].subdomain
  <2>1. {t \in ShopIds : ShopOpen(t) /\ shop[t].subdomain = shop[s].subdomain} = {s}
    BY <1>2
  <2>2. CASE \E t \in ShopIds : ShopOpen(t) /\ shop[t].code = shop[s].subdomain
    BY <1>1, <2>2
  <2>3. CASE ~\E t \in ShopIds : ShopOpen(t) /\ shop[t].code = shop[s].subdomain
    <3>1. BySlug(shop[s].subdomain) = {s}
        BY <2>1, <2>3 DEF BySlug
    <3> QED
        BY <3>1
  <2> QED
    BY <2>2, <2>3
<1> QED
    BY <1>1, <1>2 DEF SlugsResolve

LEMMA TenancyInit ==
    ASSUME writes \in 0..MaxWrites, MerchantsInit
    PROVE  TenancyInv
<1> DEFINE owner == CHOOSE p \in People : TRUE
<1>1. owner \in People
    BY MerchantsAssumption
<1> HIDE DEF owner
<1>2. PICK n \in FirstShops :
        /\ shop = [x \in ShopIds |-> IF x <= n THEN ShopRow(1, x, OwnName(x), None, "ACTIVE") ELSE NoShop]
        /\ person = [x \in People |-> IF x = owner THEN OwnerRow(1, 1..n) ELSE NoPerson]
    BY DEF MerchantsInit, owner
<1>3. /\ n \in 1..MaxShops /\ MaxMerchants \in Nat \ {0} /\ MaxShops \in Nat \ {0}
    BY MerchantsAssumption
<1>4. \A m \in MerchantIds : /\ merchant[m] = IF m = 1 THEN MerchantRow ELSE NoMerchant
                             /\ merchant[m].organization = merchant[m].status
                             /\ merchant[m].status = IF m = 1 THEN "ACTIVE" ELSE "NONE"
    BY DEF MerchantsInit, MerchantRow, NoMerchant
<1>5. \A s \in ShopIds : /\ shop[s].status = IF s <= n THEN "ACTIVE" ELSE "NONE"
                         /\ shop[s].merchant = IF s <= n THEN 1 ELSE 0
                         /\ shop[s].code = IF s <= n THEN s ELSE 0
                         /\ shop[s].subdomain = IF s <= n THEN OwnName(s) ELSE 0
                         /\ shop[s] \in ShopRows
  <2> SUFFICES ASSUME NEW s \in ShopIds
               PROVE  /\ shop[s].status = IF s <= n THEN "ACTIVE" ELSE "NONE"
                      /\ shop[s].merchant = IF s <= n THEN 1 ELSE 0
                      /\ shop[s].code = IF s <= n THEN s ELSE 0
                      /\ shop[s].subdomain = IF s <= n THEN OwnName(s) ELSE 0
                      /\ shop[s] \in ShopRows
    OBVIOUS
  <2>1. s \in 1..MaxShops
    BY DEF ShopIds
  <2>2. CASE s <= n
    <3>1. shop[s] = ShopRow(1, s, OwnName(s), None, "ACTIVE")
        BY <1>2, <2>2
    <3>2. OwnName(s) \in Nat
        BY <1>3, <2>1 DEF OwnName
    <3> QED
        BY <1>3, <2>1, <2>2, <3>1, <3>2 DEF ShopRow, ShopRows, Open
  <2>3. CASE ~(s <= n)
    <3>1. shop[s] = NoShop
        BY <1>2, <2>3
    <3> QED
        BY <1>3, <2>3, <3>1 DEF NoShop, ShopRows
  <2> QED
    BY <2>2, <2>3
<1>6. \A p \in People : /\ person[p].member = IF p = owner THEN "ACTIVE" ELSE "NONE"
                        /\ person[p].merchant = IF p = owner THEN 1 ELSE 0
                        /\ person[p].shops = IF p = owner THEN 1..n ELSE {}
    BY <1>2 DEF OwnerRow, NoPerson
<1>7. MerchantsTypeOK
  <2>1. merchant \in [MerchantIds -> MerchantRows]
    BY DEF MerchantsInit, MerchantRow, NoMerchant, MerchantRows, Open
  <2>4. shop \in [ShopIds -> ShopRows]
    BY <1>2, <1>5
  <2>5. OwnerRow(1, 1..n) \in PersonRows /\ NoPerson \in PersonRows
    BY <1>3 DEF OwnerRow, NoPerson, PersonRows, ShopIds
  <2>6. person \in [People -> PersonRows]
    BY <1>2, <2>5
  <2> QED
    BY <2>1, <2>4, <2>6 DEF MerchantsInit, MerchantsTypeOK, MerchantRows, ShopRows, PersonRows
<1>8. Numbered
  <2>1. Dense(merchant, MaxMerchants, NoMerchant)
    <3>1. \A x \in 1..MaxMerchants : merchant[x] # NoMerchant <=> x <= 1
        BY <1>3, <1>4 DEF MerchantIds, MerchantRow, NoMerchant
    <3>2. DOMAIN merchant = 1..MaxMerchants
        BY DEF MerchantsInit, MerchantIds
    <3>3. MaxMerchants \in Nat /\ 1 \in 0..MaxMerchants
        BY <1>3
    <3> QED
        BY <3>1, <3>2, <3>3, DenseUpTo
  <2>2. Dense(shop, MaxShops, NoShop)
    <3>1. \A x \in 1..MaxShops : shop[x] # NoShop <=> x <= n
        <4>1. NoShop.status = "NONE"
            BY DEF NoShop
        <4>2. ASSUME NEW x \in 1..MaxShops, ~(x <= n) PROVE shop[x] = NoShop
            BY <1>2, <1>3, <4>2 DEF ShopIds
        <4> QED
            BY <1>5, <4>1, <4>2 DEF ShopIds
    <3>2. DOMAIN shop = 1..MaxShops
        BY <1>2 DEF ShopIds
    <3>3. MaxShops \in Nat /\ n \in 0..MaxShops
        BY <1>3
    <3> QED
        BY <3>1, <3>2, <3>3, DenseUpTo
  <2> QED
    BY <2>1, <2>2 DEF Numbered
<1>9. OneOwner /\ Belong /\ Stripped
    BY <1>3, <1>4, <1>5, <1>6 DEF OneOwner, Belong, Stripped, MerchantIds
<1>10. ClosedIsEmpty
  <2>1. ShopsOf(1) = 1..n /\ 1 \in ShopsOf(1)
    BY <1>3, <1>5 DEF ShopsOf, ShopOpen, ShopIds, Open
  <2>2. owner \in OwnersOf(1) /\ ShopsOf(1) \subseteq person[owner].shops
    BY <1>1, <1>6, <2>1 DEF OwnersOf
  <2> QED
    BY <1>1, <1>4, <2>1, <2>2 DEF ClosedIsEmpty, Open
<1>11. SlugsApart
    BY <1>3, <1>5 DEF SlugsApart, OwnName, ShopIds
<1> QED
    BY <1>7, <1>8, <1>9, <1>10, <1>11 DEF TenancyInv

-----------------------------------------------------------------------------
(* What a command leaves as it is for a merchant it is not about.          *)

Settled(m) ==
    /\ merchant[m].organization = merchant[m].status
    /\ merchant[m].status = "CLOSED" =>
        /\ ShopsOf(m) = {} /\ OwnersOf(m) = {}
        /\ \A p \in People : person[p].merchant = m =>
                person[p].credential = "CLOSED" /\ person[p].shops = {} /\ ~person[p].session
    /\ merchant[m].status \in Open =>
        /\ ShopsOf(m) # {}
        /\ \E p \in OwnersOf(m) : ShopsOf(m) \subseteq person[p].shops

LEMMA AllSettled == ClosedIsEmpty <=> \A m \in MerchantIds : Settled(m)
BY DEF ClosedIsEmpty, Settled

LEMMA AllSettledNext ==
    ASSUME \A m \in MerchantIds : Settled(m)'
    PROVE  ClosedIsEmpty'
BY DEF ClosedIsEmpty, Settled

LEMMA StaysSettled ==
    ASSUME NEW m \in MerchantIds, Settled(m), merchant'[m] = merchant[m], ShopsOf(m)' = ShopsOf(m),
           \A p \in People : person[p].merchant = m \/ person'[p].merchant = m =>
                                person'[p] = person[p]
    PROVE  Settled(m)'
<1>1. OwnersOf(m)' = OwnersOf(m)
    BY DEF OwnersOf
<1>2. \A p \in OwnersOf(m) : person'[p] = person[p]
    BY DEF OwnersOf
<1> QED
    BY <1>1, <1>2 DEF Settled

\* A merchant that is not there yet has nothing.
LEMMA NewOnesHaveNothing ==
    ASSUME Belong, MerchantsTypeOK, NEW m \in MerchantIds, merchant[m].status = "NONE"
    PROVE  /\ \A s \in ShopIds : shop[s].status # "NONE" => shop[s].merchant # m
           /\ \A p \in People : person[p].merchant # m
BY Rows DEF Belong, MerchantIds, PersonRows

-----------------------------------------------------------------------------
(* Commands on merchants                                                   *)

LEMMA CreateMerchantKeeps ==
    ASSUME TenancyInv, NEW p \in People, CreateMerchant(p)
    PROVE  TenancyInv'
<1> SUFFICES ASSUME NEW m, NEW s, m = NextId(merchant, NoMerchant), s = NextId(shop, NoShop)
             PROVE  TenancyInv'
    OBVIOUS
<1> USE DEF TenancyInv
<1>1. /\ merchant \in [MerchantIds -> MerchantRows] /\ shop \in [ShopIds -> ShopRows]
      /\ person \in [People -> PersonRows] /\ MaxMerchants \in Nat /\ MaxShops \in Nat
    BY Rows
<1>2. /\ m \in MerchantIds /\ s \in ShopIds /\ person[p] = NoPerson
      /\ merchant' = [merchant EXCEPT ![m] = MerchantRow]
      /\ shop' = [shop EXCEPT ![s] = FirstShop(m)] /\ CodeFree(m)
      /\ person' = [person EXCEPT ![p] = OwnerRow(m, {s})]
      /\ Command /\ UNCHANGED <<category, overlay>>
    BY DEF CreateMerchant, Fresh, MerchantCommand
<1>3. /\ MerchantRow # NoMerchant /\ FirstShop(m) # NoShop
  <2>1. /\ MerchantRow.status = "ACTIVE" /\ FirstShop(m).status = "ACTIVE"
        /\ NoMerchant.status = "NONE" /\ NoShop.status = "NONE"
    BY DEF MerchantRow, NoMerchant, FirstShop, ShopRow, NoShop
  <2> QED
    BY <2>1
<1>4. /\ merchant[m] = NoMerchant /\ Dense(merchant', MaxMerchants, NoMerchant)
      /\ shop[s] = NoShop /\ Dense(shop', MaxShops, NoShop)
  <2>1. Dense(merchant, MaxMerchants, NoMerchant) /\ Dense(shop, MaxShops, NoShop)
    BY DEF Numbered
  <2>2. m \in 1..MaxMerchants /\ s \in 1..MaxShops
    BY <1>2 DEF MerchantIds, ShopIds
  <2> HIDE DEF TenancyInv
  <2>3. /\ DOMAIN merchant' = 1..MaxMerchants /\ merchant'[m] # NoMerchant
        /\ \A x \in 1..MaxMerchants : x # m => merchant'[x] = merchant[x]
    BY <1>1, <1>2, <1>3 DEF MerchantIds
  <2>4. /\ DOMAIN shop' = 1..MaxShops /\ shop'[s] # NoShop
        /\ \A x \in 1..MaxShops : x # s => shop'[x] = shop[x]
    BY <1>1, <1>2, <1>3 DEF ShopIds
  <2>5. m = NextId(merchant, NoMerchant) /\ s = NextId(shop, NoShop)
    OBVIOUS
  <2>6. MaxMerchants \in Nat /\ MaxShops \in Nat
    BY <1>1
  <2>7. merchant[m] = NoMerchant /\ Dense(merchant', MaxMerchants, NoMerchant)
    BY ONLY <2>1, <2>2, <2>3, <2>5, <2>6, StaysDense
  <2>8. shop[s] = NoShop /\ Dense(shop', MaxShops, NoShop)
    BY ONLY <2>1, <2>2, <2>4, <2>5, <2>6, StaysDense
  <2> QED
    BY <2>7, <2>8
<1>5. /\ merchant[m].status = "NONE" /\ shop[s].status = "NONE"
      /\ person[p].merchant = 0 /\ person[p].member = "NONE"
    BY <1>2, <1>4 DEF NoMerchant, NoShop, NoPerson
<1>6. \A k \in MerchantIds : k # m => merchant'[k] = merchant[k]
    BY <1>1, <1>2
<1>7. merchant'[m].status = "ACTIVE" /\ merchant'[m].organization = "ACTIVE"
    BY <1>1, <1>2 DEF MerchantRow
<1>8. /\ \A x \in ShopIds : x # s => shop'[x] = shop[x]
      /\ shop'[s].status = "ACTIVE" /\ shop'[s].merchant = m
      /\ shop'[s].code = m /\ shop'[s].subdomain = 0
    BY <1>1, <1>2 DEF FirstShop, ShopRow
<1>9. /\ \A q \in People : q # p => person'[q] = person[q]
      /\ person'[p].merchant = m /\ person'[p].member = "ACTIVE" /\ person'[p].shops = {s}
    BY <1>1, <1>2 DEF OwnerRow
<1>10. /\ \A x \in ShopIds : shop[x].status # "NONE" => shop[x].merchant # m
       /\ \A q \in People : person[q].merchant # m
    BY <1>2, <1>5, NewOnesHaveNothing
<1>11. MerchantsTypeOK'
  <2>1. merchant' \in [MerchantIds -> MerchantRows]
    BY <1>1, <1>2 DEF MerchantRow, MerchantRows, Open
  <2>2. FirstShop(m) \in ShopRows
    BY <1>1, <1>2 DEF FirstShop, ShopRow, ShopRows, Open, MerchantIds
  <2>3. OwnerRow(m, {s}) \in PersonRows
    BY <1>1, <1>2 DEF OwnerRow, PersonRows, MerchantIds
  <2>4. shop' \in [ShopIds -> ShopRows] /\ person' \in [People -> PersonRows]
    BY <1>1, <1>2, <2>2, <2>3
  <2> QED
    BY <1>2, <2>1, <2>4, TypesStay
<1>12. m # 0
    BY <1>1, <1>2 DEF MerchantIds
<1>13. OneOwner'
    BY <1>9, <1>10 DEF OneOwner
<1>14. Belong'
  <2>1. \A k \in MerchantIds : merchant[k].status # "NONE" => merchant'[k].status # "NONE"
    BY <1>5, <1>6
  <2>2. \A q \in People : person[q].merchant # 0 => person[q].merchant \in MerchantIds
    BY <1>1 DEF PersonRows, MerchantIds
  <2> QED
    BY <1>2, <1>7, <1>8, <1>9, <2>1, <2>2 DEF Belong
<1>15. Stripped'
    BY <1>9 DEF Stripped
<1>16. ShopsOf(m)' = {s}
    BY <1>2, <1>8, <1>10 DEF ShopsOf, ShopOpen, Open
<1>17. Settled(m)'
    BY <1>2, <1>7, <1>9, <1>16 DEF Settled, OwnersOf, Open
<1>18. ASSUME NEW k \in MerchantIds, k # m PROVE Settled(k)'
  <2>1. ShopsOf(k)' = ShopsOf(k)
    BY <1>5, <1>8, <1>18 DEF ShopsOf, ShopOpen, Open
  <2>2. \A q \in People : person[q].merchant = k \/ person'[q].merchant = k => person'[q] = person[q]
    BY <1>1, <1>5, <1>9, <1>18 DEF MerchantIds
  <2> QED
    BY <1>6, <1>18, <2>1, <2>2, StaysSettled, AllSettled
<1>19. ClosedIsEmpty'
    BY <1>17, <1>18, AllSettledNext
<1>20. SlugsApart'
    BY <1>2, <1>8, <1>12, NewSlugsApart
<1> QED
    BY <1>4, <1>11, <1>13, <1>14, <1>15, <1>19, <1>20 DEF Numbered

\* The status of a merchant that may still change.
LEMMA UpdateMerchantKeeps ==
    ASSUME TenancyInv, NEW m \in MerchantIds, NEW status \in Open, UpdateMerchant(m, status)
    PROVE  TenancyInv'
<1> USE DEF TenancyInv
<1> DEFINE row == [status |-> status, organization |-> status]
<1>1. /\ merchant \in [MerchantIds -> MerchantRows] /\ shop \in [ShopIds -> ShopRows]
      /\ person \in [People -> PersonRows] /\ MaxMerchants \in Nat
    BY Rows
<1>2. /\ merchant' = [merchant EXCEPT ![m] = row] /\ UNCHANGED <<shop, person, category, overlay>>
      /\ Command /\ merchant[m].status \in Open
    BY DEF UpdateMerchant, MerchantCommand, MerchantMayChange
<1>3. MerchantsTypeOK'
  <2>1. merchant' \in [MerchantIds -> MerchantRows]
    BY <1>1, <1>2 DEF MerchantRows
  <2> QED
    BY <1>1, <1>2, <2>1, TypesStay
<1>4. \A k \in MerchantIds : k # m => merchant'[k] = merchant[k]
    BY <1>1, <1>2
<1>5. merchant'[m].status = status /\ merchant'[m].organization = status
    BY <1>1, <1>2
<1>6. Numbered'
  <2>1. merchant[m] # NoMerchant /\ merchant'[m] # NoMerchant
    BY <1>2, <1>5 DEF NoMerchant, Open
  <2> QED
    BY <1>1, <1>2, <1>4, <2>1 DEF Numbered, Dense, MerchantIds
<1>7. OneOwner' /\ Stripped' /\ SlugsApart'
    BY <1>2 DEF OneOwner, Stripped, SlugsApart
<1>8. Belong'
  <2>1. \A k \in MerchantIds : merchant[k].status # "NONE" => merchant'[k].status # "NONE"
    BY <1>4, <1>5 DEF Open
  <2>2. \A q \in People : person[q].merchant # 0 => person[q].merchant \in MerchantIds
    BY <1>1 DEF PersonRows, MerchantIds
  <2> QED
    BY <1>2, <2>1, <2>2 DEF Belong
<1>9. \A k \in MerchantIds : ShopsOf(k)' = ShopsOf(k) /\ OwnersOf(k)' = OwnersOf(k)
    BY <1>2 DEF ShopsOf, ShopOpen, OwnersOf
<1>10. \A k \in MerchantIds : Settled(k)'
    BY <1>2, <1>4, <1>5, <1>9, AllSettled DEF Settled, Open
<1>11. ClosedIsEmpty'
    BY <1>10, AllSettledNext
<1> QED
    BY <1>3, <1>6, <1>7, <1>8, <1>11

\* A new password of the owner: nothing of what is proved here depends on it.
LEMMA ResetOwnerPasswordKeeps ==
    ASSUME TenancyInv, NEW m \in MerchantIds, ResetOwnerPassword(m)
    PROVE  TenancyInv'
<1> USE DEF TenancyInv
<1>1. /\ merchant \in [MerchantIds -> MerchantRows] /\ shop \in [ShopIds -> ShopRows]
      /\ person \in [People -> PersonRows]
    BY Rows
<1>2. /\ UNCHANGED <<merchant, shop, category, overlay>> /\ Command
      /\ merchant[m].status \in Open
    BY DEF ResetOwnerPassword, MerchantCommand, MerchantMayChange
<1>3. PICK p \in OwnersOf(m) :
        person' = [person EXCEPT ![p].credential = "ACTIVE", ![p].session = FALSE]
    BY DEF ResetOwnerPassword
<1>4. p \in People /\ person[p].merchant = m /\ person[p].member = "ACTIVE"
    BY DEF OwnersOf
<1>5. \A q \in People : /\ person'[q] \in PersonRows
                        /\ person'[q].merchant = person[q].merchant
                        /\ person'[q].member = person[q].member
                        /\ person'[q].shops = person[q].shops
                        /\ q # p => person'[q] = person[q]
    BY <1>1, <1>3, <1>4 DEF PersonRows
<1>6. MerchantsTypeOK'
  <2>1. person' \in [People -> PersonRows]
    BY <1>3, <1>1, <1>5
  <2> QED
    BY <1>1, <1>2, <2>1, TypesStay
<1>7. Numbered' /\ OneOwner' /\ Belong' /\ SlugsApart'
    BY <1>2, <1>5 DEF Numbered, OneOwner, Belong, SlugsApart
<1>8. Stripped'
    BY <1>4, <1>5 DEF Stripped
<1>9. \A k \in MerchantIds : ShopsOf(k)' = ShopsOf(k) /\ OwnersOf(k)' = OwnersOf(k)
    BY <1>2, <1>5 DEF ShopsOf, ShopOpen, OwnersOf
<1>10. ASSUME NEW k \in MerchantIds PROVE Settled(k)'
  <2>1. merchant[k].status = "CLOSED" => k # m
    BY <1>2 DEF Open
  <2>2. merchant[k].status = "CLOSED" =>
            \A q \in People : person[q].merchant = k => person'[q] = person[q]
    BY <1>4, <1>5, <2>1
  <2>3. \A q \in OwnersOf(k) : person'[q].shops = person[q].shops
    BY <1>5 DEF OwnersOf
  <2> QED
    BY <1>2, <1>5, <1>9, <2>2, <2>3, AllSettled DEF Settled
<1>11. ClosedIsEmpty'
    BY <1>10, AllSettledNext
<1> QED
    BY <1>6, <1>7, <1>8, <1>11

\* Closing a merchant: everything of it goes at once.
LEMMA CloseMerchantKeeps ==
    ASSUME TenancyInv, NEW m \in MerchantIds, CloseMerchant(m)
    PROVE  TenancyInv'
<1> USE DEF TenancyInv
<1> DEFINE row == [status |-> "CLOSED", organization |-> "CLOSED"]
<1>1. /\ merchant \in [MerchantIds -> MerchantRows] /\ shop \in [ShopIds -> ShopRows]
      /\ person \in [People -> PersonRows] /\ MaxMerchants \in Nat /\ MaxShops \in Nat
    BY Rows
<1>2. /\ merchant' = [merchant EXCEPT ![m] = row] /\ Command /\ UNCHANGED <<category, overlay>>
      /\ merchant[m].status \in Open /\ CloseShopsOf(m) /\ RevokePeopleOf(m)
    BY DEF CloseMerchant, MerchantCommand, MerchantMayChange
<1>3. /\ \A k \in MerchantIds : k # m => merchant'[k] = merchant[k]
      /\ merchant'[m].status = "CLOSED" /\ merchant'[m].organization = "CLOSED"
    BY <1>1, <1>2
<1>4. \A s \in ShopIds : /\ shop'[s] \in ShopRows
                         /\ shop'[s].merchant = shop[s].merchant /\ shop'[s].code = shop[s].code
                         /\ shop'[s].subdomain = shop[s].subdomain
                         /\ s \in ShopsOf(m) => shop[s].status \in Open /\ shop'[s].status = "CLOSED"
                         /\ s \notin ShopsOf(m) => shop'[s] = shop[s]
  <2> SUFFICES ASSUME NEW s \in ShopIds
               PROVE  /\ shop'[s] \in ShopRows
                      /\ shop'[s].merchant = shop[s].merchant /\ shop'[s].code = shop[s].code
                      /\ shop'[s].subdomain = shop[s].subdomain
                      /\ s \in ShopsOf(m) => shop[s].status \in Open /\ shop'[s].status = "CLOSED"
                      /\ s \notin ShopsOf(m) => shop'[s] = shop[s]
    OBVIOUS
  <2>1. shop'[s] = IF s \in ShopsOf(m) THEN [shop[s] EXCEPT !.status = "CLOSED"] ELSE shop[s]
    BY <1>2 DEF CloseShopsOf
  <2>2. shop[s] \in ShopRows /\ (s \in ShopsOf(m) => shop[s].status \in Open)
    BY <1>1 DEF ShopsOf, ShopOpen
  <2> QED
    BY <2>1, <2>2 DEF ShopRows
<1>5. \A p \in People : /\ person'[p] \in PersonRows
                        /\ person'[p].merchant = person[p].merchant
                        /\ person[p].merchant # m => person'[p] = person[p]
                        /\ person[p].merchant = m =>
                                /\ person'[p].member = "REVOKED" /\ person'[p].credential = "CLOSED"
                                /\ person'[p].shops = {} /\ ~person'[p].session
  <2> SUFFICES ASSUME NEW p \in People
               PROVE  /\ person'[p] \in PersonRows
                      /\ person'[p].merchant = person[p].merchant
                      /\ person[p].merchant # m => person'[p] = person[p]
                      /\ person[p].merchant = m =>
                                /\ person'[p].member = "REVOKED" /\ person'[p].credential = "CLOSED"
                                /\ person'[p].shops = {} /\ ~person'[p].session
    OBVIOUS
  <2>1. person'[p] = IF person[p].merchant # m THEN person[p]
                     ELSE [person[p] EXCEPT !.member = "REVOKED", !.credential = "CLOSED",
                                            !.shops = {}, !.session = FALSE]
    BY <1>2 DEF RevokePeopleOf
  <2>2. person[p] \in PersonRows
    BY <1>1
  <2> QED
    BY <2>1, <2>2 DEF PersonRows
<1>6. MerchantsTypeOK'
  <2>1. merchant' \in [MerchantIds -> MerchantRows]
    BY <1>1, <1>2 DEF MerchantRows
  <2>2. shop' \in [ShopIds -> ShopRows]
    BY <1>2, <1>4 DEF CloseShopsOf
  <2>3. person' \in [People -> PersonRows]
    BY <1>2, <1>5 DEF RevokePeopleOf
  <2> QED
    BY <1>2, <2>1, <2>2, <2>3, TypesStay
<1>7. Numbered'
  <2>1. merchant[m] # NoMerchant /\ merchant'[m] # NoMerchant
    BY <1>2, <1>3 DEF NoMerchant, Open
  <2>2. Dense(merchant', MaxMerchants, NoMerchant)
    BY <1>1, <1>2, <1>3, <2>1 DEF Numbered, Dense, MerchantIds
  <2>3. \A s \in ShopIds : shop'[s] # NoShop <=> shop[s] # NoShop
    <3> SUFFICES ASSUME NEW s \in ShopIds PROVE shop'[s] # NoShop <=> shop[s] # NoShop
        OBVIOUS
    <3>1. NoShop.status = "NONE"
        BY DEF NoShop
    <3>2. CASE s \in ShopsOf(m)
        BY <1>4, <3>1, <3>2 DEF Open
    <3>3. CASE s \notin ShopsOf(m)
        BY <1>4, <3>3
    <3> QED
        BY <3>2, <3>3
  <2>4. DOMAIN shop' = DOMAIN shop
    BY <1>1, <1>2 DEF CloseShopsOf
  <2>5. Dense(shop', MaxShops, NoShop)
    BY <2>3, <2>4 DEF Numbered, Dense, ShopIds
  <2> QED
    BY <2>2, <2>5 DEF Numbered
<1>8. OneOwner'
    BY <1>5 DEF OneOwner
<1>9. Belong'
  <2>1. \A k \in MerchantIds : merchant[k].status # "NONE" => merchant'[k].status # "NONE"
    BY <1>3
  <2>2. \A q \in People : person[q].merchant # 0 => person[q].merchant \in MerchantIds
    BY <1>1 DEF PersonRows, MerchantIds
  <2>3. \A s \in ShopIds : shop'[s].status # "NONE" => shop[s].status # "NONE"
    BY <1>4 DEF Open
  <2> QED
    BY <1>4, <1>5, <2>1, <2>2, <2>3 DEF Belong
<1>10. Stripped'
    BY <1>5 DEF Stripped
<1>11. Settled(m)'
  <2>1. ShopsOf(m)' = {}
    BY <1>4 DEF ShopsOf, ShopOpen, Open
  <2>2. OwnersOf(m)' = {}
    BY <1>5 DEF OwnersOf
  <2> QED
    BY <1>3, <1>5, <2>1, <2>2 DEF Settled, Open
<1>12. ASSUME NEW k \in MerchantIds, k # m PROVE Settled(k)'
  <2>1. ShopsOf(k)' = ShopsOf(k)
    BY <1>4, <1>12 DEF ShopsOf, ShopOpen, Open
  <2>2. \A q \in People : person[q].merchant = k \/ person'[q].merchant = k => person'[q] = person[q]
    BY <1>5, <1>12
  <2> QED
    BY <1>3, <1>12, <2>1, <2>2, StaysSettled, AllSettled
<1>13. ClosedIsEmpty'
    BY <1>11, <1>12, AllSettledNext
<1>14. SlugsApart'
    BY <1>4, SlugsStayApart DEF Open
<1> QED
    BY <1>6, <1>7, <1>8, <1>9, <1>10, <1>13, <1>14

LEMMA LoginKeeps ==
    ASSUME TenancyInv, NEW p \in People, Login(p)
    PROVE  TenancyInv'
<1> USE DEF TenancyInv
<1>1. /\ merchant \in [MerchantIds -> MerchantRows] /\ shop \in [ShopIds -> ShopRows]
      /\ person \in [People -> PersonRows]
    BY Rows
<1>2. /\ UNCHANGED <<merchant, shop, category, overlay>> /\ Command
      /\ person[p].member = "ACTIVE" /\ person' = [person EXCEPT ![p].session = TRUE]
    BY DEF Login
<1>3. \A q \in People : /\ person'[q] \in PersonRows
                        /\ person'[q].merchant = person[q].merchant
                        /\ person'[q].member = person[q].member
                        /\ person'[q].shops = person[q].shops
                        /\ q # p => person'[q] = person[q]
    BY <1>1, <1>2 DEF PersonRows
<1>4. MerchantsTypeOK'
  <2>1. person' \in [People -> PersonRows]
    BY <1>2, <1>1, <1>3
  <2> QED
    BY <1>1, <1>2, <2>1, TypesStay
<1>5. Numbered' /\ OneOwner' /\ Belong' /\ Stripped' /\ SlugsApart'
    BY <1>2, <1>3 DEF Numbered, OneOwner, Belong, Stripped, SlugsApart
<1>6. \A k \in MerchantIds : ShopsOf(k)' = ShopsOf(k) /\ OwnersOf(k)' = OwnersOf(k)
    BY <1>2, <1>3 DEF ShopsOf, ShopOpen, OwnersOf
<1>7. ASSUME NEW k \in MerchantIds PROVE Settled(k)'
  <2>1. Settled(k)
    BY AllSettled
  <2>2. merchant[k].status = "CLOSED" =>
            \A q \in People : person[q].merchant = k => person'[q] = person[q]
    BY <1>2, <1>3, <2>1 DEF Settled, OwnersOf
  <2>3. \A q \in OwnersOf(k) : person'[q].shops = person[q].shops
    BY <1>3 DEF OwnersOf
  <2>4. \A q \in People : person'[q].merchant = k => person[q].merchant = k
    BY <1>3
  <2> HIDE DEF TenancyInv
  <2> QED
    BY ONLY <1>2, <1>6, <2>1, <2>2, <2>3, <2>4 DEF Settled
<1>8. ClosedIsEmpty'
    BY <1>7, AllSettledNext
<1> QED
    BY <1>4, <1>5, <1>8

-----------------------------------------------------------------------------
(* Commands on shops                                                       *)

\* The new shop is given to the one owner, who has all the others.
LEMMA CreateShopKeeps ==
    ASSUME TenancyInv, NEW m \in MerchantIds, NEW new \in NewShops, CreateShop(m, new)
    PROVE  TenancyInv'
<1> SUFFICES ASSUME NEW s, s = NextId(shop, NoShop) PROVE TenancyInv'
    OBVIOUS
<1> USE DEF TenancyInv
<1> DEFINE row == ShopRow(m, s, new.subdomain, new.category, new.status)
<1>1. /\ merchant \in [MerchantIds -> MerchantRows] /\ shop \in [ShopIds -> ShopRows]
      /\ person \in [People -> PersonRows] /\ MaxMerchants \in Nat /\ MaxShops \in Nat
    BY Rows
<1>2. /\ s \in ShopIds /\ shop' = [shop EXCEPT ![s] = row] /\ merchant[m].status \in Open
      /\ Command /\ UNCHANGED <<merchant, category, overlay>>
      /\ CodeFree(s) /\ SubdomainFree(new.subdomain, s)
    BY DEF CreateShop, ShopCommand, MerchantMayChange
<1>3. PICK p \in OwnersOf(m) : person' = [person EXCEPT ![p].shops = @ \cup {s}]
    BY DEF CreateShop, GrantOwnerShop
<1>4. p \in People /\ person[p].merchant = m /\ person[p].member = "ACTIVE" /\ m # 0
    BY <1>1 DEF OwnersOf, MerchantIds
<1>5. \A q \in People : /\ person'[q] \in PersonRows
                        /\ person'[q].merchant = person[q].merchant
                        /\ person'[q].member = person[q].member
                        /\ q # p => person'[q] = person[q]
                        /\ q = p => person'[q].shops = person[q].shops \cup {s}
    BY <1>1, <1>2, <1>3, <1>4 DEF PersonRows
<1>6. /\ row \in ShopRows /\ row.status \in Open /\ row.merchant = m
      /\ row.code = s /\ row.subdomain = new.subdomain
  <2>1. /\ new.status \in Open /\ new.category \in Categories \cup {None}
        /\ new.subdomain \in Nat
    BY MerchantsAssumption DEF NewShops
  <2>2. s \in 0..(MaxShops + MaxMerchants) /\ m \in 0..MaxMerchants
    BY <1>1, <1>2 DEF MerchantIds, ShopIds
  <2> QED
    BY <2>1, <2>2 DEF ShopRow, ShopRows
<1> HIDE DEF row
<1>7. /\ \A x \in ShopIds : x # s => shop'[x] = shop[x]
      /\ shop'[s].status \in Open /\ shop'[s].merchant = m
      /\ shop'[s].code = s /\ shop'[s].subdomain = new.subdomain
    BY <1>1, <1>2, <1>6
<1>8. shop[s] = NoShop /\ Dense(shop', MaxShops, NoShop)
  <2>1. Dense(shop, MaxShops, NoShop)
    BY DEF Numbered
  <2>2. s \in 1..MaxShops /\ MaxShops \in Nat /\ s = NextId(shop, NoShop)
    BY <1>1, <1>2 DEF ShopIds
  <2>3. /\ DOMAIN shop' = 1..MaxShops /\ shop'[s] # NoShop
        /\ \A x \in 1..MaxShops : x # s => shop'[x] = shop[x]
    BY <1>1, <1>2, <1>7 DEF ShopIds, NoShop, Open
  <2> QED
    BY ONLY <2>1, <2>2, <2>3, StaysDense
<1>9. shop[s].status = "NONE"
    BY <1>8 DEF NoShop
<1>10. MerchantsTypeOK'
  <2>1. shop' \in [ShopIds -> ShopRows] /\ person' \in [People -> PersonRows]
    BY <1>1, <1>2, <1>3, <1>5, <1>6
  <2> QED
    BY <1>1, <1>2, <2>1, TypesStay
<1>11. Numbered' /\ OneOwner' /\ Stripped'
    BY <1>2, <1>4, <1>5, <1>8 DEF Numbered, OneOwner, Stripped
<1>12. Belong'
    BY <1>2, <1>5, <1>7 DEF Belong, Open
<1>13. \A k \in MerchantIds : OwnersOf(k)' = OwnersOf(k)
    BY <1>5 DEF OwnersOf
<1>14. Settled(m)'
  <2>1. ShopsOf(m)' = ShopsOf(m) \cup {s}
    BY <1>2, <1>7, <1>9 DEF ShopsOf, ShopOpen, Open
  <2>2. PICK q \in OwnersOf(m) : ShopsOf(m) \subseteq person[q].shops
    BY <1>2, AllSettled DEF Settled
  <2>3. q = p
    BY <1>4, <2>2 DEF OneOwner, OwnersOf
  <2>4. p \in OwnersOf(m)' /\ ShopsOf(m)' \subseteq person'[p].shops
    BY <1>4, <1>5, <1>13, <2>1, <2>2, <2>3
  <2>5. merchant'[m].organization = merchant'[m].status /\ merchant'[m].status \in Open
    BY <1>2, AllSettled DEF Settled
  <2> QED
    BY <2>1, <2>4, <2>5 DEF Settled, Open
<1>15. ASSUME NEW k \in MerchantIds, k # m PROVE Settled(k)'
  <2>1. ShopsOf(k)' = ShopsOf(k)
    BY <1>7, <1>9, <1>15 DEF ShopsOf, ShopOpen, Open
  <2>2. \A q \in People : person[q].merchant = k \/ person'[q].merchant = k => person'[q] = person[q]
    BY <1>4, <1>5, <1>15
  <2> QED
    BY <1>2, <1>15, <2>1, <2>2, StaysSettled, AllSettled
<1>16. ClosedIsEmpty'
    BY <1>14, <1>15, AllSettledNext
<1>17. SlugsApart'
  <2>1. s # 0
    BY <1>1, <1>2 DEF ShopIds
  <2> QED
    BY <1>2, <1>7, <2>1, NewSlugsApart
<1> QED
    BY <1>10, <1>11, <1>12, <1>16, <1>17

\* A subdomain that no other shop has, of an open shop.
LEMMA UpdateShopKeeps ==
    ASSUME TenancyInv, NEW s \in ShopIds, NEW name \in Subdomains, UpdateShop(s, name)
    PROVE  TenancyInv'
<1> USE DEF TenancyInv
<1>1. /\ merchant \in [MerchantIds -> MerchantRows] /\ shop \in [ShopIds -> ShopRows]
      /\ person \in [People -> PersonRows] /\ name \in Nat
    BY Rows, MerchantsAssumption
<1>2. /\ shop' = [shop EXCEPT ![s].subdomain = name] /\ shop[s].status # "NONE"
      /\ Command /\ UNCHANGED <<merchant, person, category, overlay>> /\ SubdomainFree(name, s)
    BY DEF UpdateShop, ShopCommand, ShopOpen, Open
<1>3. \A x \in ShopIds : /\ shop'[x] \in ShopRows /\ shop'[x].code = shop[x].code
                         /\ shop'[x].merchant = shop[x].merchant
                         /\ shop'[x].status = shop[x].status
                         /\ x # s => shop'[x] = shop[x]
                         /\ x = s => shop'[x].subdomain = name
    BY <1>1, <1>2 DEF ShopRows
<1>4. MerchantsTypeOK'
  <2>1. shop' \in [ShopIds -> ShopRows]
    BY <1>1, <1>2, <1>3
  <2> QED
    BY <1>1, <1>2, <2>1, TypesStay
<1>5. Numbered'
  <2>1. \A x \in ShopIds : shop'[x] # NoShop <=> shop[x] # NoShop
    BY <1>2, <1>3 DEF NoShop
  <2> QED
    BY <1>1, <1>2, <2>1 DEF Numbered, Dense, ShopIds
<1>6. OneOwner' /\ Stripped' /\ Belong'
    BY <1>2, <1>3 DEF OneOwner, Stripped, Belong
<1>7. \A k \in MerchantIds : ShopsOf(k)' = ShopsOf(k)
    BY <1>3 DEF ShopsOf, ShopOpen
<1>8. ASSUME NEW k \in MerchantIds PROVE Settled(k)'
    BY <1>2, <1>7, AllSettled, StaysSettled
<1>9. ClosedIsEmpty'
    BY <1>8, AllSettledNext
<1>10. SlugsApart'
  <2>1. \A t \in ShopIds \ {s} : shop'[t] = shop[t] /\ shop[t].subdomain # name
    BY <1>2, <1>3 DEF SubdomainFree
  <2> QED
    BY <1>3, <2>1 DEF SlugsApart
<1> QED
    BY <1>4, <1>5, <1>6, <1>9, <1>10

\* A command that changes the status of one open shop and nothing else, and leaves its
\* merchant another open shop.
LEMMA ShopStatusKeeps ==
    ASSUME TenancyInv, Command, UNCHANGED <<merchant, person, category, overlay>>,
           NEW s \in ShopIds, ShopOpen(s), NEW status \in Open \cup {"CLOSED"},
           shop' = [shop EXCEPT ![s].status = status],
           status = "CLOSED" => Cardinality(ShopsOf(shop[s].merchant)) > 1
    PROVE  TenancyInv'
<1> USE DEF TenancyInv
<1>1. /\ merchant \in [MerchantIds -> MerchantRows] /\ shop \in [ShopIds -> ShopRows]
      /\ person \in [People -> PersonRows] /\ MaxMerchants \in Nat /\ MaxShops \in Nat
    BY Rows
<1>2. \A x \in ShopIds : /\ shop'[x] \in ShopRows
                         /\ shop'[x].merchant = shop[x].merchant
                         /\ shop'[x].code = shop[x].code /\ shop'[x].subdomain = shop[x].subdomain
                         /\ x # s => shop'[x] = shop[x]
                         /\ x = s => shop'[x].status = status
    BY <1>1 DEF ShopRows
<1>3. shop[s].status # "NONE"
    BY DEF ShopOpen, Open
<1>4. MerchantsTypeOK'
  <2>1. shop' \in [ShopIds -> ShopRows]
    BY <1>1, <1>2
  <2> QED
    BY <1>1, <2>1, TypesStay
<1>5. Numbered'
  <2>1. \A x \in ShopIds : shop'[x] # NoShop <=> shop[x] # NoShop
    BY <1>2, <1>3 DEF NoShop, Open
  <2> QED
    BY <1>1, <2>1 DEF Numbered, Dense, ShopIds
<1>6. OneOwner' /\ Stripped'
    BY DEF OneOwner, Stripped
<1>7. Belong'
    BY <1>2, <1>3 DEF Belong
<1>8. \A k \in MerchantIds : OwnersOf(k)' = OwnersOf(k)
    BY DEF OwnersOf
<1>9. \A k \in MerchantIds : ShopsOf(k)' \subseteq ShopsOf(k)
    BY <1>2 DEF ShopsOf, ShopOpen
<1>10. \A k \in MerchantIds : ShopsOf(k) # {} => ShopsOf(k)' # {}
  <2> SUFFICES ASSUME NEW k \in MerchantIds, ShopsOf(k) # {} PROVE ShopsOf(k)' # {}
    OBVIOUS
  <2>1. ASSUME NEW x \in ShopsOf(k), x # s PROVE ShopsOf(k)' # {}
    BY <1>2, <2>1 DEF ShopsOf, ShopOpen
  <2>2. CASE ShopsOf(k) = {s} /\ status \in Open
    BY <1>2, <2>2 DEF ShopsOf, ShopOpen
  <2>3. CASE ShopsOf(k) = {s} /\ status = "CLOSED"
    <3>1. k = shop[s].merchant
        BY <2>3 DEF ShopsOf
    <3>2. Cardinality({s}) = 1
        BY FS_Singleton
    <3> QED
        BY <2>3, <3>1, <3>2
  <2> QED
    BY <2>1, <2>2, <2>3
<1>11. ASSUME NEW k \in MerchantIds PROVE Settled(k)'
  <2>1. Settled(k)
    BY AllSettled
  <2>2. merchant[k].status = "CLOSED" => ShopsOf(k)' = {}
    BY <1>9, <2>1 DEF Settled
  <2> QED
    BY <1>8, <1>9, <1>10, <2>1, <2>2 DEF Settled
<1>12. ClosedIsEmpty'
    BY <1>11, AllSettledNext
<1>13. SlugsApart'
    BY <1>2, <1>3, SlugsStayApart
<1> QED
    BY <1>4, <1>5, <1>6, <1>7, <1>12, <1>13

LEMMA SetShopEnabledKeeps ==
    ASSUME TenancyInv, NEW s \in ShopIds, NEW enabled \in BOOLEAN, SetShopEnabled(s, enabled)
    PROVE  TenancyInv'
<1> DEFINE target == IF enabled THEN "ACTIVE" ELSE "DISABLED"
<1>1. target \in Open \cup {"CLOSED"} /\ target # "CLOSED"
    BY DEF Open
<1>2. /\ Command /\ ShopOpen(s) /\ shop' = [shop EXCEPT ![s].status = target]
      /\ UNCHANGED <<merchant, person, category, overlay>>
    BY DEF SetShopEnabled, ShopCommand
<1> HIDE DEF target
<1> QED
    BY <1>1, <1>2, ShopStatusKeeps

LEMMA CloseShopKeeps ==
    ASSUME TenancyInv, NEW s \in ShopIds, CloseShop(s)
    PROVE  TenancyInv'
<1>1. /\ Command /\ ShopOpen(s) /\ shop' = [shop EXCEPT ![s].status = "CLOSED"]
      /\ UNCHANGED <<merchant, person, category, overlay>>
      /\ Cardinality(ShopsOf(shop[s].merchant)) > 1
    BY DEF CloseShop, ShopCommand, MayClose
<1> QED
    BY <1>1, ShopStatusKeeps

-----------------------------------------------------------------------------
(* Categories and interventions change tables of their own.                *)

LEMMA OtherTablesKeep ==
    ASSUME TenancyInv, Command, UNCHANGED <<merchant, shop, person>>,
           category' \in [Categories -> Open \cup {"NONE", "RETIRED"}],
           overlay' \in [ShopIds -> [Modules -> {"active", "restricted", "suspended"}]]
    PROVE  TenancyInv'
<1> USE DEF TenancyInv
<1>1. MerchantsTypeOK'
    BY MerchantsAssumption DEF MerchantsTypeOK, Command
<1>2. ClosedIsEmpty'
    BY DEF ClosedIsEmpty, ShopsOf, ShopOpen, OwnersOf
<1> QED
    BY <1>1, <1>2 DEF Numbered, OneOwner, Belong, Stripped, SlugsApart

LEMMA CategoryKeeps ==
    ASSUME TenancyInv, NEW c \in Categories, CategoryRequest(c)
    PROVE  TenancyInv'
<1>1. Command /\ UNCHANGED <<merchant, shop, person, overlay>>
    BY DEF CategoryRequest, SaveCategory, SetCategoryEnabled, RetireCategory, CategoryCommand
<1>2. category \in [Categories -> Open \cup {"NONE", "RETIRED"}]
    BY DEF TenancyInv, MerchantsTypeOK
<1>3. \E status \in Open \cup {"RETIRED"} : category' = [category EXCEPT ![c] = status]
    BY DEF CategoryRequest, NewCategories, SaveCategory, SetCategoryEnabled, RetireCategory, Open
<1>4. category' \in [Categories -> Open \cup {"NONE", "RETIRED"}]
    BY <1>2, <1>3
<1>5. overlay \in [ShopIds -> [Modules -> {"active", "restricted", "suspended"}]]
    BY DEF TenancyInv, MerchantsTypeOK
<1> QED
    BY <1>1, <1>4, <1>5, OtherTablesKeep

LEMMA InterventionKeeps ==
    ASSUME TenancyInv, NEW modules, Intervention(modules)
    PROVE  TenancyInv'
<1>1. PICK s \in ShopIds, module \in modules, status \in Interventions : Intervene(s, module, status)
    BY DEF Intervention
<1>2. /\ Command /\ UNCHANGED <<merchant, shop, person, category>>
      /\ overlay' = [overlay EXCEPT ![s][module] = status]
    BY <1>1 DEF Intervene, GovernanceCommand
<1>3. /\ overlay \in [ShopIds -> [Modules -> {"active", "restricted", "suspended"}]]
      /\ category \in [Categories -> Open \cup {"NONE", "RETIRED"}]
    BY DEF TenancyInv, MerchantsTypeOK
<1>4. overlay' \in [ShopIds -> [Modules -> {"active", "restricted", "suspended"}]]
    BY <1>2, <1>3 DEF Interventions
<1> QED
    BY <1>2, <1>3, <1>4, OtherTablesKeep

\* Whatever commands the merchants, the owners and the platform give.
LEMMA TenancyNext ==
    ASSUME TenancyInv,
           \/ MerchantStep \/ ShopStep
           \/ \E modules : Intervention(modules)
    PROVE  TenancyInv'
<1>1. CASE MerchantStep
    BY <1>1, CreateMerchantKeeps, LoginKeeps, UpdateMerchantKeeps, ResetOwnerPasswordKeeps,
       CloseMerchantKeeps, CreateShopKeeps, UpdateShopKeeps, CategoryKeeps DEF MerchantStep, MerchantRequest
<1>2. CASE ShopStep
    BY <1>2, CloseMerchantKeeps, SetShopEnabledKeeps, CloseShopKeeps DEF ShopStep
<1> QED
    BY <1>1, <1>2, InterventionKeeps
=============================================================================
