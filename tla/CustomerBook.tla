----------------------------- MODULE CustomerBook -----------------------------
(***************************************************************************)
(* The addresses and wishlist a customer keeps at a shop, and the accounts *)
(* through which the shop serves its customers:                            *)
(*   data/customer/mysql.go, data/customer_service/repository.go           *)
(* Customers' commands lock their own rows only: nothing asks for the shop.*)
(* A command that comes with an old version is refused, so versions are    *)
(* left out.                                                               *)
(***************************************************************************)
EXTENDS Merchants

CONSTANTS
    Customers,      \* customers of a shop (a shop's customer is its own subject)
    Addresses, Products,
    Accounts,       \* identity_customer_service_account rows
    Contacts        \* <<platform, account>> of a customer service

VARIABLES
    address,        \* identity_customer_address
    wishlist,       \* identity_customer_wishlist
    account         \* identity_customer_service_account

book == <<address, wishlist, account>>

NoAddress == [customer |-> None, default |-> FALSE]
NoAccount == [shop |-> 0, contact |-> None]

BookInit ==
    /\ address = [a \in Addresses |-> NoAddress]
    /\ wishlist = [k \in Customers |-> {}]
    /\ account = [a \in Accounts |-> NoAccount]

-----------------------------------------------------------------------------
(* Addresses                                                               *)

\* clearOtherDefaults
OthersCleared(k, keep) ==
    [a \in Addresses |-> IF a # keep /\ address[a].customer = k
                         THEN [address[a] EXCEPT !.default = FALSE] ELSE address[a]]

AddressWrite == Command /\ UNCHANGED <<tenancy, wishlist, account>>

\* A new address, or a change of one's own.
MayWrite(k, a) == address[a].customer = k

SaveAddress(k, a, default) ==
    LET rows == IF default THEN OthersCleared(k, a) ELSE address IN
    /\ AddressWrite
    /\ MayWrite(k, a) \/ Fresh(a, address, NoAddress)
    /\ address' = [rows EXCEPT ![a] = [customer |-> k, default |-> default]]

DeleteAddress(k, a) ==
    /\ AddressWrite
    /\ MayWrite(k, a)
    /\ address' = [address EXCEPT ![a] = NoAddress]

ReplaceDefault(k, a) ==
    /\ AddressWrite
    /\ MayWrite(k, a)
    /\ address' = [OthersCleared(k, a) EXCEPT ![a].default = TRUE]

-----------------------------------------------------------------------------
(* Wishlist and customer service                                           *)

\* Adding what is there answers with it; removing what is not there is refused.
WishlistWrite == Command /\ UNCHANGED <<tenancy, address, account>>

AddWishlist(k, x) ==
    /\ WishlistWrite
    /\ wishlist' = [wishlist EXCEPT ![k] = @ \cup {x}]

RemoveWishlist(k, x) ==
    /\ WishlistWrite
    /\ x \in wishlist[k]
    /\ wishlist' = [wishlist EXCEPT ![k] = @ \ {x}]

ContactFree(a, s, contact) ==
    \A x \in Accounts : x # a => ~(account[x].shop = s /\ account[x].contact = contact)

AccountWrite(s) == Command /\ ShopOpen(s) /\ UNCHANGED <<tenancy, address, wishlist>>

\* Save: a new account of the shop, or a change of one.
SaveAccount(a, s, contact) ==
    /\ AccountWrite(s)
    /\ Fresh(a, account, NoAccount) \/ account[a].shop = s
    /\ ContactFree(a, s, contact)
    /\ account' = [account EXCEPT ![a] = [shop |-> s, contact |-> contact]]

DeleteAccount(a) ==
    /\ account[a] # NoAccount
    /\ AccountWrite(account[a].shop)
    /\ account' = [account EXCEPT ![a] = NoAccount]

-----------------------------------------------------------------------------

AddressRequest(k) ==
    \E a \in Addresses :
        \/ \E default \in BOOLEAN : SaveAddress(k, a, default)
        \/ DeleteAddress(k, a) \/ ReplaceDefault(k, a)

WishlistRequest(k) == \E x \in Products : AddWishlist(k, x) \/ RemoveWishlist(k, x)

AccountRequest(a) ==
    \/ \E s \in ShopIds, contact \in Contacts : SaveAccount(a, s, contact)
    \/ DeleteAccount(a)

BookStep ==
    \/ \E k \in Customers : AddressRequest(k) \/ WishlistRequest(k)
    \/ \E a \in Accounts : AccountRequest(a)

BookTypeOK ==
    /\ address \in [Addresses -> [customer : Customers \cup {None}, default : BOOLEAN]]
    /\ wishlist \in [Customers -> SUBSET Products]
    /\ account \in [Accounts -> [shop : 0..MaxShops, contact : Contacts \cup {None}]]

\* A customer has one default address, and a contact of a shop is one account.
BookSelected ==
    /\ \A a, b \in Addresses : a # b /\ address[a].default /\ address[b].default =>
            address[a].customer # address[b].customer
    /\ \A a, b \in Accounts : a # b /\ account[a] # NoAccount =>
            <<account[a].shop, account[a].contact>> # <<account[b].shop, account[b].contact>>
=============================================================================
