------------------------------- MODULE Market -------------------------------
(***************************************************************************)
(* From a listing to an order (core/listings.go, core/purchase.go,         *)
(* core/address_request.go, orders/order_open.go): a vendor changes what   *)
(* is for sale while a buyer purchases what was fetched earlier, asks the  *)
(* vendor for an address, and sends an order that the vendor validates.    *)
(* What follows is the subject of Orders; how a listing is stored and      *)
(* published that of Store.                                                *)
(***************************************************************************)
EXTENDS OrderTotals

CONSTANTS Drafts,        \* the listings the vendor is given to save
          Purchases,     \* the purchases the buyer is given to make
          VendorCoins,   \* the vendor's wallets
          EscrowCoins,   \* wallets with escrow
          TimeoutCoins,  \* and with a timeout for it
          None,
          MaxTime,       \* bound: ticks of the clock
          MaxChanges,    \* bound: listings saved and deleted
          MaxOrders      \* bound: purchases made

\* A quantity of a listing, the choices made for it, and where a coin that is bought goes.
PurchaseItem ==
  [listing : Drafts, quantity : Nat, options : Seq([name : STRING, value : STRING]),
   coupons : Seq(STRING), ship : STRING, service : STRING, payTo : BOOLEAN]

IsPurchase(p) ==
  p.country \in STRING /\ p.coin \in STRING /\ p.moderated \in BOOLEAN /\ p.items \in Seq(PurchaseItem)

ASSUME DataAssumption == (\A l \in Drafts : IsListing(l)) /\ (\A p \in Purchases : IsPurchase(p))

ASSUME WalletsAssumption == TimeoutCoins \subseteq EscrowCoins /\ EscrowCoins \subseteq Coins

ASSUME BoundsAssumption == MaxTime \in Nat /\ MaxChanges \in Nat /\ MaxOrders \in Nat

Slug == {l.slug : l \in Drafts}

VARIABLES
  now, changes,
  forSale,     \* the vendor's listings
  published,   \* listings that can be fetched by their hash
  orders,      \* the orders built, in the order in which they were
  addresses,   \* addresses the vendor's wallet has given out
  answers      \* ADDRESS_RESPONSEs under way

vars == <<now, changes, forSale, published, orders, addresses, answers>>

Init ==
  /\ now = 0 /\ changes = 0
  /\ forSale = [s \in Slug |-> None] /\ published = {}
  /\ orders = <<>> /\ addresses = 0 /\ answers = {}

-----------------------------------------------------------------------------
(* The vendor *)

SaveListing(l) ==
  /\ changes < MaxChanges /\ changes' = changes + 1
  /\ l.accepted \subseteq VendorCoins /\ ValidListing(l, now)
  /\ forSale' = [forSale EXCEPT ![l.slug] = l]
  /\ published' = published \cup {l}
  /\ UNCHANGED <<now, orders, addresses, answers>>

DeleteListing(s) ==
  /\ changes < MaxChanges /\ changes' = changes + 1
  /\ forSale[s] # None /\ forSale' = [forSale EXCEPT ![s] = None]
  /\ UNCHANGED <<now, published, orders, addresses, answers>>

Tick == now < MaxTime /\ now' = now + 1 /\ UNCHANGED <<changes, forSale, published, orders, addresses, answers>>

-----------------------------------------------------------------------------
(* createOrder *)

\* Mutant: the timeout of the first listing.
EscrowHoursOfFirst(o) == IF o.coin \in TimeoutCoins THEN o.items[1].listing.hours ELSE 0

\* The longest timeout of the listings, where the wallet has one.
EscrowHours(o) ==
  IF o.coin \in TimeoutCoins THEN Max({o.items[i].listing.hours : i \in DOMAIN o.items}) ELSE 0

\* Made from the keys of the two or three and the order's chaincode.
EscrowAddress(n, signers, hours) == [kind |-> signers, id |-> n, hours |-> hours]

DirectAddress(id) == [kind |-> "direct", id |-> id, hours |-> 0]

NoAddress == [kind |-> "none", id |-> 0, hours |-> 0]

\* The list of options is one for all items of a purchase, and grows from item to item.
OrderItems(p) ==
  [i \in DOMAIN p.items |->
     [p.items[i] EXCEPT !.options = FlattenSeq([k \in 1..i |-> p.items[k].options])]]

CanPurchase(p) ==
  /\ p.coin \in Coins /\ p.items # <<>>
  /\ \A i \in DOMAIN p.items : LET l == p.items[i].listing IN
       /\ l \in published /\ ValidListing(l, now)
       /\ l.version <= ListingVersion /\ l.type # "CLASSIFIED"
  /\ p.moderated => p.coin \in EscrowCoins

CreateOrder(p) ==
  LET o == [items |-> OrderItems(p), country |-> p.country, coin |-> p.coin]
      address == IF p.moderated THEN EscrowAddress(Len(orders) + 1, "2of3", EscrowHours(o))
                 ELSE NoAddress
  IN  /\ Len(orders) < MaxOrders
      /\ CanPurchase(p) /\ CanTotal(o)
      /\ OrderTotal(o) > 0  \* IsDust
      /\ orders' = Append(orders,
           [items |-> o.items, country |-> o.country, coin |-> o.coin, purchase |-> p,
            amount |-> OrderTotal(o), method |-> IF p.moderated THEN "MODERATED" ELSE "DIRECT",
            address |-> address, stage |-> IF p.moderated THEN "sent" ELSE "asks",
            asked |-> p.moderated])
      /\ UNCHANGED <<now, changes, forSale, published, addresses, answers>>

-----------------------------------------------------------------------------
(* RequestAddress: a message each way, and three seconds *)

\* Mutant: the address the wallet gave out last.
GiveLastAddress(n) ==
  /\ ~orders[n].asked /\ orders[n].coin \in VendorCoins
  /\ addresses' = 1
  /\ answers' = answers \cup {[coin |-> orders[n].coin, id |-> 1]}
  /\ orders' = [orders EXCEPT ![n].asked = TRUE]
  /\ UNCHANGED <<now, changes, forSale, published>>

\* handleAddressRequest, unless the vendor is offline.
GiveAddress(n) ==
  /\ ~orders[n].asked /\ orders[n].coin \in VendorCoins
  /\ addresses' = addresses + 1
  /\ answers' = answers \cup {[coin |-> orders[n].coin, id |-> addresses + 1]}
  /\ orders' = [orders EXCEPT ![n].asked = TRUE]
  /\ UNCHANGED <<now, changes, forSale, published>>

\* RequestAddress takes an answer when the peer and the coin are its own.
Takes(o, a) == o.stage = "asks" /\ o.coin = a.coin

\* handleAddressResponse: all purchases that wait hear it.
HearAddress(a) ==
  /\ a \in answers /\ answers' = answers \ {a}
  /\ orders' = [n \in DOMAIN orders |->
       IF Takes(orders[n], a)
       THEN [orders[n] EXCEPT !.stage = "sent", !.address = DirectAddress(a.id)] ELSE orders[n]]
  /\ UNCHANGED <<now, changes, forSale, published, addresses>>

\* Mutant: without escrow the purchase goes on waiting.
GiveUpEscrow(n) ==
  /\ orders[n].stage = "asks" /\ orders[n].coin \in EscrowCoins
  /\ orders' = [orders EXCEPT ![n].stage = "sent", ![n].method = "CANCELABLE",
                              ![n].address = EscrowAddress(n, "1of2", 0)]
  /\ UNCHANGED <<now, changes, forSale, published, addresses, answers>>

\* Mutant: the order is sent with no address.
GiveUpNoAddress(n) ==
  /\ orders[n].stage = "asks"
  /\ orders' = [orders EXCEPT ![n].stage = "sent"]
  /\ UNCHANGED <<now, changes, forSale, published, addresses, answers>>

\* No answer: the order becomes CANCELABLE, or the purchase fails without escrow.
GiveUp(n) ==
  /\ orders[n].stage = "asks"
  /\ orders' = [orders EXCEPT ![n] =
       IF @.coin \in EscrowCoins
       THEN [@ EXCEPT !.stage = "sent", !.method = "CANCELABLE", !.address = EscrowAddress(n, "1of2", 0)]
       ELSE [@ EXCEPT !.stage = "failed"]]
  /\ UNCHANGED <<now, changes, forSale, published, addresses, answers>>

-----------------------------------------------------------------------------
(* validateOrderOpen, by the vendor; what the buyer's own processing of the order *)
(* finds is only logged *)

\* The vendor has the same listing, the quantities in stock apart.
ForSale(o) == \A i \in DOMAIN o.items : forSale[o.items[i].listing.slug] = o.items[i].listing

HasKey(o) == o.method = "DIRECT" => o.address.kind = "direct" /\ o.address.id <= addresses

ValidOrderOptions(l, item) ==
  /\ Len(item.options) = Cardinality(DOMAIN l.options)
  /\ \A name \in DOMAIN l.options :
       name \in DOMAIN Chosen(item.options) /\ Chosen(item.options)[name] \in l.options[name]

\* Asked of every item, since an order always has a shipping option.
ValidOrderShipping(l, item) ==
  item.ship \in DOMAIN l.shipping /\ item.service \in DOMAIN l.shipping[item.ship].services

ValidItems(o) ==
  \A i \in DOMAIN o.items :
    LET item == o.items[i]
        l    == item.listing
    IN  /\ l.type = "CRYPTOCURRENCY" => item.payTo
        /\ item.quantity > 0 /\ l.type # "CLASSIFIED"
        /\ ValidOrderOptions(l, item) /\ ValidOrderShipping(l, item)

\* ValidatePayment makes the escrow address again; the amount is only a number.
ValidPayment(o, n) ==
  LET hours == IF o.coin \in TimeoutCoins
               THEN Max({o.items[i].listing.hours : i \in DOMAIN o.items}) ELSE 0
  IN  CASE o.method = "MODERATED"  -> o.coin \in EscrowCoins /\ o.address = EscrowAddress(n, "2of3", hours)
        [] o.method = "CANCELABLE" -> o.coin \in EscrowCoins /\ o.address = EscrowAddress(n, "1of2", 0)
        [] OTHER -> TRUE

HasWallet(o) == o.coin \in VendorCoins

ValidOrderOpen(n) ==
  LET o == orders[n]
  IN  HasWallet(o) /\ ForSale(o) /\ HasKey(o) /\ ValidItems(o) /\ ValidPayment(o, n)

\* The order is opened or a REJECT sent. Without a wallet there is an error once more
\* after the REJECT is put, but that one is only logged.
ProcessOrderOpen(n) ==
  /\ orders[n].stage = "sent"
  /\ orders' = [orders EXCEPT ![n].stage =
       IF ValidOrderOpen(n) THEN "open" ELSE "rejected"]
  /\ UNCHANGED <<now, changes, forSale, published, addresses, answers>>

Next ==
  \/ \E l \in Drafts : SaveListing(l)
  \/ \E s \in Slug : DeleteListing(s)
  \/ Tick
  \/ \E p \in Purchases : CreateOrder(p)
  \/ \E n \in DOMAIN orders : GiveAddress(n) \/ GiveUp(n) \/ ProcessOrderOpen(n)
  \/ \E a \in answers : HearAddress(a)

Spec == Init /\ [][Next]_vars

\* The three seconds pass, and the messenger delivers.
FairSpec ==
  Spec /\ \A n \in 1..MaxOrders : WF_vars(n \in DOMAIN orders /\ GiveUp(n))
                               /\ WF_vars(n \in DOMAIN orders /\ ProcessOrderOpen(n))

-----------------------------------------------------------------------------
(* Properties *)

IsPayment(o) ==
  /\ o.method \in {"DIRECT", "MODERATED", "CANCELABLE"} /\ o.coin \in Coins /\ o.amount > 0
  /\ o.address.hours \in Nat
  /\ o.stage = "sent" => o.address.kind # "none"

IsOrderOpen(o) == o.items \in Seq(PurchaseItem) /\ o.country \in STRING /\ IsPayment(o)

\* Every variable has its type.
TypeOK ==
  /\ now \in 0..MaxTime /\ changes \in 0..MaxChanges
  /\ forSale \in [Slug -> Drafts \cup {None}] /\ published \subseteq Drafts
  /\ addresses \in 0..MaxOrders
  /\ answers \subseteq [coin : VendorCoins, id : 1..addresses]
  /\ \A n \in DOMAIN orders :
       /\ orders[n].stage \in {"asks", "sent", "open", "rejected", "failed"}
       /\ IsOrderOpen(orders[n])

\* What was asked for fits the listings, item for item.
Fits(p) ==
  \A i \in DOMAIN p.items :
    LET item == p.items[i]
        l    == item.listing
    IN  /\ {item.options[k].name : k \in DOMAIN item.options} = DOMAIN l.options
        /\ Len(item.options) = Cardinality(DOMAIN l.options)
        /\ ValidOrderShipping(l, item)
        /\ l.type = "CRYPTOCURRENCY" => item.payTo

\* The options of an earlier item come with it (purchase.go:276), an error that is
\* left to the vendor to find.
OptionsPileUp(p) == \E i \in DOMAIN p.items : i < Len(p.items) /\ p.items[i].options # <<>>

\* An order that was asked for as the listings allow is only rejected when the vendor
\* has changed them since, or has no wallet for the coin: all else that createOrder
\* makes, validateOrderOpen accepts.
RejectedForAReason ==
  [][\A n \in DOMAIN orders : orders[n].stage = "sent" /\ orders'[n].stage = "rejected" =>
       \/ orders[n].coin \notin VendorCoins
       \/ ~\A i \in DOMAIN orders[n].items :
             forSale[orders[n].items[i].listing.slug] = orders[n].items[i].listing
       \/ ~Fits(orders[n].purchase) \/ OptionsPileUp(orders[n].purchase)]_vars

\* Every unit at its extra price, but one at its full price.
ListedShipping(o) ==
  LET parcels == [i \in DOMAIN Shipped(o) |-> Parcel(o, Shipped(o)[i])]
      units == {i \in DOMAIN parcels : \A j \in DOMAIN parcels : parcels[j].price <= parcels[i].price}
  IN  IF parcels = <<>> THEN {0}
      ELSE {FoldLeft(LAMBDA sum, i : sum + parcels[i].more * (Shipped(o)[i].quantity - 1), 0, [i \in DOMAIN parcels |-> i])
            + FoldLeft(LAMBDA sum, i : sum + IF i = u THEN parcels[i].first ELSE parcels[i].more, 0, [i \in DOMAIN parcels |-> i])
            : u \in units}

AsListed(o) == [o EXCEPT !.items = [i \in DOMAIN @ |-> [@[i] EXCEPT !.listing = forSale[@.slug]]]]

\* "We want to charge primary rate for the item with the highest primary rate. All
\* other items and quantities should be charged the secondary rate"
\* (order_open.go:617): what the buyer pays for an order that is opened is what the
\* vendor's listings ask for at that moment.
OpenedAtListedPrice ==
  [][\A n \in DOMAIN orders : orders[n].stage = "sent" /\ orders'[n].stage = "open" =>
       /\ \A i \in DOMAIN orders[n].items : forSale[orders[n].items[i].listing.slug] # None
       /\ \E shipping \in ListedShipping(AsListed(orders[n])) :
            orders[n].amount = shipping
              + FoldLeft(LAMBDA sum, item : sum + ItemTotal(orders[n], item), 0, AsListed(orders[n]).items)]_vars

\* Every purchase comes to an end: opened, rejected or failed, whether or not the vendor
\* answers an address request, and also without a wallet for the coin (order_open.go:184).
PurchaseEnds ==
  \A n \in 1..MaxOrders :
    (n \in DOMAIN orders) ~> (n \in DOMAIN orders /\
      orders[n].stage \in {"open", "rejected", "failed"})

\* "RequestAddress requests a fresh payment address from the remote peer"
\* (address_request.go:23): an address an order already has is not given to another.
\* Purchases that wait for one coin together share the first answer (address_request.go:55).
FreshAddress ==
  [][\A m, n \in DOMAIN orders :
       orders[n].stage = "asks" /\ orders'[n].address.kind = "direct" =>
         orders[m].address # orders'[n].address]_vars
=============================================================================
