---------------------------- MODULE OrderTotals ----------------------------
(***************************************************************************)
(* What an order costs (orders/order_open.go, CalculateOrderTotal).        *)
(* Amounts are in the smallest unit.  The code multiplies by fractions in  *)
(* floating point and cuts the result off; instances use percentages and   *)
(* rates that are exact in binary.                                         *)
(***************************************************************************)
EXTENDS Listing, Sequences, SequencesExt

CONSTANTS ApiRate,   \* of the currencies the rate server knows: units for one of ReserveCurrency
          ReserveCurrency,
          One,       \* units of a currency that make one of it
          Coins

\* Cut off towards zero.
Trunc(n, d) == IF n >= 0 THEN n \div d ELSE -((-n) \div d)

PartOf(amount, percent) == Trunc(amount * percent, 100)

\* fetchRates: units of a currency for one of the base, by way of the reserve currency.
GetRate(base, to) ==
  IF base = ReserveCurrency THEN ApiRate[to] ELSE Trunc(ApiRate[to] * One, ApiRate[base])

\* A coin and its testnet namesake are one currency.
Equal(currency, coin) == currency = coin

\* Rates are asked for afresh, and may not be there.
CanConvert(currency, coin) ==
  Equal(currency, coin) \/ (coin \in DOMAIN ApiRate \cup {ReserveCurrency} /\ currency \in DOMAIN ApiRate)

ConvertAmount(amount, currency, coin) ==
  IF Equal(currency, coin) THEN amount ELSE Trunc(amount * One, GetRate(coin, currency))

\* The options of an item as a map, in which a later choice replaces an earlier one.
Chosen(options) ==
  [o \in {options[k].name : k \in DOMAIN options} |->
     options[Max({k \in DOMAIN options : options[k].name = o})].value]

Offers(l, item) ==
  IF DOMAIN l.options = {} THEN {0}
  ELSE {l.skus[sel] : sel \in {sel \in DOMAIN l.skus : \A o \in DOMAIN sel :
          o \in DOMAIN Chosen(item.options) /\ sel[o] = Chosen(item.options)[o]}}

\* The surcharge of the sku that was chosen.
SelectedSku(l, item) == CHOOSE surcharge \in Offers(l, item) : TRUE

\* A market price is the exchange rate of the quantity, and the modifier on it.
Quantity(l, item) == IF l.format = "MARKET_PRICE" THEN 1 ELSE item.quantity

ListPrice(l, item, coin) ==
  IF l.format = "MARKET_PRICE"
  THEN LET worth == ConvertAmount(item.quantity, l.crypto, coin)
       IN  worth + PartOf(worth, l.modifier)
  ELSE ConvertAmount(l.price, l.currency, coin)

\* Coupons one after the other, the percentage of what is left.
CouponTotal(l, item, coin, price) ==
  LET Apply(total, code) ==
        IF code \notin DOMAIN l.coupons THEN total
        ELSE IF l.coupons[code].off > 0
             THEN total - ConvertAmount(l.coupons[code].off, l.currency, coin)
             ELSE total + PartOf(total, -l.coupons[code].percent)
  IN  FoldLeft(Apply, price, item.coupons)

\* Each tax on the price with the taxes before it.
TaxTotal(l, country, price) ==
  LET Apply(total, tax) ==
        IF country \in tax.regions THEN total + PartOf(total, tax.percent) ELSE total
  IN  FoldLeft(Apply, price, l.taxes)

ItemTotal(o, item) ==
  LET l     == item.listing
      price == ListPrice(l, item, o.coin)
               + ConvertAmount(SelectedSku(l, item), l.currency, o.coin)
  IN  TaxTotal(l, o.country, CouponTotal(l, item, o.coin, price)) * Quantity(l, item)

\* The tax on shipping is that of the last tax that has it.
ShippingTax(l, country) ==
  FoldLeft(LAMBDA percent, tax :
             IF country \in tax.regions /\ tax.shipping THEN tax.percent ELSE percent,
           0, l.taxes)

ShipsTo(l, item, country) ==
  /\ item.ship \in DOMAIN l.shipping
  /\ \/ l.shipping[item.ship].pickup
     \/ /\ l.shipping[item.ship].regions \cap {country, "ALL"} # {}
        /\ item.service \in DOMAIN l.shipping[item.ship].services

Shipped(o) ==
  SelectSeq(o.items, LAMBDA item : /\ item.listing.type = "PHYSICAL_GOOD"
                                   /\ ~item.listing.shipping[item.ship].pickup)

\* What shipping costs: the first unit of the item that is dearest to ship, every
\* other unit, and the tax on it.
Parcel(o, item) ==
  LET l == item.listing
      s == l.shipping[item.ship].services[item.service]
      tax == ShippingTax(l, o.country)
      WithTax(amount) == amount + PartOf(amount, tax)
      extra == ConvertAmount(s.extra, l.currency, o.coin)
  IN  [price |-> ConvertAmount(s.price, l.currency, o.coin),
       first |-> WithTax(ConvertAmount(s.price, l.currency, o.coin)),
       more  |-> WithTax(extra), all |-> WithTax(extra * item.quantity),
       rest  |-> WithTax(extra * (item.quantity - 1))]

\* Mutant: the extra price of the dearest is not taken off.
ShippingTotalTwice(o) ==
  LET parcels == [i \in DOMAIN Shipped(o) |-> Parcel(o, Shipped(o)[i])]
      dearest == CHOOSE i \in DOMAIN parcels : \A j \in DOMAIN parcels :
                   parcels[j].price < parcels[i].price \/ (parcels[j].price = parcels[i].price /\ i <= j)
  IN  IF parcels = <<>> THEN 0
      ELSE FoldLeft(LAMBDA sum, p : sum + p.all, 0, parcels) + parcels[dearest].first

\* Several items: every unit at its extra price, then the dearest item's first unit
\* at its full price instead.
ShippingTotal(o) ==
  LET parcels == [i \in DOMAIN Shipped(o) |-> Parcel(o, Shipped(o)[i])]
      dearest == CHOOSE i \in DOMAIN parcels : \A j \in DOMAIN parcels :
                   parcels[j].price < parcels[i].price \/ (parcels[j].price = parcels[i].price /\ i <= j)
  IN  CASE Len(parcels) = 0 -> 0
        [] Len(parcels) = 1 -> parcels[1].first + parcels[1].rest
        [] OTHER -> FoldLeft(LAMBDA sum, p : sum + p.all, 0, parcels)
                    - parcels[dearest].more + parcels[dearest].first

\* The calculation ends in an error instead.
CanTotal(o) ==
  \A i \in DOMAIN o.items :
    LET item == o.items[i]
        l    == item.listing
    IN  /\ item.quantity > 0
        /\ Offers(l, item) # {}
        /\ CanConvert(IF l.format = "MARKET_PRICE" THEN l.crypto ELSE l.currency, o.coin)
        /\ l.type = "PHYSICAL_GOOD" => ShipsTo(l, item, o.country)

OrderTotal(o) ==
  FoldLeft(LAMBDA sum, item : sum + ItemTotal(o, item), 0, o.items) + ShippingTotal(o)
=============================================================================
