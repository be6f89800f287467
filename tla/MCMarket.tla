------------------------------ MODULE MCMarket ------------------------------
(* Instances of Market for TLC. *)
EXTENDS Market

NoNames == [x \in {} |-> {}]

Post(price, extra) ==
  [post |-> [pickup |-> FALSE, regions |-> {"US"},
             services |-> [std |-> [price |-> price, extra |-> extra]]]]

Shirt ==
  [slug |-> "shirt", type |-> "PHYSICAL_GOOD", format |-> "FIXED_PRICE", tidy |-> TRUE,
   expiry |-> 1, hours |-> 1, accepted |-> {"BTC"}, price |-> 80, modifier |-> 0,
   currency |-> "USD", crypto |-> "BTC", version |-> 1, signed |-> TRUE,
   options |-> NoNames, skus |-> [s \in {<<>>} |-> 0], shipping |-> Post(16, 4),
   taxes |-> <<[regions |-> {"US"}, percent |-> 25, shipping |-> TRUE]>>,
   coupons |-> [half |-> [percent |-> 50, off |-> 0], less |-> [percent |-> 0, off |-> 8]]]

DearShirt == [Shirt EXCEPT !.price = 160]

Sizes == [size |-> {"S", "M"}]

Boots ==
  [Shirt EXCEPT !.slug = "boots", !.hours = 2, !.expiry = 0, !.currency = "BTC", !.options = Sizes,
                !.skus = [sel \in [{"size"} -> {"S", "M"}] |-> IF sel.size = "S" THEN 0 ELSE 8],
                !.shipping = Post(24, 8), !.taxes = <<>>]

Song ==
  [Shirt EXCEPT !.slug = "song", !.type = "DIGITAL_GOOD", !.shipping = NoNames]

\* The price is that of the coins.
Coinage ==
  [Song EXCEPT !.slug = "coinage", !.type = "CRYPTOCURRENCY", !.format = "MARKET_PRICE",
               !.price = 0, !.modifier = 50, !.crypto = "USD", !.coupons = NoNames, !.taxes = <<>>]

\* Saved, but not for purchase; and not valid.
Advert == [Song EXCEPT !.slug = "advert", !.type = "CLASSIFIED"]
Free == [Shirt EXCEPT !.price = 0]

Item(l, quantity, options, coupons) ==
  [listing |-> l, quantity |-> quantity, options |-> options, coupons |-> coupons,
   ship |-> "post", service |-> "std", payTo |-> FALSE]

Size(v) == <<[name |-> "size", value |-> v]>>

Buy(items, coin, moderated) ==
  [items |-> items, country |-> "US", coin |-> coin, moderated |-> moderated]

AShirt    == Buy(<<Item(Shirt, 2, <<>>, <<"half", "less">>)>>, "BTC", FALSE)
SomeBoots == Buy(<<Item(Shirt, 1, <<>>, <<>>), Item(Boots, 2, Size("M"), <<"half", "half">>)>>, "BTC", TRUE)
Pairs     == Buy(<<Item(Boots, 1, Size("S"), <<>>), Item(Boots, 1, Size("M"), <<>>)>>, "BTC", TRUE)
ASong     == Buy(<<Item(Song, 1, <<>>, <<>>)>>, "BTC", FALSE)
Coined    == Buy(<<[Item(Coinage, 4, <<>>, <<>>) EXCEPT !.payTo = TRUE]>>, "BTC", FALSE)
Paid(coin) == Buy(<<Item(Shirt, 1, <<>>, <<>>)>>, coin, FALSE)

TheDrafts == {Shirt, DearShirt, Boots, Song, Coinage, Advert, Free}
ThePurchases == {AShirt, SomeBoots, Pairs, ASong, Coined, Paid("BCH"), Paid("LTC"), Paid("ZEC"),
                 Buy(<<Item(Advert, 1, <<>>, <<>>)>>, "BTC", FALSE)}

MinModifier == -100

TheRates == [USD |-> 50, BTC |-> 100, BCH |-> 200, LTC |-> 400]
=============================================================================
