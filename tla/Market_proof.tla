---------------------------- MODULE Market_proof ----------------------------
(***************************************************************************)
(* Proofs about Market, for any listings, purchases, coins and number of   *)
(* orders, saves and days.                                                 *)
(*                                                                         *)
(* Inv says that an order stays what was asked for (Built), and that its   *)
(* address is that of its method (Addressed): of the escrow for this very  *)
(* order, or one that the vendor's wallet gave out.  Unused says that an   *)
(* answer under way has an address that no order has, and that no other    *)
(* answer has.  Only the number of orders that were asked for bounds the   *)
(* addresses, so TypeOK counts them.                                       *)
(*                                                                         *)
(* The list of an item's options joins those of the items up to it, and    *)
(* the escrow's timeout is the longest of the listings'.  The lemmas about *)
(* both go through the items of a purchase one by one: Reaches is an       *)
(* induction over the members of a set.                                    *)
(***************************************************************************)
EXTENDS Market, FiniteSetTheorems, WellFoundedInduction, TLAPS

-----------------------------------------------------------------------------
(* Sequences *)

\* Induction up to n, over a set.
LEMMA Reaches ==
  ASSUME NEW T, NEW n \in Nat, 0 \in T, \A k \in 0..(n - 1) : k \in T => k + 1 \in T
  PROVE  0..n \subseteq T
<1> SUFFICES ASSUME ~(0..n \subseteq T) PROVE FALSE
  OBVIOUS
<1> DEFINE R == OpToRel(<, Nat)
           U == 0..n \ T
<1>1. U \subseteq Nat /\ U # {}
  OBVIOUS
<1>2. PICK x \in U : \A y \in U : ~(<<y, x>> \in R)
  <2>1. IsWellFoundedOn(R, Nat)
    BY NatLessThanWellFounded
  <2> HIDE DEF U, R
  <2> QED BY <1>1, <2>1, WFMin
<1>3. \A a, b \in Nat : <<a, b>> \in R <=> a < b
  BY DEF OpToRel
<1> HIDE DEF R
<1>4. x # 0 /\ x \in 1..n /\ x - 1 \in 0..(n-1)
  OBVIOUS
<1>5. SUFFICES ASSUME x - 1 \in U PROVE FALSE
  BY <1>4
<1>6. <<x - 1, x>> \in R
  BY <1>3, <1>4
<1>7. <<x - 1, x>> \notin R
  BY <1>2, <1>5
<1> HIDE DEF R
<1> QED BY <1>6, <1>7

\* The lists s[1] to s[k], one after the other, are f[k].
Joins(f, s, S, n) ==
  /\ f \in [1..n -> Seq(S)]
  /\ \A i \in 1..n : f[i] = IF i = 1 THEN s[i] ELSE f[i - 1] \o s[i]

LEMMA JoinExists ==
  ASSUME NEW S, NEW s \in Seq(Seq(S)), NEW n \in Nat, n <= Len(s)
  PROVE  \E f : Joins(f, s, S, n)
<1> DEFINE T == {k \in 0..n : \E f : Joins(f, s, S, k)}
<1>1. 0 \in T
  <2>1. Joins([i \in 1..0 |-> <<>>], s, S, 0)
    BY DEF Joins
  <2> QED BY <2>1
<1>2. \A k \in 0..(n - 1) : k \in T => k + 1 \in T
  <2> SUFFICES ASSUME NEW k \in 0..(n - 1), NEW f, Joins(f, s, S, k)
               PROVE  k + 1 \in T
    OBVIOUS
  <2> DEFINE last == IF k = 0 THEN s[1] ELSE f[k] \o s[k + 1]
             g == [i \in 1..(k + 1) |-> IF i <= k THEN f[i] ELSE last]
  <2>1. last \in Seq(S)
    <3>1. s[k + 1] \in Seq(S) /\ s[1] \in Seq(S) /\ (k # 0 => f[k] \in Seq(S))
      BY DEF Joins
    <3> QED BY <3>1
  <2>2. g[k + 1] = IF k + 1 = 1 THEN s[k + 1] ELSE g[k] \o s[k + 1]
    OBVIOUS
  <2> HIDE DEF last
  <2>3. g \in [1..(k + 1) -> Seq(S)]
    BY <2>1 DEF Joins
  <2>4. ASSUME NEW i \in 1..k
        PROVE  g[i] = IF i = 1 THEN s[i] ELSE g[i - 1] \o s[i]
    <3>1. g[i] = f[i] /\ (i # 1 => g[i - 1] = f[i - 1])
      OBVIOUS
    <3> QED BY <3>1 DEF Joins
  <2> HIDE DEF g
  <2>5. ASSUME NEW i \in 1..(k + 1)
        PROVE  g[i] = IF i = 1 THEN s[i] ELSE g[i - 1] \o s[i]
    <3>1. i \in 1..k \/ (i = k + 1 /\ i - 1 = k)
      OBVIOUS
    <3> QED BY <2>2, <2>4, <3>1
  <2>6. Joins(g, s, S, k + 1)
    BY <2>3, <2>5 DEF Joins
  <2> QED BY <2>6
<1> HIDE DEF T
<1>3. 0..n \subseteq T
  BY <1>1, <1>2, Reaches
<1> QED BY <1>3 DEF T

LEMMA FlattenLists ==
  ASSUME NEW S, NEW s \in Seq(Seq(S))
  PROVE  /\ FlattenSeq(s) \in Seq(S)
         /\ s # <<>> /\ (\A i \in 1..(Len(s) - 1) : s[i] = <<>>) => FlattenSeq(s) = s[Len(s)]
<1> DEFINE n == Len(s)
           J(f) == [i \in 1..n |-> IF i = 1 THEN s[i] ELSE f[i - 1] \o s[i]]
           F == CHOOSE f : f = J(f)
<1>1. CASE n = 0
  BY <1>1 DEF FlattenSeq
<1>2. CASE n # 0
  <2>1. FlattenSeq(s) = F[n]
    BY <1>2 DEF FlattenSeq
  <2>2. PICK f : f = J(f)
    <3>1. PICK f : Joins(f, s, S, n)
      BY JoinExists
    <3> QED BY <3>1 DEF Joins
  <2>3. F = J(F)
    <3> HIDE DEF J
    <3> QED BY <2>2
  <2>4. \A i \in 1..n : F[i] = IF i = 1 THEN s[i] ELSE F[i - 1] \o s[i]
    <3> HIDE DEF F
    <3> QED BY <2>3
  <2> HIDE DEF F, J
  <2>5. \A i \in 1..n : s[i] \in Seq(S)
    OBVIOUS
  <2>7. n \in Nat /\ n > 0
    BY <1>2
  <2> HIDE DEF n
  <2>6. /\ F[1] = s[1]
        /\ \A k \in 1..(n - 1) : F[k + 1] = F[k] \o s[k + 1]
    <3>1. F[1] = s[1]
      BY <2>4, <2>7
    <3>2. ASSUME NEW k \in 1..(n - 1)
          PROVE  F[k + 1] = F[k] \o s[k + 1]
      <4>1. k + 1 \in 1..n /\ k + 1 # 1 /\ (k + 1) - 1 = k
        BY <2>7
      <4> HIDE DEF F
      <4> QED BY <2>4, <4>1
    <3> QED BY <3>1, <3>2
  <2>8. \A i \in 1..n : F[i] \in Seq(S)
    <3> DEFINE T == {k \in 0..n : k # 0 => F[k] \in Seq(S)}
    <3>1. \A k \in 0..(n - 1) : k \in T => k + 1 \in T
      <4> SUFFICES ASSUME NEW k \in 0..(n - 1), k \in T
                   PROVE  F[k + 1] \in Seq(S)
        BY <2>7
      <4>1. s[k + 1] \in Seq(S) /\ (k # 0 => k \in 1..(n - 1) /\ F[k] \in Seq(S))
        BY <2>5, <2>7
      <4>2. k # 0 => F[k + 1] = F[k] \o s[k + 1]
        BY <2>6, <4>1
      <4>3. k = 0 => F[k + 1] = s[k + 1]
        BY <2>6
      <4>4. \A a, b \in Seq(S) : a \o b \in Seq(S)
        OBVIOUS
      <4> QED BY <4>1, <4>2, <4>3, <4>4
    <3>2. 0 \in T
      BY <2>7
    <3>3. 0..n \subseteq T
      <4> HIDE DEF T
      <4> QED BY <2>7, <3>1, <3>2, Reaches
    <3> QED BY <2>7, <3>3
  <2>9. ASSUME \A i \in 1..(n - 1) : s[i] = <<>>
        PROVE  F[n] = s[n]
    <3> DEFINE T == {k \in 0..(n - 1) : k # 0 => F[k] = <<>>}
    <3>1. \A k \in 0..(n - 2) : k \in T => k + 1 \in T
      <4> SUFFICES ASSUME NEW k \in 0..(n - 2), k \in T
                   PROVE  F[k + 1] = <<>>
        BY <2>7
      <4>1. s[k + 1] = <<>>
        BY <2>7, <2>9
      <4>2. CASE k = 0
        BY <2>6, <4>1, <4>2
      <4>3. CASE k # 0
        <5>1. k \in 1..(n - 1) /\ F[k] = <<>>
          BY <2>7, <4>3
        <5>2. F[k + 1] = F[k] \o s[k + 1]
          BY <2>6, <5>1
        <5> QED BY <4>1, <5>1, <5>2
      <4> QED BY <4>2, <4>3
    <3>2. 0 \in T
      BY <2>7
    <3>3. 0..(n - 1) \subseteq T
      <4> HIDE DEF T
      <4>1. n - 1 \in Nat /\ (n - 1) - 1 = n - 2
        BY <2>7
      <4> QED BY <3>1, <3>2, <4>1, Reaches
    <3>4. CASE n = 1
      BY <2>6, <3>4
    <3>5. CASE n > 1
      <4>1. n - 1 \in 1..(n - 1) /\ n - 1 \in T /\ (n - 1) + 1 = n
        BY <2>7, <3>3, <3>5
      <4>2. F[n] = F[n - 1] \o s[n]
        BY <2>6, <4>1
      <4>3. s[n] \in Seq(S) /\ F[n - 1] = <<>>
        BY <2>5, <2>7, <3>5, <4>1
      <4> QED BY <4>2, <4>3
    <3> QED BY <2>7, <3>4, <3>5
  <2>10. s # <<>> /\ FlattenSeq(s) \in Seq(S)
    BY <1>2, <2>1, <2>7, <2>8 DEF n
  <2> QED BY <2>1, <2>9, <2>10 DEF n
<1> QED BY <1>1, <1>2

\* The longest of the timeouts of a list is one of them.
Longest(f, k) == \E x \in 1..k : \A i \in 1..k : f[x] >= f[i]

LEMMA MaxOfList ==
  ASSUME NEW n \in Nat, n > 0, NEW f \in [1..n -> Nat]
  PROVE  Max({f[i] : i \in 1..n}) \in Nat
<1> DEFINE T == {k \in 0..n : k # 0 => Longest(f, k)}
<1>1. ASSUME NEW k \in 0..(n - 1), k # 0 => Longest(f, k)
      PROVE  Longest(f, k + 1)
  <2> \A i \in 1..n : f[i] \in Nat
    OBVIOUS
  <2>1. CASE k = 0
    <3>1. 1 \in 1..n /\ 1 \in 1..(k + 1) /\ \A i \in 1..(k + 1) : i = 1
      BY <2>1
    <3>2. f[1] >= f[1]
      BY <3>1
    <3>3. \A i \in 1..(k + 1) : f[1] >= f[i]
      BY <3>1, <3>2
    <3> QED BY <3>1, <3>3 DEF Longest
  <2>2. CASE k # 0
    <3>1. PICK x \in 1..k : \A i \in 1..k : f[x] >= f[i]
      BY <1>1, <2>2 DEF Longest
    <3>2. \A i \in 1..(k + 1) : i \in 1..n /\ (i \in 1..k \/ i = k + 1)
      OBVIOUS
    <3>3. x \in 1..(k + 1) /\ k + 1 \in 1..(k + 1)
      OBVIOUS
    <3>4. CASE f[x] >= f[k + 1]
      BY <3>1, <3>2, <3>3, <3>4 DEF Longest
    <3>5. CASE ~(f[x] >= f[k + 1])
      <4>1. \A i \in 1..(k + 1) : f[k + 1] >= f[i]
        BY <3>1, <3>2, <3>3, <3>5
      <4> QED BY <3>3, <4>1 DEF Longest
    <3> QED BY <3>4, <3>5
  <2> QED BY <2>1, <2>2
<1>2. 0 \in T /\ \A k \in 0..(n - 1) : k \in T => k + 1 \in T
  <2>1. \A k \in 0..(n - 1) : k + 1 \in 0..n
    OBVIOUS
  <2> QED BY <1>1, <2>1
<1>3. n \in T
  <2> HIDE DEF T
  <2>1. 0..n \subseteq T
    BY <1>2, Reaches
  <2> QED BY <2>1
<1> DEFINE S == {f[i] : i \in 1..n}
<1>4. S \subseteq Nat /\ \E x \in S : \A y \in S : x >= y
  <2>1. PICK x \in 1..n : \A i \in 1..n : f[x] >= f[i]
    BY <1>3 DEF Longest
  <2>2. f[x] \in S /\ \A y \in S : f[x] >= y
    BY <2>1
  <2> QED BY <2>2
<1> HIDE DEF S
<1>5. Max(S) \in S
  BY <1>4 DEF Max
<1> QED BY <1>4, <1>5 DEF S

LEMMA ListOfOrders ==
  ASSUME NEW k \in Nat, NEW f, f = [i \in 1..k |-> f[i]]
  PROVE  f \in Seq(Range(f)) /\ Len(f) = k
BY DEF Range

LEMMA OrdersOfList ==
  ASSUME NEW S, NEW f \in Seq(S)
  PROVE  /\ Len(f) \in Nat /\ DOMAIN f = 1..Len(f)
         /\ f = [i \in 1..Len(f) |-> f[i]]
OBVIOUS

LEMMA AppendOrder ==
  ASSUME NEW f, f \in Seq(Range(f)), NEW o
  PROVE  LET g == Append(f, o)
         IN  /\ g \in Seq(Range(g)) /\ Len(g) = Len(f) + 1
             /\ g[Len(f) + 1] = o /\ \A n \in 1..Len(f) : g[n] = f[n]
<1> DEFINE S == Range(f) \cup {o}
           g == Append(f, o)
<1>1. f \in Seq(S) /\ o \in S
  <2>1. \A n \in 1..Len(f) : f[n] \in S
    BY DEF Range
  <2>2. Len(f) \in Nat /\ f = [i \in 1..Len(f) |-> f[i]]
    BY OrdersOfList
  <2>3. o \in S
    OBVIOUS
  <2> HIDE DEF S
  <2> QED BY <2>1, <2>2, <2>3
<1> HIDE DEF S
<1>2. /\ Len(g) = Len(f) + 1 /\ g \in Seq(S)
      /\ g[Len(f) + 1] = o /\ \A n \in 1..Len(f) : g[n] = f[n]
  BY <1>1
<1>3. Len(g) \in Nat /\ g = [i \in 1..Len(g) |-> g[i]]
  BY <1>2, OrdersOfList
<1>4. g \in Seq(Range(g))
  BY <1>3, ListOfOrders
<1> QED BY <1>2, <1>4

-----------------------------------------------------------------------------
(* The inductive invariant *)

\* The fields of an order.
IsOrder(o) ==
  o = [items |-> o.items, country |-> o.country, coin |-> o.coin, purchase |-> o.purchase,
       method |-> o.method, amount |-> o.amount, address |-> o.address, stage |-> o.stage,
       asked |-> o.asked]

\* What createOrder checked of an item, which does not change any more.
IsChosen(item) ==
  /\ item.quantity > 0 /\ item.listing.type # "CLASSIFIED"
  /\ ValidOptions(item.listing) /\ Offers(item.listing, item) # {}

\* An order is what was asked for.
Built(o) ==
  /\ IsOrder(o) /\ o.purchase \in Purchases
  /\ o.items = OrderItems(o.purchase) /\ o.items # <<>>
  /\ o.country \in STRING /\ o.coin \in Coins /\ o.amount > 0
  /\ \A i \in DOMAIN o.items : IsChosen(o.items[i])

\* The address is that of the method; one that the vendor's wallet gave out is there
\* as soon as the answer was heard.
Addressed(o, n, limit) ==
  /\ o.stage \in {"asks", "sent", "open", "rejected", "failed"}
  /\ o.method \in {"DIRECT", "MODERATED", "CANCELABLE"}
  /\ o.method = "MODERATED" => /\ o.coin \in EscrowCoins /\ o.stage # "asks"
                               /\ o.address = EscrowAddress(n, "2of3", EscrowHours(o))
  /\ o.method = "CANCELABLE" => /\ o.coin \in EscrowCoins /\ o.stage # "asks"
                                /\ o.address = EscrowAddress(n, "1of2", 0)
  /\ o.method = "DIRECT" =>
       IF o.stage \in {"asks", "failed"} THEN o.address = NoAddress
       ELSE \E id \in 1..limit : o.address = DirectAddress(id)

\* The orders for which the vendor's wallet may have given out an address.
Asked == {n \in DOMAIN orders : orders[n].asked}

\* No address is in two answers, nor in an answer and an order.
Unused ==
  /\ \A a, b \in answers : a.id = b.id => a = b
  /\ \A a \in answers : \A n \in DOMAIN orders : orders[n].address # DirectAddress(a.id)

Inv ==
  /\ now \in 0..MaxTime /\ changes \in 0..MaxChanges
  /\ forSale \in [Slug -> Drafts \cup {None}] /\ published \subseteq Drafts
  /\ orders \in Seq(Range(orders)) /\ Len(orders) <= MaxOrders
  /\ \A n \in DOMAIN orders : Built(orders[n]) /\ Addressed(orders[n], n, addresses)
  /\ addresses \in Nat /\ addresses <= Cardinality(Asked)
  /\ answers \subseteq [coin : VendorCoins, id : 1..addresses]
  /\ Unused

Choice == [name : STRING, value : STRING]

LEMMA ItemType ==
  ASSUME NEW x \in PurchaseItem
  PROVE  /\ x.listing \in Drafts /\ x.options \in Seq(Choice)
         /\ \A s \in Seq(Choice) : [x EXCEPT !.options = s] \in PurchaseItem
         /\ [x EXCEPT !.options = x.options] = x
<1> DEFINE ChoiceLists == Seq(Choice)
           Codes == Seq(STRING)
<1>1. PurchaseItem = [listing : Drafts, quantity : Nat, options : ChoiceLists, coupons : Codes,
                      ship : STRING, service : STRING, payTo : BOOLEAN]
  BY DEF PurchaseItem, Choice
<1> HIDE DEF ChoiceLists, Codes
<1>2. x.listing \in Drafts /\ x.options \in ChoiceLists
  BY <1>1
<1>3. \A s \in ChoiceLists : [x EXCEPT !.options = s] \in PurchaseItem
  BY <1>1
<1>4. [x EXCEPT !.options = x.options] = x
  BY <1>1
<1> QED BY <1>2, <1>3, <1>4 DEF ChoiceLists

LEMMA ItemsOf ==
  ASSUME NEW p \in Purchases
  PROVE  /\ OrderItems(p) \in Seq(PurchaseItem) /\ DOMAIN OrderItems(p) = DOMAIN p.items
         /\ p.items \in Seq(PurchaseItem)
         /\ ~OptionsPileUp(p) => OrderItems(p) = p.items
<1> DEFINE L(i) == [k \in 1..i |-> p.items[k].options]
<1>1. p.items \in Seq(PurchaseItem)
  BY DataAssumption DEF IsPurchase
<1>2. /\ Len(p.items) \in Nat /\ DOMAIN p.items = 1..Len(p.items)
      /\ p.items = [i \in 1..Len(p.items) |-> p.items[i]]
  BY <1>1, OrdersOfList
<1>3. \A i \in DOMAIN p.items : p.items[i] \in PurchaseItem /\ p.items[i].options \in Seq(Choice)
  <2>1. \A i \in DOMAIN p.items : p.items[i] \in PurchaseItem
    BY <1>1
  <2> QED BY <2>1, ItemType
<1>4. ASSUME NEW i \in DOMAIN p.items
      PROVE  L(i) \in Seq(Seq(Choice)) /\ Len(L(i)) = i
  <2>1. i \in Nat /\ \A k \in 1..i : k \in DOMAIN p.items
    BY <1>2
  <2>2. \A k \in 1..i : p.items[k].options \in Seq(Choice)
    BY <1>3, <2>1
  <2> DEFINE S == Seq(Choice)
  <2> HIDE DEF S
  <2>3. L(i) \in Seq(S) /\ Len(L(i)) = i
    BY <2>1, <2>2 DEF S
  <2> QED BY <2>3 DEF S
<1> DEFINE F(i) == FlattenSeq(L(i))
<1>5. ASSUME NEW i \in DOMAIN p.items
      PROVE  /\ F(i) \in Seq(Choice)
             /\ (\A k \in 1..(i - 1) : p.items[k].options = <<>>) => F(i) = p.items[i].options
  <2>1. L(i) # <<>> /\ L(i)[i] = p.items[i].options /\ \A k \in 1..(i - 1) : L(i)[k] = p.items[k].options
    BY <1>2, <1>4
  <2> HIDE DEF L
  <2> QED BY <1>4, <2>1, FlattenLists
<1> DEFINE G(i) == [p.items[i] EXCEPT !.options = F(i)]
<1>6. OrderItems(p) = [i \in DOMAIN p.items |-> G(i)]
  BY DEF OrderItems
<1> HIDE DEF F
<1>7. \A i \in DOMAIN p.items : G(i) \in PurchaseItem
  BY <1>3, <1>5, ItemType
<1>8. OrderItems(p) \in Seq(PurchaseItem)
  <2> HIDE DEF G
  <2> QED BY <1>2, <1>6, <1>7
<1>9. ASSUME ~OptionsPileUp(p)
      PROVE  OrderItems(p) = p.items
  <2>1. ASSUME NEW i \in DOMAIN p.items
        PROVE  G(i) = p.items[i]
    <3>1. \A k \in 1..(i - 1) : p.items[k].options = <<>>
      BY <1>2, <1>9 DEF OptionsPileUp
    <3>2. F(i) = p.items[i].options
      BY <1>5, <3>1
    <3> QED BY <1>3, <3>2, ItemType
  <2> HIDE DEF G
  <2> QED BY <1>2, <1>6, <2>1
<1> QED BY <1>1, <1>6, <1>8, <1>9

LEMMA HoursOf ==
  ASSUME NEW o, Built(o)
  PROVE  EscrowHours(o) \in Nat /\ o.items \in Seq(PurchaseItem)
<1>1. o.items \in Seq(PurchaseItem) /\ o.items # <<>>
  BY ItemsOf DEF Built
<1> DEFINE f == [i \in 1..Len(o.items) |-> o.items[i].listing.hours]
<1>2. Len(o.items) \in Nat /\ Len(o.items) > 0 /\ DOMAIN o.items = 1..Len(o.items)
  BY <1>1
<1>3. \A i \in 1..Len(o.items) : o.items[i].listing \in Drafts
  <2>1. \A i \in 1..Len(o.items) : o.items[i] \in PurchaseItem
    BY <1>1
  <2> QED BY <2>1, ItemType
<1>4. f \in [1..Len(o.items) -> Nat]
  BY <1>3, DataAssumption DEF IsListing, HasMetadata
<1>5. {o.items[i].listing.hours : i \in DOMAIN o.items} = {f[i] : i \in 1..Len(o.items)}
  BY <1>2
<1>6. Max({o.items[i].listing.hours : i \in DOMAIN o.items}) \in Nat
  <2> HIDE DEF f
  <2> QED BY <1>2, <1>4, <1>5, MaxOfList
<1> QED BY <1>1, <1>6 DEF EscrowHours

LEMMA InvTypeOK == Inv => TypeOK
<1> SUFFICES ASSUME Inv
             PROVE  TypeOK
  OBVIOUS
<1>1. Len(orders) \in Nat /\ DOMAIN orders = 1..Len(orders)
  BY OrdersOfList DEF Inv
<1>2. addresses \in 0..MaxOrders
  <2>1. IsFiniteSet(1..Len(orders)) /\ Cardinality(1..Len(orders)) = Len(orders)
    <3> DEFINE k == Len(orders)
    <3> HIDE DEF k
    <3>1. IsFiniteSet(1..k) /\ Cardinality(1..k) = IF 1 > k THEN 0 ELSE k - 1 + 1
      BY <1>1, FS_Interval DEF k
    <3>2. (IF 1 > k THEN 0 ELSE k - 1 + 1) = k
      BY <1>1 DEF k
    <3> QED BY <3>1, <3>2 DEF k
  <2>2. Asked \subseteq 1..Len(orders)
    BY <1>1 DEF Asked
  <2>3. Cardinality(Asked) <= Len(orders) /\ Cardinality(Asked) \in Nat
    BY <2>1, <2>2, FS_Subset, FS_CardinalityType
  <2> QED BY <1>1, <2>3, BoundsAssumption DEF Inv
<1>3. ASSUME NEW n \in DOMAIN orders
      PROVE  /\ orders[n].stage \in {"asks", "sent", "open", "rejected", "failed"}
             /\ IsOrderOpen(orders[n])
  <2> DEFINE o == orders[n]
  <2>1. Built(o) /\ Addressed(o, n, addresses)
    BY DEF Inv
  <2> HIDE DEF o
  <2>2. EscrowHours(o) \in Nat /\ o.items \in Seq(PurchaseItem)
    BY <2>1, HoursOf
  <2>3. o.address.hours \in Nat /\ (o.stage = "sent" => o.address.kind # "none")
    <3>1. CASE o.method = "MODERATED"
      BY <2>1, <2>2, <3>1 DEF Addressed, EscrowAddress
    <3>2. CASE o.method = "CANCELABLE"
      BY <2>1, <3>2 DEF Addressed, EscrowAddress
    <3>3. CASE o.method = "DIRECT"
      <4>1. \A id : DirectAddress(id).kind = "direct" /\ DirectAddress(id).hours = 0
        BY DEF DirectAddress
      <4>2. NoAddress.hours = 0
        BY DEF NoAddress
      <4>3. IF o.stage \in {"asks", "failed"} THEN o.address = NoAddress
            ELSE \E id \in 1..addresses : o.address = DirectAddress(id)
        BY <2>1, <3>3 DEF Addressed
      <4> QED BY <4>1, <4>2, <4>3
    <3> QED BY <2>1, <3>1, <3>2, <3>3 DEF Addressed
  <2>4. IsOrderOpen(o)
    BY <2>1, <2>2, <2>3 DEF IsOrderOpen, IsPayment, Built, Addressed
  <2> QED BY <2>1, <2>4 DEF Addressed, o
<1> QED BY <1>2, <1>3 DEF Inv, TypeOK

-----------------------------------------------------------------------------
(* The steps *)

\* The order q is the order o but for its method, address and stage, and for whether
\* it was answered.
Revised(o, method, address, stage, asked) ==
  [items |-> o.items, country |-> o.country, coin |-> o.coin, purchase |-> o.purchase,
   method |-> method, amount |-> o.amount, address |-> address, stage |-> stage, asked |-> asked]

Revises(q, o, method, address, stage) ==
  \E asked : q = Revised(o, method, address, stage, asked)

\* It is still what was asked for.
LEMMA RevisedOrder ==
  ASSUME NEW o, Built(o), NEW method, NEW address, NEW stage, NEW q,
         Revises(q, o, method, address, stage)
  PROVE  /\ Built(q) /\ EscrowHours(q) = EscrowHours(o) /\ q.coin = o.coin
         /\ q.method = method /\ q.address = address /\ q.stage = stage
<1>1. /\ q.items = o.items /\ q.country = o.country /\ q.coin = o.coin
      /\ q.purchase = o.purchase /\ q.method = method /\ q.amount = o.amount
      /\ q.address = address /\ q.stage = stage /\ IsOrder(q)
  BY DEF IsOrder, Revises, Revised
<1> HIDE DEF Revises
<1> QED BY <1>1 DEF Built, EscrowHours

\* What each of the steps does to an order.
LEMMA OrderExcept ==
  ASSUME NEW o, Built(o), NEW method, NEW address, NEW stage, NEW asked
  PROVE  /\ Revises([o EXCEPT !.stage = stage], o, o.method, o.address, stage)
         /\ Revises([o EXCEPT !.asked = asked], o, o.method, o.address, o.stage)
         /\ Revises([o EXCEPT !.stage = stage, !.address = address], o, o.method, address, stage)
         /\ Revises([o EXCEPT !.stage = stage, !.method = method, !.address = address],
                    o, method, address, stage)
<1> DEFINE r == Revised(o, o.method, o.address, o.stage, o.asked)
           s == Revised(o, o.method, o.address, stage, o.asked)
           t == Revised(o, method, o.address, stage, o.asked)
<1>1. o = r
  BY DEF Built, IsOrder, Revised
<1>2. [r EXCEPT !.stage = stage] = s
  BY DEF Revised
<1>3. [r EXCEPT !.asked = asked] = Revised(o, o.method, o.address, o.stage, asked)
  BY DEF Revised
<1>4. [s EXCEPT !.address = address] = Revised(o, o.method, address, stage, o.asked)
  BY DEF Revised
<1>5. [s EXCEPT !.method = method] = t
  BY DEF Revised
<1>6. [t EXCEPT !.address = address] = Revised(o, method, address, stage, o.asked)
  BY DEF Revised
<1> HIDE DEF r, s, t
<1>7. [r EXCEPT !.stage = stage, !.address = address] = [s EXCEPT !.address = address]
  BY <1>2
<1>8. [r EXCEPT !.stage = stage, !.method = method, !.address = address]
        = [t EXCEPT !.address = address]
  BY <1>2, <1>5
<1>9. Revises([o EXCEPT !.stage = stage], o, o.method, o.address, stage)
  BY <1>1, <1>2 DEF s, Revises
<1>10. Revises([o EXCEPT !.asked = asked], o, o.method, o.address, o.stage)
  BY <1>1, <1>3 DEF Revises
<1>11. Revises([o EXCEPT !.stage = stage, !.address = address], o, o.method, address, stage)
  BY <1>1, <1>4, <1>7 DEF Revises
<1>12. Revises([o EXCEPT !.stage = stage, !.method = method, !.address = address],
               o, method, address, stage)
  BY <1>1, <1>6, <1>8 DEF Revises
<1> QED BY <1>9, <1>10, <1>11, <1>12

\* Addresses of different kinds differ, and so do those of different numbers.
LEMMA Addresses ==
  /\ \A i, j : DirectAddress(i) = DirectAddress(j) => i = j
  /\ \A i, n, kind, hours : kind # "direct" => DirectAddress(i) # EscrowAddress(n, kind, hours)
  /\ \A i : DirectAddress(i) # NoAddress
  /\ \A i : DirectAddress(i).kind = "direct" /\ DirectAddress(i).id = i
<1>1. \A i : DirectAddress(i).kind = "direct" /\ DirectAddress(i).id = i
  BY DEF DirectAddress
<1>2. \A n, kind, hours : EscrowAddress(n, kind, hours).kind = kind
  BY DEF EscrowAddress
<1>3. NoAddress.kind = "none"
  BY DEF NoAddress
<1> QED BY <1>1, <1>2, <1>3

LEMMA AddressedStays ==
  ASSUME NEW o, NEW n, NEW i \in Nat, NEW j \in Nat, i <= j, Addressed(o, n, i)
  PROVE  Addressed(o, n, j)
BY DEF Addressed

LEMMA OrdersTyped ==
  ASSUME Inv
  PROVE  /\ Len(orders) \in Nat /\ DOMAIN orders = 1..Len(orders)
         /\ orders = [n \in 1..Len(orders) |-> orders[n]]
         /\ IsFiniteSet(Asked) /\ Cardinality(Asked) \in Nat
<1>1. /\ Len(orders) \in Nat /\ DOMAIN orders = 1..Len(orders)
      /\ orders = [n \in 1..Len(orders) |-> orders[n]]
  BY OrdersOfList DEF Inv
<1>2. IsFiniteSet(1..Len(orders)) /\ Asked \subseteq 1..Len(orders)
  <2>1. 1 \in Int /\ Len(orders) \in Int
    BY <1>1
  <2> QED BY <1>1, <2>1, FS_Interval DEF Asked
<1>3. IsFiniteSet(Asked)
  BY <1>2, FS_Subset
<1> QED BY <1>1, <1>3, FS_CardinalityType

\* A step that leaves the orders as they are.
LEMMA OrdersUntouched ==
  ASSUME Inv, UNCHANGED <<orders, addresses, answers>>,
         now' \in 0..MaxTime, changes' \in 0..MaxChanges,
         forSale' \in [Slug -> Drafts \cup {None}], published' \subseteq Drafts
  PROVE  Inv'
BY DEF Inv, Asked, Unused

\* A step that changes orders, and adds none.
LEMMA OrdersRevised ==
  ASSUME Inv, UNCHANGED <<now, changes, forSale, published>>,
         orders' = [n \in DOMAIN orders |-> orders'[n]],
         \A n \in DOMAIN orders : Built(orders'[n]) /\ Addressed(orders'[n], n, addresses'),
         addresses' \in Nat, addresses' <= Cardinality(Asked'),
         answers' \subseteq [coin : VendorCoins, id : 1..addresses'], Unused'
  PROVE  Inv'
<1>1. orders' \in Seq(Range(orders')) /\ Len(orders') = Len(orders)
  BY OrdersTyped, ListOfOrders
<1>2. DOMAIN orders' = DOMAIN orders
  OBVIOUS
<1> QED BY <1>1, <1>2 DEF Inv

LEMMA GiveAddressKeeps ==
  ASSUME Inv, NEW n \in DOMAIN orders, GiveAddress(n)
  PROVE  Inv'
<1>1. /\ orders' = [orders EXCEPT ![n] = [orders[n] EXCEPT !.asked = TRUE]]
      /\ ~orders[n].asked /\ orders[n].coin \in VendorCoins
      /\ addresses' = addresses + 1
      /\ answers' = answers \cup {[coin |-> orders[n].coin, id |-> addresses + 1]}
      /\ UNCHANGED <<now, changes, forSale, published>>
  BY DEF GiveAddress
<1>2. addresses \in Nat /\ addresses' \in Nat /\ addresses <= addresses'
  BY <1>1 DEF Inv
<1> DEFINE o == orders[n]
<1>3. Built(o) /\ Addressed(o, n, addresses)
  BY DEF Inv
<1>4. Built(orders'[n]) /\ Addressed(orders'[n], n, addresses') /\ orders'[n].asked
      /\ orders'[n].address = orders[n].address
  <2> DEFINE q == orders'[n]
  <2>1. Revises(q, o, o.method, o.address, o.stage)
    BY <1>1, <1>3, OrderExcept
  <2>5. q.asked
    BY <1>1, <1>3 DEF Built, IsOrder
  <2> HIDE DEF o, q
  <2>2. /\ Built(q) /\ EscrowHours(q) = EscrowHours(o) /\ q.coin = o.coin
        /\ q.method = o.method /\ q.address = o.address /\ q.stage = o.stage
    BY <1>3, <2>1, RevisedOrder
  <2>3. Addressed(o, n, addresses')
    BY <1>2, <1>3, AddressedStays
  <2>4. Addressed(q, n, addresses')
    BY <2>2, <2>3 DEF Addressed
  <2> QED BY <2>2, <2>4, <2>5 DEF q, o
<1>5. \A m \in DOMAIN orders : m # n => orders'[m] = orders[m]
  BY <1>1
<1>6. orders' = [m \in DOMAIN orders |-> orders'[m]]
  BY <1>1, OrdersTyped
<1>7. \A m \in DOMAIN orders : Built(orders'[m]) /\ Addressed(orders'[m], m, addresses')
  BY <1>2, <1>4, <1>5, AddressedStays DEF Inv
<1>8. addresses' <= Cardinality(Asked')
  <2>1. Asked' = Asked \cup {n} /\ n \notin Asked
    BY <1>1, <1>4, <1>5, <1>6 DEF Asked
  <2>2. Cardinality(Asked') = Cardinality(Asked) + 1
    BY <2>1, OrdersTyped, FS_AddElement
  <2> QED BY <1>1, <1>2, <2>2, OrdersTyped DEF Inv
<1>9. answers' \subseteq [coin : VendorCoins, id : 1..addresses']
  BY <1>1, <1>2 DEF Inv
<1>10. Unused'
  <2>1. \A a \in answers : a.id \in 1..addresses
    BY DEF Inv
  <2>2. \A a, b \in answers' : a.id = b.id => a = b
    BY <1>1, <1>2, <2>1 DEF Inv, Unused
  <2>3. \A m \in DOMAIN orders : orders'[m].address = orders[m].address
    BY <1>4, <1>5
  <2>4. \A m \in DOMAIN orders : orders[m].address # DirectAddress(addresses + 1)
    <3> SUFFICES ASSUME NEW m \in DOMAIN orders, orders[m].address = DirectAddress(addresses + 1)
                 PROVE  FALSE
      OBVIOUS
    <3>1. Addressed(orders[m], m, addresses)
      BY DEF Inv
    <3>2. PICK id \in 1..addresses : orders[m].address = DirectAddress(id)
      BY <3>1, Addresses DEF Addressed
    <3>3. id = addresses + 1
      BY <3>2, Addresses
    <3> QED BY <1>2, <3>3
  <2>5. \A a \in answers' : \A m \in DOMAIN orders : orders'[m].address # DirectAddress(a.id)
    BY <1>1, <2>3, <2>4 DEF Inv, Unused
  <2> QED BY <1>6, <2>2, <2>5 DEF Unused
<1> QED BY <1>1, <1>2, <1>6, <1>7, <1>8, <1>9, <1>10, OrdersRevised

\* A step that changes one order, which was answered already or is not answered now.
LEMMA OneOrderKeeps ==
  ASSUME Inv, NEW n \in DOMAIN orders, NEW q, NEW method, NEW address, NEW stage,
         UNCHANGED <<now, changes, forSale, published, addresses, answers>>,
         orders' = [orders EXCEPT ![n] = q],
         Revises(q, orders[n], method, address, stage), q.asked = orders[n].asked,
         Addressed(q, n, addresses),
         \A id : address = DirectAddress(id) => address = orders[n].address
  PROVE  Inv'
<1>1. Built(orders[n]) /\ addresses \in Nat
  BY DEF Inv
<1>2. Built(q) /\ q.address = address
  BY <1>1, RevisedOrder
<1>3. orders'[n] = q /\ \A m \in DOMAIN orders : m # n => orders'[m] = orders[m]
  OBVIOUS
<1>4. orders' = [m \in DOMAIN orders |-> orders'[m]]
  BY OrdersTyped
<1>5. \A m \in DOMAIN orders : Built(orders'[m]) /\ Addressed(orders'[m], m, addresses')
  BY <1>2, <1>3 DEF Inv
<1>6. Asked' = Asked
  BY <1>3, <1>4 DEF Asked
<1>7. Unused'
  BY <1>2, <1>3, <1>4 DEF Inv, Unused
<1> QED BY <1>1, <1>4, <1>5, <1>6, <1>7, OrdersRevised DEF Inv

LEMMA ProcessOrderOpenKeeps ==
  ASSUME Inv, NEW n \in DOMAIN orders, ProcessOrderOpen(n)
  PROVE  Inv'
<1> DEFINE o == orders[n]
           stage == IF ValidOrderOpen(n) THEN "open" ELSE "rejected"
           q == [o EXCEPT !.stage = stage]
<1>1. /\ orders' = [orders EXCEPT ![n] = q] /\ o.stage = "sent"
      /\ UNCHANGED <<now, changes, forSale, published, addresses, answers>>
  BY DEF ProcessOrderOpen
<1>2. Built(o) /\ Addressed(o, n, addresses) /\ stage \in {"open", "rejected"}
  BY DEF Inv
<1>3. Revises(q, o, o.method, o.address, stage) /\ q.asked = o.asked
  <2>1. q.asked = o.asked
    BY <1>2 DEF Built, IsOrder
  <2> HIDE DEF o, stage
  <2> QED BY <1>2, <2>1, OrderExcept
<1> HIDE DEF stage, q
<1>4. Addressed(q, n, addresses)
  <2> HIDE DEF o
  <2>1. /\ EscrowHours(q) = EscrowHours(o) /\ q.coin = o.coin
        /\ q.method = o.method /\ q.address = o.address /\ q.stage = stage
    BY <1>2, <1>3, RevisedOrder
  <2>2. o.stage = "sent"
    BY <1>1
  <2> QED BY <1>2, <2>1, <2>2 DEF Addressed
<1> QED BY <1>1, <1>3, <1>4, OneOrderKeeps

LEMMA GiveUpKeeps ==
  ASSUME Inv, NEW n \in DOMAIN orders, GiveUp(n)
  PROVE  Inv'
<1> DEFINE o == orders[n]
           escrow == [o EXCEPT !.stage = "sent", !.method = "CANCELABLE",
                               !.address = EscrowAddress(n, "1of2", 0)]
           failed == [o EXCEPT !.stage = "failed"]
<1>1. /\ orders' = [orders EXCEPT ![n] = IF o.coin \in EscrowCoins THEN escrow ELSE failed]
      /\ o.stage = "asks"
      /\ UNCHANGED <<now, changes, forSale, published, addresses, answers>>
  BY DEF GiveUp
<1>2. Built(o) /\ Addressed(o, n, addresses)
  BY DEF Inv
<1>3. o.method = "DIRECT" /\ o.address = NoAddress
  <2> HIDE DEF o
  <2> QED BY <1>1, <1>2 DEF Addressed
<1>4. CASE o.coin \in EscrowCoins
  <2> DEFINE address == EscrowAddress(n, "1of2", 0)
  <2>1. Revises(escrow, o, "CANCELABLE", address, "sent") /\ escrow.asked = o.asked
    <3>1. escrow.asked = o.asked
      BY <1>2 DEF Built, IsOrder
    <3> HIDE DEF o, address
    <3> QED BY <1>2, <3>1, OrderExcept DEF address
  <2> HIDE DEF escrow
  <2>2. Addressed(escrow, n, addresses)
    <3> HIDE DEF o, address
    <3>1. /\ escrow.coin = o.coin /\ escrow.method = "CANCELABLE"
          /\ escrow.address = address /\ escrow.stage = "sent"
      BY <1>2, <2>1, RevisedOrder
    <3> QED BY <1>4, <3>1 DEF Addressed, address
  <2>3. \A id : address # DirectAddress(id)
    BY Addresses
  <2>4. orders' = [orders EXCEPT ![n] = escrow]
    BY <1>1, <1>4
  <2> HIDE DEF address
  <2> QED BY <1>1, <2>1, <2>2, <2>3, <2>4, OneOrderKeeps
<1>5. CASE o.coin \notin EscrowCoins
  <2>1. Revises(failed, o, o.method, o.address, "failed") /\ failed.asked = o.asked
    <3>1. failed.asked = o.asked
      BY <1>2 DEF Built, IsOrder
    <3> HIDE DEF o
    <3> QED BY <1>2, <3>1, OrderExcept
  <2> HIDE DEF failed
  <2>2. Addressed(failed, n, addresses)
    <3> HIDE DEF o
    <3>1. failed.method = o.method /\ failed.address = o.address /\ failed.stage = "failed"
      BY <1>2, <2>1, RevisedOrder
    <3> QED BY <1>3, <3>1 DEF Addressed
  <2>3. orders' = [orders EXCEPT ![n] = failed]
    BY <1>1, <1>5
  <2> QED BY <1>1, <2>1, <2>2, <2>3, OneOrderKeeps
<1> QED BY <1>4, <1>5

LEMMA HearAddressKeeps ==
  ASSUME Inv, NEW a, HearAddress(a)
  PROVE  Inv'
<1> DEFINE heard(o) == [o EXCEPT !.stage = "sent", !.address = DirectAddress(a.id)]
<1>1. /\ a \in answers /\ answers' = answers \ {a}
      /\ orders' = [n \in DOMAIN orders |->
                      IF Takes(orders[n], a) THEN heard(orders[n]) ELSE orders[n]]
      /\ UNCHANGED <<now, changes, forSale, published, addresses>>
  BY DEF HearAddress
<1>2. addresses \in Nat /\ a.id \in 1..addresses
  BY <1>1 DEF Inv
<1>3. ASSUME NEW n \in DOMAIN orders, Takes(orders[n], a)
      PROVE  /\ Built(orders'[n]) /\ Addressed(orders'[n], n, addresses)
             /\ orders'[n].address = DirectAddress(a.id) /\ orders'[n].asked = orders[n].asked
  <2> DEFINE o == orders[n]
             q == orders'[n]
  <2>1. q = heard(o)
    BY <1>1, <1>3
  <2>2. Built(o) /\ Addressed(o, n, addresses) /\ o.stage = "asks"
    BY <1>3 DEF Inv, Takes
  <2>3. q.asked = o.asked
    BY <2>1, <2>2 DEF Built, IsOrder
  <2> HIDE DEF o, q
  <2>4. Revises(q, o, o.method, DirectAddress(a.id), "sent")
    BY <2>1, <2>2, OrderExcept
  <2>5. o.method = "DIRECT"
    BY <2>2 DEF Addressed
  <2>6. /\ Built(q) /\ q.method = o.method /\ q.address = DirectAddress(a.id) /\ q.stage = "sent"
    BY <2>2, <2>4, RevisedOrder
  <2>7. Addressed(q, n, addresses)
    BY <1>2, <2>5, <2>6 DEF Addressed
  <2> QED BY <2>3, <2>6, <2>7 DEF o, q
<1>4. \A n \in DOMAIN orders : ~Takes(orders[n], a) => orders'[n] = orders[n]
  BY <1>1
<1>5. orders' = [n \in DOMAIN orders |-> orders'[n]]
  BY <1>1
<1>6. \A n \in DOMAIN orders : Built(orders'[n]) /\ Addressed(orders'[n], n, addresses')
  BY <1>1, <1>3, <1>4 DEF Inv
<1>7. Asked' = Asked
  BY <1>3, <1>4, <1>5 DEF Asked
<1>8. Unused'
  <2>1. \A b, c \in answers' : b.id = c.id => b = c
    BY <1>1 DEF Inv, Unused
  <2>2. ASSUME NEW b \in answers', NEW n \in DOMAIN orders, orders'[n].address = DirectAddress(b.id)
        PROVE  FALSE
    <3>1. b \in answers /\ b # a
      BY <1>1
    <3>2. orders[n].address # DirectAddress(b.id) /\ a.id # b.id
      BY <1>1, <3>1 DEF Inv, Unused
    <3> QED BY <1>3, <1>4, <2>2, <3>2, Addresses
  <2> QED BY <1>5, <2>1, <2>2 DEF Unused
<1> QED BY <1>1, <1>2, <1>5, <1>6, <1>7, <1>8, OrdersRevised DEF Inv

LEMMA CreateOrderKeeps ==
  ASSUME Inv, NEW p \in Purchases, CreateOrder(p)
  PROVE  Inv'
<1> DEFINE o == [items |-> OrderItems(p), country |-> p.country, coin |-> p.coin]
           address == IF p.moderated THEN EscrowAddress(Len(orders) + 1, "2of3", EscrowHours(o))
                      ELSE NoAddress
           stage == IF p.moderated THEN "sent" ELSE "asks"
           amount == OrderTotal(o)
           q == [items |-> o.items, country |-> o.country, coin |-> o.coin, purchase |-> p,
                 amount |-> amount, method |-> IF p.moderated THEN "MODERATED" ELSE "DIRECT",
                 address |-> address, stage |-> stage, asked |-> p.moderated]
           k == Len(orders)
<1>1. /\ k < MaxOrders /\ CanPurchase(p) /\ CanTotal(o) /\ amount > 0
      /\ orders' = Append(orders, q)
      /\ UNCHANGED <<now, changes, forSale, published, addresses, answers>>
  BY DEF CreateOrder
<1>2. p.country \in STRING /\ p.moderated \in BOOLEAN
  BY DataAssumption DEF IsPurchase
<1>3. /\ IsOrder(q) /\ q.items = OrderItems(p) /\ q.country = p.country /\ q.coin = p.coin
      /\ q.purchase = p /\ q.method = IF p.moderated THEN "MODERATED" ELSE "DIRECT"
      /\ q.amount = amount /\ q.address = address /\ q.stage = stage /\ q.asked = p.moderated
  <2> HIDE DEF amount, address, stage
  <2> QED BY DEF IsOrder
<1>4. EscrowHours(q) = EscrowHours(o)
  <2> HIDE DEF q
  <2> QED BY <1>3 DEF EscrowHours
<1>5. \A i \in DOMAIN OrderItems(p) : IsChosen(OrderItems(p)[i])
  <2> SUFFICES ASSUME NEW i \in DOMAIN OrderItems(p)
               PROVE  IsChosen(OrderItems(p)[i])
    OBVIOUS
  <2> DEFINE item == OrderItems(p)[i]
  <2>1. item.quantity > 0 /\ Offers(item.listing, item) # {}
    BY <1>1 DEF CanTotal
  <2>2. i \in DOMAIN p.items /\ item.listing = p.items[i].listing
    <3>1. DOMAIN OrderItems(p) = DOMAIN p.items /\ p.items \in Seq(PurchaseItem)
      BY ItemsOf
    <3> DEFINE s == FlattenSeq([m \in 1..i |-> p.items[m].options])
    <3>2. item = [p.items[i] EXCEPT !.options = s]
      BY <3>1 DEF OrderItems
    <3>3. p.items[i] \in PurchaseItem
      BY <3>1
    <3> HIDE DEF s, item
    <3> QED BY <3>1, <3>2, <3>3 DEF PurchaseItem
  <2>3. ValidOptions(p.items[i].listing) /\ p.items[i].listing.type # "CLASSIFIED"
    BY <1>1, <2>2 DEF CanPurchase, ValidListing
  <2> QED BY <2>1, <2>2, <2>3 DEF IsChosen
<1>6. Built(q)
  <2>1. OrderItems(p) # <<>> /\ p.coin \in Coins
    BY <1>1, ItemsOf DEF CanPurchase
  <2> HIDE DEF q, amount
  <2> QED BY <1>1, <1>2, <1>3, <1>5, <2>1 DEF Built
<1>7. Addressed(q, k + 1, addresses)
  <2>1. p.moderated => p.coin \in EscrowCoins
    BY <1>1 DEF CanPurchase
  <2> HIDE DEF q, o
  <2> QED BY <1>2, <1>3, <1>4, <2>1 DEF Addressed
<1>8. \A id : q.address # DirectAddress(id)
  <2> HIDE DEF q, o
  <2> QED BY <1>3, Addresses
<1> HIDE DEF q, o, amount, address, stage
<1>9. /\ orders' \in Seq(Range(orders')) /\ Len(orders') = k + 1
      /\ orders'[k + 1] = q /\ \A n \in 1..k : orders'[n] = orders[n]
  <2>1. orders \in Seq(Range(orders))
    BY DEF Inv
  <2> QED BY <1>1, <2>1, AppendOrder
<1>10. DOMAIN orders = 1..k /\ DOMAIN orders' = 1..(k + 1) /\ k \in Nat
  BY <1>9, OrdersTyped
<1>11. \A n \in DOMAIN orders' : n \in DOMAIN orders \/ n = k + 1
  BY <1>10
<1>12. \A n \in DOMAIN orders' : Built(orders'[n]) /\ Addressed(orders'[n], n, addresses')
  BY <1>1, <1>6, <1>7, <1>9, <1>10, <1>11 DEF Inv
<1>13. addresses' <= Cardinality(Asked')
  <2>1. Asked \subseteq Asked'
    BY <1>9, <1>10 DEF Asked
  <2>2. IsFiniteSet(1..(k + 1)) /\ Asked' \subseteq 1..(k + 1)
    <3>1. 1 \in Int /\ k + 1 \in Int
      BY <1>10
    <3> QED BY <1>10, <3>1, FS_Interval DEF Asked
  <2>3. IsFiniteSet(Asked')
    BY <2>2, FS_Subset
  <2>4. Cardinality(Asked) <= Cardinality(Asked') /\ Cardinality(Asked') \in Nat
    BY <2>1, <2>3, FS_Subset, FS_CardinalityType
  <2> QED BY <1>1, <2>4, OrdersTyped DEF Inv
<1>14. Unused'
  BY <1>1, <1>8, <1>9, <1>10, <1>11 DEF Inv, Unused
<1>15. Len(orders') <= MaxOrders
  BY <1>1, <1>9, <1>10, BoundsAssumption
<1> QED BY <1>1, <1>9, <1>12, <1>13, <1>14, <1>15 DEF Inv

LEMMA InvInit == Init => Inv
<1> SUFFICES ASSUME Init
             PROVE  Inv
  OBVIOUS
<1>1. orders = <<>> /\ Len(orders) = 0 /\ DOMAIN orders = {} /\ orders = [n \in 1..0 |-> orders[n]]
  BY DEF Init
<1>2. orders \in Seq(Range(orders))
  BY <1>1, ListOfOrders
<1>3. Asked = {} /\ Cardinality(Asked) = 0
  BY <1>1, FS_EmptySet DEF Asked
<1> QED BY <1>1, <1>2, <1>3, BoundsAssumption DEF Init, Inv, Unused

LEMMA InvNext == Inv /\ [Next]_vars => Inv'
<1> SUFFICES ASSUME Inv, [Next]_vars
             PROVE  Inv'
  OBVIOUS
<1>1. ASSUME NEW l \in Drafts, SaveListing(l)
      PROVE  Inv'
  <2>1. l.slug \in Slug /\ forSale' = [forSale EXCEPT ![l.slug] = l]
    BY <1>1 DEF SaveListing, Slug
  <2>2. forSale' \in [Slug -> Drafts \cup {None}]
    BY <2>1 DEF Inv
  <2>3. changes' \in 0..MaxChanges /\ published' \subseteq Drafts
    BY <1>1, BoundsAssumption DEF SaveListing, Inv
  <2> QED BY <1>1, <2>2, <2>3, OrdersUntouched DEF SaveListing, Inv
<1>2. ASSUME NEW s \in Slug, DeleteListing(s)
      PROVE  Inv'
  <2>1. forSale' \in [Slug -> Drafts \cup {None}]
    BY <1>2 DEF DeleteListing, Inv
  <2>2. changes' \in 0..MaxChanges
    BY <1>2, BoundsAssumption DEF DeleteListing, Inv
  <2> QED BY <1>2, <2>1, <2>2, OrdersUntouched DEF DeleteListing, Inv
<1>3. CASE Tick
  <2>1. now' \in 0..MaxTime
    BY <1>3, BoundsAssumption DEF Tick, Inv
  <2> QED BY <1>3, <2>1, OrdersUntouched DEF Tick, Inv
<1>4. CASE UNCHANGED vars
  BY <1>4, OrdersUntouched DEF vars, Inv
<1> QED
  BY <1>1, <1>2, <1>3, <1>4, CreateOrderKeeps, GiveAddressKeeps, GiveUpKeeps,
     ProcessOrderOpenKeeps, HearAddressKeeps
  DEF Next

LEMMA Invariance == Spec => []Inv
BY InvInit, InvNext, PTL DEF Spec

\* Every variable keeps its type: a purchase under way has a method, an address of
\* that method, and a timeout that is a number of hours, and the wallet gives out at
\* most one address a purchase (createOrder, RequestAddress, validateOrderOpen).
THEOREM TypeCorrect == Spec => []TypeOK
BY Invariance, InvTypeOK, PTL

-----------------------------------------------------------------------------
(* An address is given to one purchase, but for those that wait together *)

\* A purchase that waits for an address only gets one from an answer.
LEMMA HeardOnly ==
  ASSUME Inv, [Next]_vars, NEW n \in DOMAIN orders, orders[n].stage = "asks",
         orders'[n].address.kind = "direct"
  PROVE  \E a \in answers : orders'[n].address = DirectAddress(a.id)
<1>1. orders[n].address.kind # "direct"
  <2>1. Addressed(orders[n], n, addresses)
    BY DEF Inv
  <2>2. orders[n].address = NoAddress
    BY <2>1 DEF Addressed
  <2> QED BY <2>2 DEF NoAddress
<1>2. orders'[n] # orders[n]
  BY <1>1
<1>3. ASSUME NEW p \in Purchases, CreateOrder(p)
      PROVE  FALSE
  <2>1. PICK q : orders' = Append(orders, q)
    BY <1>3 DEF CreateOrder
  <2>2. orders \in Seq(Range(orders))
    BY DEF Inv
  <2>3. orders'[n] = orders[n]
    BY <2>1, <2>2, OrdersTyped, AppendOrder
  <2> QED BY <1>2, <2>3
<1>4. ASSUME NEW m \in DOMAIN orders, GiveAddress(m)
      PROVE  FALSE
  <2>1. orders' = [orders EXCEPT ![m] = [orders[m] EXCEPT !.asked = TRUE]]
    BY <1>4 DEF GiveAddress
  <2>2. Built(orders[n])
    BY DEF Inv
  <2>3. orders'[n].address = orders[n].address
    BY <2>1, <2>2 DEF Built, IsOrder
  <2> QED BY <1>1, <2>3
<1>5. ASSUME NEW m \in DOMAIN orders, GiveUp(m)
      PROVE  FALSE
  <2> DEFINE o == orders[m]
             escrow == [o EXCEPT !.stage = "sent", !.method = "CANCELABLE",
                                 !.address = EscrowAddress(m, "1of2", 0)]
             failed == [o EXCEPT !.stage = "failed"]
  <2>1. orders' = [orders EXCEPT ![m] = IF o.coin \in EscrowCoins THEN escrow ELSE failed]
    BY <1>5 DEF GiveUp
  <2>2. Built(o)
    BY DEF Inv
  <2>3. escrow.address = EscrowAddress(m, "1of2", 0) /\ failed.address = o.address
    BY <2>2 DEF Built, IsOrder
  <2>4. escrow.address.kind # "direct"
    BY <2>3 DEF EscrowAddress
  <2>5. n = m
    BY <1>2, <2>1
  <2> HIDE DEF escrow, failed
  <2>6. orders'[n] = escrow \/ orders'[n] = failed
    BY <2>1, <2>5
  <2> QED BY <1>1, <2>3, <2>4, <2>5, <2>6
<1>6. ASSUME NEW m \in DOMAIN orders, ProcessOrderOpen(m)
      PROVE  FALSE
  <2>1. PICK q : orders' = [orders EXCEPT ![m] = q]
    BY <1>6 DEF ProcessOrderOpen
  <2>2. n # m
    BY <1>6 DEF ProcessOrderOpen
  <2> QED BY <1>2, <2>1, <2>2
<1>7. ASSUME NEW a \in answers, HearAddress(a)
      PROVE  orders'[n].address = DirectAddress(a.id)
  <2> DEFINE heard(o) == [o EXCEPT !.stage = "sent", !.address = DirectAddress(a.id)]
  <2>1. orders' = [m \in DOMAIN orders |->
                     IF Takes(orders[m], a) THEN heard(orders[m]) ELSE orders[m]]
    BY <1>7 DEF HearAddress
  <2>2. Built(orders[n])
    BY DEF Inv
  <2>3. heard(orders[n]).address = DirectAddress(a.id)
    BY <2>2 DEF Built, IsOrder
  <2> HIDE DEF heard
  <2>4. orders'[n] = heard(orders[n])
    BY <1>2, <2>1
  <2> QED BY <2>3, <2>4
<1> QED
  BY <1>2, <1>3, <1>4, <1>5, <1>6, <1>7
  DEF Next, vars, SaveListing, DeleteListing, Tick

\* An address that an order has is not given to another later, whichever answers come
\* late, are lost or are heard by several purchases (handleAddressResponse).
THEOREM AddressesAreFresh == Spec => FreshAddress
<1>1. ASSUME Inv, [Next]_vars, NEW m \in DOMAIN orders, NEW n \in DOMAIN orders,
             orders[n].stage = "asks", orders'[n].address.kind = "direct"
      PROVE  orders[m].address # orders'[n].address
  <2>1. PICK a \in answers : orders'[n].address = DirectAddress(a.id)
    BY <1>1, HeardOnly
  <2> QED BY <1>1, <2>1 DEF Inv, Unused
<1>2. Inv /\ [Next]_vars =>
        [\A m, n \in DOMAIN orders :
           orders[n].stage = "asks" /\ orders'[n].address.kind = "direct" =>
             orders[m].address # orders'[n].address]_vars
  BY <1>1
<1> QED BY <1>2, Invariance, PTL DEF Spec, FreshAddress

-----------------------------------------------------------------------------
(* What createOrder makes, validateOrderOpen accepts *)

\* Only the vendor's validation rejects an order.
LEMMA RejectedByVendor ==
  ASSUME Inv, [Next]_vars, NEW n \in DOMAIN orders, orders[n].stage = "sent",
         orders'[n].stage = "rejected"
  PROVE  ~ValidOrderOpen(n)
<1>1. orders'[n] # orders[n]
  OBVIOUS
<1>2. Built(orders[n])
  BY DEF Inv
<1>3. ASSUME NEW p \in Purchases, CreateOrder(p)
      PROVE  FALSE
  <2>1. PICK q : orders' = Append(orders, q)
    BY <1>3 DEF CreateOrder
  <2>2. orders \in Seq(Range(orders))
    BY DEF Inv
  <2>3. orders'[n] = orders[n]
    BY <2>1, <2>2, OrdersTyped, AppendOrder
  <2> QED BY <1>1, <2>3
<1>4. ASSUME NEW m \in DOMAIN orders, GiveAddress(m)
      PROVE  FALSE
  <2>1. orders' = [orders EXCEPT ![m] = [orders[m] EXCEPT !.asked = TRUE]]
    BY <1>4 DEF GiveAddress
  <2>2. orders'[n].stage = orders[n].stage
    BY <1>2, <2>1 DEF Built, IsOrder
  <2> QED BY <2>2
<1>5. ASSUME NEW m \in DOMAIN orders, GiveUp(m)
      PROVE  FALSE
  <2>1. PICK q : orders' = [orders EXCEPT ![m] = q]
    BY <1>5 DEF GiveUp
  <2>2. n # m
    BY <1>5 DEF GiveUp
  <2> QED BY <1>1, <2>1, <2>2
<1>6. ASSUME NEW m \in DOMAIN orders, ProcessOrderOpen(m)
      PROVE  ~ValidOrderOpen(n)
  <2> DEFINE stage == IF ValidOrderOpen(m) THEN "open" ELSE "rejected"
             q == [orders[m] EXCEPT !.stage = stage]
  <2>1. orders' = [orders EXCEPT ![m] = q]
    BY <1>6 DEF ProcessOrderOpen
  <2>2. n = m
    <3> HIDE DEF q
    <3> QED BY <1>1, <2>1
  <2>3. q.stage = stage
    <3> HIDE DEF stage
    <3> QED BY <1>2, <2>2 DEF Built, IsOrder
  <2>4. orders'[n] = q
    <3> HIDE DEF q
    <3> QED BY <2>1, <2>2
  <2>5. stage = "rejected"
    <3> HIDE DEF q, stage
    <3> QED BY <2>3, <2>4
  <2> QED BY <2>2, <2>5
<1>7. ASSUME NEW a \in answers, HearAddress(a)
      PROVE  FALSE
  <2>1. orders'[n] = orders[n]
    BY <1>7 DEF HearAddress, Takes
  <2> QED BY <1>1, <2>1
<1> QED
  BY <1>1, <1>3, <1>4, <1>5, <1>6, <1>7
  DEF Next, vars, SaveListing, DeleteListing, Tick

LEMMA Accepted ==
  ASSUME Inv, NEW n \in DOMAIN orders, orders[n].stage = "sent",
         orders[n].coin \in VendorCoins, ForSale(orders[n]),
         Fits(orders[n].purchase), ~OptionsPileUp(orders[n].purchase)
  PROVE  ValidOrderOpen(n)
<1> DEFINE o == orders[n]
           p == o.purchase
<1>1. Built(o) /\ Addressed(o, n, addresses)
  BY DEF Inv
<1>2. o.stage = "sent" /\ HasWallet(o) /\ ForSale(o) /\ Fits(p) /\ ~OptionsPileUp(p)
  BY DEF HasWallet
<1> HIDE DEF o
<1>3. o.items = p.items
  BY <1>1, <1>2, ItemsOf DEF Built
<1>4. HasKey(o)
  <2> SUFFICES ASSUME o.method = "DIRECT"
               PROVE  o.address.kind = "direct" /\ o.address.id <= addresses
    BY DEF HasKey
  <2>1. PICK id \in 1..addresses : o.address = DirectAddress(id)
    BY <1>1, <1>2 DEF Addressed
  <2>2. o.address.kind = "direct" /\ o.address.id = id
    BY <2>1, Addresses
  <2> QED BY <2>2 DEF Inv
<1>5. ValidItems(o)
  <2> SUFFICES ASSUME NEW i \in DOMAIN o.items
               PROVE  LET item == o.items[i]
                          l    == item.listing
                      IN  /\ l.type = "CRYPTOCURRENCY" => item.payTo
                          /\ item.quantity > 0 /\ l.type # "CLASSIFIED"
                          /\ ValidOrderOptions(l, item) /\ ValidOrderShipping(l, item)
    BY DEF ValidItems
  <2> DEFINE item == o.items[i]
             l == item.listing
             names == {item.options[k].name : k \in DOMAIN item.options}
  <2>1. IsChosen(item)
    BY <1>1 DEF Built
  <2>2. /\ names = DOMAIN l.options
        /\ Len(item.options) = Cardinality(DOMAIN l.options)
        /\ ValidOrderShipping(l, item)
        /\ l.type = "CRYPTOCURRENCY" => item.payTo
    BY <1>2, <1>3 DEF Fits
  <2>3. DOMAIN Chosen(item.options) = names
    BY DEF Chosen
  <2> HIDE DEF item, names
  <2>4. ASSUME NEW name \in DOMAIN l.options
        PROVE  Chosen(item.options)[name] \in l.options[name]
    <3>1. PICK sel \in DOMAIN l.skus : \A x \in DOMAIN sel : sel[x] = Chosen(item.options)[x]
      BY <2>1, <2>4 DEF IsChosen, Offers
    <3>2. sel \in Selections(l)
      BY <2>1 DEF IsChosen, ValidOptions
    <3>3. DOMAIN sel = DOMAIN l.options /\ sel[name] \in l.options[name]
      BY <3>2 DEF Selections
    <3> QED BY <3>1, <3>3
  <2>5. ValidOrderOptions(l, item)
    BY <2>2, <2>3, <2>4 DEF ValidOrderOptions
  <2> QED BY <2>1, <2>2, <2>5 DEF IsChosen, item
<1>6. ValidPayment(o, n)
  <2>1. (IF o.coin \in TimeoutCoins
         THEN Max({o.items[i].listing.hours : i \in DOMAIN o.items}) ELSE 0) = EscrowHours(o)
    BY DEF EscrowHours
  <2>2. CASE o.method = "MODERATED"
    BY <1>1, <2>1, <2>2 DEF Addressed, ValidPayment
  <2>3. CASE o.method = "CANCELABLE"
    BY <1>1, <2>3 DEF Addressed, ValidPayment
  <2>4. CASE o.method = "DIRECT"
    BY <2>4 DEF ValidPayment
  <2> QED BY <1>1, <2>2, <2>3, <2>4 DEF Addressed
<1> QED BY <1>2, <1>4, <1>5, <1>6 DEF ValidOrderOpen, o

\* An order that was asked for as the listings allow is only rejected when they changed
\* or the vendor has no wallet for its coin: what createOrder builds, with the method and address it ends up with, is what
\* validateOrderOpen accepts.
THEOREM RejectionsHaveReasons == Spec => RejectedForAReason
<1> DEFINE Reason(n) ==
      \/ orders[n].coin \notin VendorCoins
      \/ ~\A i \in DOMAIN orders[n].items :
            forSale[orders[n].items[i].listing.slug] = orders[n].items[i].listing
      \/ ~Fits(orders[n].purchase) \/ OptionsPileUp(orders[n].purchase)
<1>1. ASSUME Inv, [Next]_vars, NEW n \in DOMAIN orders,
             orders[n].stage = "sent", orders'[n].stage = "rejected"
      PROVE  Reason(n)
  BY <1>1, RejectedByVendor, Accepted DEF ForSale
<1>2. Inv /\ [Next]_vars =>
        [\A n \in DOMAIN orders :
           orders[n].stage = "sent" /\ orders'[n].stage = "rejected" => Reason(n)]_vars
  BY <1>1
<1> QED BY <1>2, Invariance, PTL DEF Spec, RejectedForAReason
=============================================================================
