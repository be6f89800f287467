------------------------------ MODULE Listing ------------------------------
(***************************************************************************)
(* A listing and what makes it valid (core/listings.go, validateListing).  *)
(* Texts, images and identifiers are one field, tidy: all of them are      *)
(* within their limits and well formed.  A coupon's hash stands for its    *)
(* code.  Percentages are whole numbers.                                   *)
(***************************************************************************)
EXTENDS Integers, FiniteSets, Functions

CONSTANTS PriceModifierMin, PriceModifierMax, ListingVersion, EscrowTimeout

-----------------------------------------------------------------------------
(* What a listing says: it need not be valid *)

ContractType == {"PHYSICAL_GOOD", "DIGITAL_GOOD", "SERVICE", "CLASSIFIED", "CRYPTOCURRENCY"}

Format == {"FIXED_PRICE", "MARKET_PRICE"}

HasMetadata(l) ==
  /\ l.version \in Nat /\ l.type \in ContractType /\ l.format \in Format
  /\ l.expiry \in Nat /\ l.hours \in Nat
  /\ l.accepted \subseteq STRING /\ l.currency \in STRING

\* A sku has a surcharge for the variants it names.
HasItem(l) ==
  /\ l.price \in Nat /\ l.crypto \in STRING /\ l.modifier \in Int
  /\ Range(l.options) \subseteq SUBSET STRING /\ Range(l.skus) \subseteq Int

Tax == [regions : SUBSET STRING, percent : Nat, shipping : BOOLEAN]

\* By the name of the coupon; one of the two is zero.
Coupon == [percent : Nat, off : Nat]

Service == [price : Nat, extra : Nat]

IsShippingOption(s) ==
  s.pickup \in BOOLEAN /\ s.regions \subseteq STRING /\ Range(s.services) \subseteq Service

IsListing(l) ==
  /\ l.slug \in STRING /\ HasMetadata(l) /\ HasItem(l)
  /\ \A name \in DOMAIN l.shipping : IsShippingOption(l.shipping[name])
  /\ Range(l.taxes) \subseteq Tax /\ Range(l.coupons) \subseteq Coupon
  /\ l.tidy \in BOOLEAN /\ l.signed \in BOOLEAN

-----------------------------------------------------------------------------
(* What makes it valid *)

ValidMetadata(l, now) ==
  /\ l.tidy
  /\ l.type \in ContractType /\ l.format \in Format
  /\ l.expiry >= now
  /\ l.hours <= EscrowTimeout
  /\ l.accepted # {}

ValidItem(l) ==
  /\ l.type \notin {"CRYPTOCURRENCY", "CLASSIFIED"} => l.price # 0
  /\ l.type = "CLASSIFIED" => DOMAIN l.shipping = {}

\* The choices of a variant for every option.
Selections(l) == {sel \in [DOMAIN l.options -> UNION {l.options[o] : o \in DOMAIN l.options}] :
                    \A o \in DOMAIN l.options : sel[o] \in l.options[o]}

\* A sku names a variant of each option; there need not be one for each choice.
ValidOptions(l) ==
  /\ \A o \in DOMAIN l.options : Cardinality(l.options[o]) >= 2
  /\ DOMAIN l.skus \subseteq Selections(l)

ValidTaxes(l) ==
  \A i \in DOMAIN l.taxes : l.taxes[i].regions # {} /\ l.taxes[i].percent \in 1..100

ValidCoupons(l) ==
  \A c \in DOMAIN l.coupons :
    /\ l.coupons[c].percent <= 100
    /\ l.coupons[c].off <= l.price

ValidPhysical(l) ==
  /\ DOMAIN l.shipping # {}
  /\ \A s \in DOMAIN l.shipping :
       /\ l.shipping[s].regions # {}
       /\ DOMAIN l.shipping[s].services # {} \/ l.shipping[s].pickup

ValidCryptocurrency(l) ==
  DOMAIN l.coupons = {} /\ DOMAIN l.options = {} /\ DOMAIN l.shipping = {}

ValidMarketPrice(l) == l.price <= 0 /\ l.modifier \in PriceModifierMin..PriceModifierMax

\* The vendor's key, its hash in the identity and the signature over the listing.
ValidVendorID(l) == l.signed

ValidListing(l, now) ==
  /\ ValidMetadata(l, now) /\ ValidItem(l) /\ ValidOptions(l)
  /\ ValidTaxes(l) /\ ValidCoupons(l)
  /\ l.type = "PHYSICAL_GOOD" => ValidPhysical(l)
  /\ l.type = "CRYPTOCURRENCY" => ValidCryptocurrency(l)
  /\ l.format = "MARKET_PRICE" => ValidMarketPrice(l)
  /\ ValidVendorID(l)
=============================================================================
