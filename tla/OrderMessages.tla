--------------------------- MODULE OrderMessages ---------------------------
(***************************************************************************)
(* The data of one order: the messages its two parties exchange, the       *)
(* wallet transactions that concern its payment address, and the record    *)
(* each party keeps of it (models.Order).                                  *)
(*                                                                         *)
(* A message keeps what the handlers tell apart: its type, its signer, a   *)
(* serial number n that stands for the rest of its content (timestamps,    *)
(* ratings, notes), a number k (item index, refunded amount, fulfillment a *)
(* completion pays to) and the payments it releases or announces.          *)
(***************************************************************************)
EXTENDS Integers, FiniteSets

CONSTANTS Payments,  \* payments the buyer may make to the payment address
          Price,     \* how many of them the order asks for
          Items      \* indexes of the ordered items

ASSUME OrderAssumption ==
  /\ IsFiniteSet(Payments)
  /\ Price \in Nat
  /\ Items \subseteq Nat \ {0}

Node == {"buyer", "vendor"}

PaymentMethod == {"DIRECT", "CANCELABLE", "MODERATED"}

\* npb.OrderMessage_MessageType, in the order of its numbers. The three types
\* no handler accepts (DISPUTE_CLOSE, PAYMENT_FINALIZED and an incoming
\* DISPUTE_UPDATE) are never produced between the two parties.
TypeOrder ==
  << "ORDER_OPEN", "ORDER_REJECT", "ORDER_CANCEL", "ORDER_CONFIRMATION",
     "RATING_SIGNATURES", "ORDER_FULFILLMENT", "ORDER_COMPLETE",
     "DISPUTE_OPEN", "DISPUTE_UPDATE", "REFUND", "PAYMENT_SENT" >>

MessageType ==
  {"ORDER_OPEN", "ORDER_REJECT", "ORDER_CANCEL", "ORDER_CONFIRMATION",
   "RATING_SIGNATURES", "ORDER_FULFILLMENT", "ORDER_COMPLETE",
   "DISPUTE_OPEN", "DISPUTE_UPDATE", "REFUND", "PAYMENT_SENT"}

Rank(type) == CHOOSE i \in 1..11 : TypeOrder[i] = type

Message == [type: MessageType, by: Node, n: Nat, k: Nat, from: SUBSET Payments]

\* A transaction the wallets may see: a payment into the payment address, or
\* one that a message names and that spends the outputs "from" of that address.
PaymentTx(p) == [kind |-> "pay", n |-> 0, k |-> 0, from |-> {p}]

SpendType == {"ORDER_CONFIRMATION", "ORDER_CANCEL", "REFUND", "ORDER_COMPLETE"}

Tx == {PaymentTx(p) : p \in Payments}
        \cup [kind: SpendType, n: Nat, k: Nat, from: SUBSET Payments]

\* The transaction whose ID (or signatures) the message m carries.
TxOf(m) == [kind |-> m.type, n |-> m.n, k |-> m.k, from |-> m.from]

Spends(txs) == UNION {t.from : t \in {u \in txs : u.kind # "pay"}}
Paid(txs) == UNION {t.from : t \in {u \in txs : u.kind = "pay"}}

\* The outputs a new release would spend: those of the transactions the order
\* knows, less those a transaction it knows spends already.
Unspent(txs) == Paid(txs) \ Spends(txs)

-----------------------------------------------------------------------------
(* The order record *)

\* Copies of a parked message beyond the second change nothing that is modelled.
ParkCap == 2
Parked == Message \X (1..ParkCap)

Order == [open: BOOLEAN,                \* an ORDER_OPEN is stored
          msgs: SUBSET Message,         \* the Serialized... columns
          first: SUBSET Message,        \* the first fulfillment stored, if any
          parked: SUBSET Parked,        \* ParkedMessages
          errored: SUBSET Message,      \* ErroredMessages
          txs: SUBSET Tx]               \* Transactions

NoOrder == [open |-> FALSE, msgs |-> {}, first |-> {}, parked |-> {},
            errored |-> {}, txs |-> {}]

Has(o, type) == \E x \in o.msgs : x.type = type

Refunds(o) == {x \in o.msgs : x.type = "REFUND"}

\* What the messages or transactions s return in all, counted unit by unit.
Units(s) == UNION {{x} \X (1..x.k) : x \in s}
Total(s) == Cardinality(Units(s))

IsFunded(o) == Cardinality(Paid(o.txs)) >= Price

IsFulfilled(o) ==
  \A i \in Items : \E x \in o.msgs : x.type = "ORDER_FULFILLMENT" /\ x.k = i

\* Contract() fails on every order that has parked messages: it reads the
\* protobuf bytes of the column as JSON. Errored messages are only recorded
\* beside parked ones.
CanMarshal(o) == o.parked = {} /\ o.errored = {}

\* The list types refuse a message that repeats one already in the list.
ListType == {"ORDER_FULFILLMENT", "REFUND", "PAYMENT_SENT"}

Repeats(method, x, m) ==
  /\ x.type = m.type
  /\ CASE m.type = "ORDER_FULFILLMENT" -> x.k = m.k
       [] m.type = "REFUND" -> IF method = "DIRECT" THEN x.n = m.n
                                                    ELSE x.from = m.from
       [] OTHER -> x.from = m.from

IsRepeat(method, o, m) ==
  m.type \in ListType /\ \E x \in o.msgs : Repeats(method, x, m)

\* PutMessage, for a message that is not a repeat: a list grows, a column is
\* overwritten.
Put(o, m) ==
  [o EXCEPT !.msgs = {x \in @ : m.type \in ListType \/ x.type # m.type} \cup {m},
            !.open = @ \/ m.type = "ORDER_OPEN",
            !.first = IF m.type = "ORDER_FULFILLMENT" /\ @ = {} THEN {m} ELSE @]

\* Mutant: an early message is forgotten.
ParkNothing(o, m) == o

Park(o, m) ==
  [o EXCEPT !.parked =
     @ \cup {<<m, c>> : c \in {c \in 1..ParkCap : \A d \in 1..(c - 1) : <<m, d>> \in @}}]

PutErrors(o, ms) == [o EXCEPT !.errored = @ \cup ms]
=============================================================================
