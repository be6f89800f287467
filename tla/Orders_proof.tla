---------------------------- MODULE Orders_proof ----------------------------
(***************************************************************************)
(* Proofs about Orders, for any number of items, messages and redeliveries *)
(* (and of payments and calls, unless a theorem says otherwise): its type  *)
(* invariant, that the record each node keeps implements OrderRecord, that *)
(* a cancelable order that ends leaves no money behind, nor does an        *)
(* undisputed moderated one, that what a vendor refunds in a direct sale   *)
(* is covered by what it was paid, and that the two records agree when     *)
(* every message has been delivered.                                       *)
(*                                                                         *)
(* And about Disputes, which adds the moderator: the type of the case,     *)
(* that every case has grounds in the record of the party that opened it,  *)
(* that a case keeps the evidence it has, and that the moderator comes to  *)
(* hold the contracts of both parties.                                     *)
(***************************************************************************)
EXTENDS Disputes, FiniteSetTheorems, TLAPS

\* The two instances of OrderRecord define these operators alike.
Types(s) == BuyerRecord!Types(s)
Needs(type) == BuyerRecord!Needs(type)
Bars(type) == BuyerRecord!Bars(type)
Grows(old, new) == BuyerRecord!Grows(old, new)

\* The first fulfillment is there as soon as one is stored, and is one of them.
FirstStored(o) ==
  /\ \A f \in o.first : f \in o.msgs /\ f.type = "ORDER_FULFILLMENT"
  /\ Has(o, "ORDER_FULFILLMENT") => o.first # {}

\* What every handler relies on: the order is typed, its columns agree, and
\* what a stored message needs is stored too.
Sound(o) ==
  /\ o \in Order
  /\ FirstStored(o)
  /\ o.open <=> Has(o, "ORDER_OPEN")
  /\ \A x \in o.msgs : Needs(x.type) \subseteq Types(o.msgs)
  /\ \A x, y \in o.msgs : x.type = y.type => x = y \/ x.type \in ListType

Moves(o, p) == p.msgs = o.msgs \/ Grows(o.msgs, p.msgs)

\* What every handler leaves: a sound order reached by a legal move, messages
\* to send and transactions to broadcast.
Good(o, r) ==
  /\ Sound(r.o) /\ Moves(o, r.o)
  /\ r.send \subseteq Message /\ IsFiniteSet(r.send)
  /\ r.spend \subseteq Tx

-----------------------------------------------------------------------------
(* Lemmas about the operations on an order *)

LEMMA TypesHas ==
  ASSUME NEW o, NEW type
  PROVE type \in Types(o.msgs) <=> Has(o, type)
BY DEF Types, BuyerRecord!Types, Has

LEMMA PutFields ==
  ASSUME NEW o \in Order, NEW m \in Message
  PROVE  /\ Put(o, m) \in Order
         /\ Put(o, m).msgs = {x \in o.msgs : m.type \in ListType \/ x.type # m.type} \cup {m}
         /\ Put(o, m).open <=> o.open \/ m.type = "ORDER_OPEN"
         /\ Put(o, m).txs = o.txs
BY DEF Put, Order

\* Putting a message that is allowed keeps the order sound and is a legal move.
LEMMA PutGood ==
  ASSUME NEW o, Sound(o), NEW m \in Message,
         \A type \in Needs(m.type) : Has(o, type) \/ type = m.type,
         \A type \in Bars(m.type) : ~Has(o, type),
         m.type \in ListType \/ m.type = "RATING_SIGNATURES" \/ ~Has(o, m.type)
  PROVE  /\ Sound(Put(o, m))
         /\ Moves(o, Put(o, m))
         /\ Put(o, m).txs = o.txs
         /\ \A type : Has(Put(o, m), type) <=> Has(o, type) \/ type = m.type
<1> DEFINE p == Put(o, m)
<1>1. /\ p.msgs = {x \in o.msgs : m.type \in ListType \/ x.type # m.type} \cup {m}
      /\ p.open <=> o.open \/ m.type = "ORDER_OPEN"
      /\ p \in Order
      /\ p.txs = o.txs
  BY PutFields DEF Sound
<1>2. \A type : Has(p, type) <=> Has(o, type) \/ type = m.type
  BY <1>1 DEF Has
<1>3. \A x, y \in p.msgs : x.type = y.type => x = y \/ x.type \in ListType
  BY <1>1 DEF Sound
<1>4. \A x \in p.msgs : Needs(x.type) \subseteq Types(p.msgs)
  BY <1>1, <1>2, TypesHas DEF Sound
<1>5. FirstStored(p)
  <2>1. p.first = IF m.type = "ORDER_FULFILLMENT" /\ o.first = {} THEN {m} ELSE o.first
    BY DEF Put, Sound, Order
  <2>2. FirstStored(o)
    BY DEF Sound
  <2>3. \A f \in o.first : f \in p.msgs
    BY <1>1, <2>2 DEF FirstStored, ListType
  <2> QED BY <1>1, <1>2, <2>1, <2>2, <2>3 DEF FirstStored, Has
<1>7. Sound(p)
  BY <1>1, <1>2, <1>3, <1>4, <1>5 DEF Sound
<1>6. Moves(o, p)
  <2>1. \A type \in Bars(m.type) : type # m.type
    BY DEF Bars, BuyerRecord!Bars
  <2>2. \A x \in p.msgs \ o.msgs : x = m
    BY <1>1
  <2>3. Bars(m.type) \cap Types(p.msgs) = {}
    BY <1>2, <2>1, TypesHas
  <2>4. \A x \in o.msgs \ p.msgs : x.type = "RATING_SIGNATURES" /\ m.type = x.type
    BY <1>1 DEF Has
  <2> QED
    BY <1>1, <1>3, <1>4, <2>2, <2>3, <2>4
    DEF Moves, Grows, BuyerRecord!Grows, Needs, Bars, Types, ListType, BuyerRecord!ListType
<1> QED BY <1>1, <1>2, <1>6, <1>7

\* Parking, recording and noting an error leave the messages alone.
LEMMA ParkGood ==
  ASSUME NEW o, Sound(o), NEW m \in Message
  PROVE  Good(o, Done(Park(o, m)))
<1>1. /\ Park(o, m) \in Order /\ Park(o, m).msgs = o.msgs /\ Park(o, m).open = o.open
      /\ Park(o, m).first = o.first
  BY DEF Park, Sound, Order, Parked
<1> QED BY <1>1, FS_EmptySet DEF Sound, FirstStored, Good, Done, Moves, Has

LEMMA TransactionGood ==
  ASSUME NEW o, Sound(o), NEW t \in Tx, NEW p, p = [o EXCEPT !.txs = @ \cup {t}]
  PROVE  Sound(p) /\ p.msgs = o.msgs
<1>1. p \in Order /\ p.msgs = o.msgs /\ p.open = o.open /\ p.first = o.first
  BY DEF Sound, Order
<1> QED BY <1>1 DEF Sound, FirstStored, Has

LEMMA ErrorsGood ==
  ASSUME NEW o, Sound(o), NEW ms \in SUBSET Message
  PROVE  Sound(PutErrors(o, ms)) /\ PutErrors(o, ms).msgs = o.msgs
<1>1. /\ PutErrors(o, ms) \in Order
      /\ PutErrors(o, ms).msgs = o.msgs /\ PutErrors(o, ms).open = o.open
      /\ PutErrors(o, ms).first = o.first
  BY DEF Sound, Order, PutErrors
<1> QED BY <1>1 DEF Sound, FirstStored, Has

LEMMA DoneGood ==
  ASSUME NEW o, NEW p, Sound(p), Moves(o, p)
  PROVE  Good(o, Done(p))
BY FS_EmptySet DEF Good, Done

LEMMA FailGood ==
  ASSUME NEW o, Sound(o)
  PROVE  Good(o, Fail(o))
BY FS_EmptySet DEF Good, Done, Fail, Moves

\* The checks every handler of a message starts with.
LEMMA ReceiveGood ==
  ASSUME NEW o, Sound(o), NEW m \in Message, NEW after, NEW handle,
         /\ o.open
         /\ m.type \in ListType \/ ~Has(o, m.type)
         /\ \A type \in after : ~Has(o, type)
         => Good(o, handle)
  PROVE  Good(o, Receive(o, m, after, handle))
<1>1. Good(o, Done(o)) BY DoneGood DEF Moves
<1> QED BY <1>1, FailGood, ParkGood DEF Receive

\* Two moves make one, if the second adds nothing that bars the first.
LEMMA MovesTwice ==
  ASSUME NEW o, NEW p, NEW q, Sound(q), Moves(o, p), Moves(p, q),
         \A x \in p.msgs \ o.msgs : \A type \in Bars(x.type) : ~Has(q, type)
  PROVE  Moves(o, q)
<1>1. CASE p.msgs = o.msgs \/ q.msgs = p.msgs
  BY <1>1 DEF Moves
<1>2. CASE Grows(o.msgs, p.msgs) /\ Grows(p.msgs, q.msgs)
  <2>1. \A x \in o.msgs \ q.msgs : /\ x.type = "RATING_SIGNATURES"
                                  /\ \E y \in q.msgs : y.type = x.type
    BY <1>2 DEF Grows, BuyerRecord!Grows
  <2>2. \A x \in q.msgs \ o.msgs : Needs(x.type) \subseteq Types(q.msgs)
    BY DEF Sound
  <2>3. \A x \in q.msgs \ o.msgs : Bars(x.type) \cap Types(q.msgs) = {}
    BY <1>2, TypesHas DEF Grows, BuyerRecord!Grows, Bars, Types
  <2> QED
    BY <2>1, <2>2, <2>3
    DEF Moves, Grows, BuyerRecord!Grows, Sound, Needs, Bars, Types, ListType, BuyerRecord!ListType
<1> QED BY <1>1, <1>2 DEF Moves

\* Two single messages of different types may be put in either order.
LEMMA PutSwap ==
  ASSUME NEW o \in Order, NEW a \in Message, NEW b \in Message,
         a.type # b.type, a.type \notin ListType, b.type \notin ListType,
         Sound(Put(Put(o, b), a))
  PROVE  /\ Sound(Put(Put(o, a), b))
         /\ Put(Put(o, a), b).msgs = Put(Put(o, b), a).msgs
<1> DEFINE p == Put(Put(o, a), b)
           q == Put(Put(o, b), a)
<1>1. Put(o, a) \in Order /\ Put(o, b) \in Order BY PutFields
<1>2. p \in Order BY <1>1, PutFields
<1>5. p.open <=> q.open BY <1>1, PutFields
<1>6. p.first = q.first
  <2>1. \A r \in Order, x \in Message : x.type \notin ListType => Put(r, x).first = r.first
    BY DEF Put, Order, ListType
  <2> QED BY <1>1, <2>1
<1>3. p.msgs = {x \in o.msgs : x.type # a.type /\ x.type # b.type} \cup {a, b}
  BY <1>1, PutFields
<1>4. q.msgs = {x \in o.msgs : x.type # a.type /\ x.type # b.type} \cup {a, b}
  BY <1>1, PutFields
<1> QED BY <1>2, <1>3, <1>4, <1>5, <1>6 DEF Sound, FirstStored, Has

\* What is stored before the ORDER_OPEN, or in spite of a missing DISPUTE_OPEN.
LEMMA SoundFacts ==
  ASSUME NEW o, Sound(o)
  PROVE  /\ ~o.open => o.msgs = {}
         /\ Has(o, "DISPUTE_UPDATE") => Has(o, "DISPUTE_OPEN")
<1>1. \A x \in o.msgs : x.type # "ORDER_OPEN" => Has(o, "ORDER_OPEN")
  BY TypesHas DEF Sound, Needs, BuyerRecord!Needs
<1>2. \A x \in o.msgs : x.type = "DISPUTE_UPDATE" => Has(o, "DISPUTE_OPEN")
  BY TypesHas DEF Sound, Needs, BuyerRecord!Needs
<1> QED BY <1>1, <1>2 DEF Sound, Has

-----------------------------------------------------------------------------
(* The handlers *)

LEMMA RecordSpendGood ==
  ASSUME NEW o, Sound(o), NEW m \in Message, NEW method, chain \subseteq Tx
  PROVE  Sound(RecordSpend(o, m, method)) /\ RecordSpend(o, m, method).msgs = o.msgs
<1>1. TxOf(m) \in chain => TxOf(m) \in Tx OBVIOUS
<1> QED BY <1>1, TransactionGood DEF RecordSpend, PutTransaction

LEMMA MsgType ==
  ASSUME NEW type \in MessageType, NEW node \in Node, NEW n \in Nat, NEW k \in Nat,
         NEW from \in SUBSET Payments
  PROVE  Msg(type, node, n, k, from) \in Message /\ Msg(type, node, n, k, from).type = type
BY DEF Msg, Message

LEMMA IncomingPaymentGood ==
  ASSUME NEW node \in Node, NEW o, Sound(o), o.open, NEW p \in Payments
  PROVE  Good(o, IncomingPayment(node, o, p))
<1> DEFINE paid == [o EXCEPT !.txs = @ \cup {PaymentTx(p)}]
           type == IF node = "buyer" THEN "PAYMENT_SENT" ELSE "RATING_SIGNATURES"
           m == Msg(type, node, 1, 0, {p})
<1>1. PaymentTx(p) \in Tx BY DEF Tx
<1>2. Sound(paid) /\ paid.msgs = o.msgs
  BY <1>1, TransactionGood
<1>3. m \in Message /\ m.type = type
  BY MsgType DEF MessageType
<1>4. Has(paid, "ORDER_OPEN")
  BY <1>2 DEF Sound, Has
<1>5. Sound(Put(paid, m)) /\ Moves(paid, Put(paid, m))
  <2>1. \A t \in Needs(m.type) : Has(paid, t)
    BY <1>3, <1>4 DEF Needs, BuyerRecord!Needs
  <2>2. Bars(m.type) = {}
    BY <1>3 DEF Bars, BuyerRecord!Bars
  <2> QED BY <1>2, <1>3, <2>1, <2>2, PutGood DEF ListType
<1>6. Good(o, Done(o)) /\ Good(o, Done(paid))
  BY <1>2, DoneGood DEF Moves
<1>7. Good(o, [Done(Put(paid, m)) EXCEPT !.send = {m}])
  BY <1>2, <1>3, <1>5, FS_Singleton DEF Good, Done, Moves
<1> QED BY <1>6, <1>7 DEF IncomingPayment, PutTransaction, RatingsFor

\* Most handlers end by putting the message into an order that is open.
LEMMA PutDoneGood ==
  ASSUME NEW o, Sound(o), o.open, NEW q, Sound(q), q.msgs = o.msgs, NEW m \in Message,
         \A type \in Needs(m.type) : type = "ORDER_OPEN" \/ Has(o, type),
         \A type \in Bars(m.type) : ~Has(o, type),
         m.type \in ListType \/ ~Has(o, m.type)
  PROVE  Sound(Put(q, m)) /\ Moves(o, Put(q, m)) /\ Good(o, Done(Put(q, m)))
<1>1. \A type : Has(q, type) <=> Has(o, type)
  BY DEF Has
<1>2. Has(q, "ORDER_OPEN")
  BY <1>1 DEF Sound
<1>3. Sound(Put(q, m)) /\ Moves(q, Put(q, m))
  BY <1>1, <1>2, PutGood
<1> QED BY <1>3, DoneGood DEF Moves

LEMMA OrderRejectGood ==
  ASSUME NEW o, Sound(o), NEW m \in Message, m.type = "ORDER_REJECT"
  PROVE  Good(o, OrderReject(o, m))
<1>1. Needs(m.type) = {"ORDER_OPEN"} /\ Bars(m.type) = {"ORDER_CONFIRMATION"}
  BY DEF Needs, BuyerRecord!Needs, Bars, BuyerRecord!Bars
<1> QED BY <1>1, PutDoneGood, ReceiveGood DEF OrderReject, ListType

LEMMA OrderCancelGood ==
  ASSUME NEW o, Sound(o), NEW m \in Message, m.type = "ORDER_CANCEL", chain \subseteq Tx
  PROVE  Good(o, OrderCancel(o, m))
<1>1. Needs(m.type) = {"ORDER_OPEN"} /\ Bars(m.type) = {}
  BY DEF Needs, BuyerRecord!Needs, Bars, BuyerRecord!Bars
<1> QED BY <1>1, RecordSpendGood, PutDoneGood, ReceiveGood DEF OrderCancel, ListType

LEMMA OrderConfirmationGood ==
  ASSUME NEW o, Sound(o), NEW m \in Message, m.type = "ORDER_CONFIRMATION", chain \subseteq Tx
  PROVE  Good(o, OrderConfirmation(o, m))
<1>1. Needs(m.type) = {"ORDER_OPEN"} /\ Bars(m.type) = {"ORDER_REJECT"}
  BY DEF Needs, BuyerRecord!Needs, Bars, BuyerRecord!Bars
<1> QED BY <1>1, RecordSpendGood, PutDoneGood, ReceiveGood DEF OrderConfirmation, ListType

LEMMA RatingSignaturesGood ==
  ASSUME NEW o, Sound(o), NEW m \in Message, m.type = "RATING_SIGNATURES"
  PROVE  Good(o, RatingSignatures(o, m))
<1>1. Needs(m.type) = {"ORDER_OPEN"} /\ Bars(m.type) = {}
  BY DEF Needs, BuyerRecord!Needs, Bars, BuyerRecord!Bars
<1> QED BY <1>1, PutDoneGood, ReceiveGood DEF RatingSignatures, ListType

LEMMA OrderFulfillmentGood ==
  ASSUME NEW o, Sound(o), NEW m \in Message, m.type = "ORDER_FULFILLMENT"
  PROVE  Good(o, OrderFulfillment(o, m))
<1>1. /\ Needs(m.type) = {"ORDER_OPEN", "ORDER_CONFIRMATION"}
      /\ Bars(m.type) = {"ORDER_REJECT"}
  BY DEF Needs, BuyerRecord!Needs, Bars, BuyerRecord!Bars
<1> DEFINE handle == IF ~Has(o, "ORDER_CONFIRMATION") THEN Done(Park(o, m))
                     ELSE IF IsRepeat(deal.method, o, m) THEN Fail(o)
                     ELSE Done(Put(o, m))
<1>2. o.open /\ ~Has(o, "ORDER_REJECT") => Good(o, handle)
  BY <1>1, PutDoneGood, ParkGood, FailGood DEF ListType
<1>3. Good(o, Receive(o, m, {"ORDER_REJECT"}, handle))
  <2> HIDE DEF handle
  <2> QED BY <1>2, ReceiveGood
<1> QED BY <1>3 DEF OrderFulfillment

LEMMA OrderCompleteGood ==
  ASSUME NEW node \in Node, NEW o, Sound(o), NEW m \in Message, m.type = "ORDER_COMPLETE"
  PROVE  Good(o, OrderComplete(node, o, m))
<1>1. Needs(m.type) = {"ORDER_OPEN"} /\ Bars(m.type) = {"ORDER_CANCEL"}
  BY DEF Needs, BuyerRecord!Needs, Bars, BuyerRecord!Bars
<1>2. TxOf(m) \in Tx
  BY DEF TxOf, Tx, Message, SpendType
<1> DEFINE release == node = "vendor" /\ deal.method = "MODERATED" /\ ~Has(o, "DISPUTE_OPEN")
           signed == \E f \in o.first : f.from = m.from /\ f.k = m.k
           handle == IF release /\ o.first = {} THEN Fail(o)
                     ELSE [Done(Put(o, m)) EXCEPT
                             !.spend = IF release /\ signed THEN {TxOf(m)} ELSE {}]
<1>3. ASSUME o.open, ~Has(o, m.type), ~Has(o, "ORDER_CANCEL")
      PROVE  Good(o, handle)
  <2>1. Sound(Put(o, m)) /\ Moves(o, Put(o, m))
    BY <1>1, <1>3, PutDoneGood
  <2> QED BY <1>2, <2>1, FailGood, FS_EmptySet DEF Good, Done
<1>4. Good(o, Receive(o, m, {"ORDER_CANCEL"}, handle))
  <2> HIDE DEF handle
  <2> QED BY <1>3, ReceiveGood DEF ListType
<1> QED BY <1>4 DEF OrderComplete

\* The order is opened, alone or together with the vendor's rejection.
LEMMA OrderOpenGood ==
  ASSUME NEW node \in Node, NEW o, Sound(o), NEW m \in Message, m.type = "ORDER_OPEN"
  PROVE  Good(o, OrderOpen(node, o, m))
<1> DEFINE reject == Msg("ORDER_REJECT", node, 0, 0, {})
<1>1. reject \in Message /\ reject.type = "ORDER_REJECT"
  BY MsgType DEF MessageType
<1>2. CASE Has(o, m.type)
  BY <1>2, DoneGood, FailGood DEF OrderOpen, Moves
<1>3. CASE ~Has(o, m.type)
  <2>1. o.msgs = {}
    BY <1>3, SoundFacts DEF Sound
  <2>2. /\ Needs(m.type) = {} /\ Bars(m.type) = {}
        /\ Needs(reject.type) = {"ORDER_OPEN"}
        /\ Bars(reject.type) = {"ORDER_CONFIRMATION"}
    BY <1>1 DEF Needs, BuyerRecord!Needs, Bars, BuyerRecord!Bars
  <2>3. /\ Sound(Put(o, m)) /\ Moves(o, Put(o, m))
        /\ \A type : Has(Put(o, m), type) <=> type = m.type
    BY <1>3, <2>1, <2>2, PutGood DEF Has
  <2>4. /\ Sound(Put(Put(o, m), reject)) /\ Moves(Put(o, m), Put(Put(o, m), reject))
    BY <1>1, <2>2, <2>3, PutGood
  <2>5. Moves(o, Put(Put(o, m), reject))
    <3>1. \A x \in Put(o, m).msgs : x.type = m.type
      BY <2>3 DEF Has
    <3> QED BY <2>2, <2>3, <2>4, <3>1, MovesTwice
  <2>6. /\ Sound(Put(Put(o, reject), m))
        /\ Put(Put(o, reject), m).msgs = Put(Put(o, m), reject).msgs
    BY <1>1, <2>4, PutSwap DEF ListType, Sound
  <2>7. Good(o, [Done(Put(Put(o, reject), m)) EXCEPT !.send = {reject}])
    BY <1>1, <2>5, <2>6, FS_Singleton DEF Good, Done, Moves
  <2>8. Good(o, Done(Put(o, m)))
    BY <2>3, DoneGood
  <2> QED BY <1>3, <2>1, <2>7, <2>8 DEF OrderOpen
<1> QED BY <1>2, <1>3

\* A dispute of the other party is stored together with the update it gets.
LEMMA DisputeOpenGood ==
  ASSUME NEW node \in Node, NEW o, Sound(o), NEW m \in Message, m.type = "DISPUTE_OPEN"
  PROVE  Good(o, DisputeOpen(node, o, m))
<1> DEFINE after == {"ORDER_COMPLETE", "ORDER_REJECT", "ORDER_CANCEL"}
           update == Msg("DISPUTE_UPDATE", node, 1, 0, {})
           handle == IF deal.method # "MODERATED" THEN Fail(o)
                     ELSE IF m.by = node THEN Done(Put(o, m))
                     ELSE IF ~CanMarshal(o) THEN Fail(o)
                     ELSE Done(Put(Put(o, update), m))
<1>1. update \in Message /\ update.type = "DISPUTE_UPDATE"
  BY MsgType DEF MessageType
<1>2. /\ Needs(m.type) = {"ORDER_OPEN"} /\ Bars(m.type) = after
      /\ Needs(update.type) = {"ORDER_OPEN", "DISPUTE_OPEN"} /\ Bars(update.type) = {}
  BY <1>1 DEF Needs, BuyerRecord!Needs, Bars, BuyerRecord!Bars
<1>3. ASSUME o.open, ~Has(o, m.type), \A type \in after : ~Has(o, type)
      PROVE  Good(o, handle)
  <2>1. /\ Sound(Put(o, m)) /\ Moves(o, Put(o, m)) /\ Good(o, Done(Put(o, m)))
    BY <1>2, <1>3, PutDoneGood
  <2>2. \A type : Has(Put(o, m), type) <=> Has(o, type) \/ type = m.type
    BY <1>2, <1>3, PutGood DEF Sound
  <2>3. ~Has(o, update.type) /\ Has(o, "ORDER_OPEN")
    BY <1>1, <1>3, SoundFacts DEF Sound
  <2>4. /\ Sound(Put(Put(o, m), update)) /\ Moves(Put(o, m), Put(Put(o, m), update))
        /\ \A type : Has(Put(Put(o, m), update), type)
                       <=> Has(Put(o, m), type) \/ type = update.type
    BY <1>1, <1>2, <2>1, <2>2, <2>3, PutGood
  <2>5. Moves(o, Put(Put(o, m), update))
    <3>1. \A x \in Put(o, m).msgs \ o.msgs : x.type = m.type
      BY PutFields DEF Sound
    <3>2. \A type \in after : ~Has(Put(Put(o, m), update), type)
      BY <1>1, <1>3, <2>2, <2>4
    <3> QED BY <1>2, <2>1, <2>4, <3>1, <3>2, MovesTwice
  <2>6. /\ Sound(Put(Put(o, update), m))
        /\ Put(Put(o, update), m).msgs = Put(Put(o, m), update).msgs
    BY <1>1, <2>4, PutSwap DEF ListType, Sound
  <2>7. Good(o, Done(Put(Put(o, update), m)))
    BY <2>5, <2>6, DoneGood DEF Moves
  <2> QED BY <2>1, <2>7, FailGood
<1>4. Good(o, Receive(o, m, after, handle))
  <2> HIDE DEF handle
  <2> QED BY <1>3, ReceiveGood DEF ListType
<1> QED BY <1>4 DEF DisputeOpen

LEMMA RefundGood ==
  ASSUME NEW node \in Node, NEW o, Sound(o), NEW m \in Message, m.type = "REFUND",
         chain \subseteq Tx
  PROVE  Good(o, Refund(node, o, m))
<1> DEFINE q == RecordSpend(Put(o, m), m, "DIRECT")
           spend == IF node = "buyer" /\ deal.method = "MODERATED" THEN {TxOf(m)} ELSE {}
           handle == IF IsRepeat(deal.method, o, m) THEN Done(o)
                     ELSE [Done(q) EXCEPT !.spend = spend]
<1>1. Needs(m.type) = {"ORDER_OPEN"} /\ Bars(m.type) = {"ORDER_CANCEL"}
  BY DEF Needs, BuyerRecord!Needs, Bars, BuyerRecord!Bars
<1>2. spend \subseteq Tx
  BY DEF TxOf, Tx, Message, SpendType
<1>3. ASSUME o.open, ~Has(o, "ORDER_CANCEL")
      PROVE  Good(o, handle)
  <2>1. Sound(Put(o, m)) /\ Moves(o, Put(o, m))
    BY <1>1, <1>3, PutDoneGood DEF ListType
  <2>2. Sound(q) /\ Moves(o, q)
    BY <2>1, RecordSpendGood DEF Moves
  <2>3. Good(o, [Done(q) EXCEPT !.spend = spend])
    BY <1>2, <2>2, FS_EmptySet DEF Good, Done
  <2>4. Good(o, Done(o))
    BY DoneGood DEF Moves
  <2> QED BY <2>3, <2>4
<1>4. Good(o, Receive(o, m, {"ORDER_CANCEL"}, handle))
  <2> HIDE DEF handle
  <2> QED BY <1>3, ReceiveGood
<1> QED BY <1>4 DEF Refund

LEMMA PaymentOnChain ==
  ASSUME NEW t \in Tx, t.kind = "pay"
  PROVE  \E p \in Payments : t = PaymentTx(p) /\ p = CHOOSE q \in t.from : TRUE
<1>1. PICK p \in Payments : t = PaymentTx(p)
  BY DEF Tx, SpendType
<1>2. t.from = {p}
  BY <1>1 DEF PaymentTx
<1> QED BY <1>1, <1>2

LEMMA PaymentSentGood ==
  ASSUME NEW node \in Node, NEW o, Sound(o), NEW m \in Message, m.type = "PAYMENT_SENT",
         chain \subseteq Tx
  PROVE  Good(o, PaymentSent(node, o, m))
<1> DEFINE p == CHOOSE q \in m.from : TRUE
           handle == IF IsRepeat(deal.method, o, m) THEN Done(o)
                     ELSE IF PaymentTx(p) \notin chain THEN Done(Put(o, m))
                     ELSE IncomingPayment(node, Put(o, m), p)
<1>1. Needs(m.type) = {"ORDER_OPEN"} /\ Bars(m.type) = {}
  BY DEF Needs, BuyerRecord!Needs, Bars, BuyerRecord!Bars
<1>2. PaymentTx(p) \in chain => p \in Payments
  <2>1. PaymentTx(p) \in Tx => \E q \in Payments : PaymentTx(p) = PaymentTx(q)
    BY DEF Tx, PaymentTx, SpendType
  <2>2. \A q : PaymentTx(q).from = {q}
    BY DEF PaymentTx
  <2> QED BY <2>1, <2>2
<1>3. ASSUME o.open PROVE Good(o, handle)
  <2>1. Sound(Put(o, m)) /\ Moves(o, Put(o, m)) /\ Good(o, Done(Put(o, m)))
    BY <1>1, <1>3, PutDoneGood DEF ListType
  <2>2. Put(o, m).open
    BY <1>3, PutFields DEF Sound
  <2>3. ASSUME PaymentTx(p) \in chain
        PROVE  Good(o, IncomingPayment(node, Put(o, m), p))
    <3> DEFINE r == IncomingPayment(node, Put(o, m), p)
    <3>1. Good(Put(o, m), r)
      BY <1>2, <2>1, <2>2, <2>3, IncomingPaymentGood
    <3>2. \A x \in Put(o, m).msgs \ o.msgs : x = m
      BY PutFields DEF Sound
    <3>3. Moves(o, r.o)
      <4> HIDE DEF r
      <4> QED BY <1>1, <2>1, <3>1, <3>2, MovesTwice DEF Good
    <3> QED BY <3>1, <3>3 DEF Good
  <2>4. Good(o, Done(o))
    BY DoneGood DEF Moves
  <2> QED BY <2>1, <2>3, <2>4
<1>4. Good(o, Receive(o, m, {}, handle))
  <2> HIDE DEF handle
  <2> QED BY <1>3, ReceiveGood
<1> QED BY <1>4 DEF PaymentSent

\* Whatever message is processed, the order makes a legal move or none.
LEMMA ProcessGood ==
  ASSUME NEW node \in Node, NEW o, Sound(o), NEW peer, NEW m \in Message,
         chain \subseteq Tx
  PROVE  Good(o, Process(node, o, peer, m))
<1>1. m.type \in MessageType BY DEF Message
<1> QED
  BY <1>1, FailGood, OrderOpenGood, OrderRejectGood, OrderCancelGood,
     OrderConfirmationGood, RatingSignaturesGood, OrderFulfillmentGood,
     OrderCompleteGood, DisputeOpenGood, RefundGood, PaymentSentGood
  DEF Process, MessageType

-----------------------------------------------------------------------------
(* The inductive invariant *)

\* A node's record takes a step of OrderRecord, or none.
RecordStep(node) ==
  \/ Working(node)'.msgs = Working(node).msgs /\ order'[node].msgs = order[node].msgs
  \/ Grows(Working(node).msgs, Working(node)'.msgs) /\ order'[node].msgs = order[node].msgs
  \/ /\ order[node].msgs = Working(node).msgs
     /\ Grows(Working(node).msgs, Working(node)'.msgs)
     /\ order'[node].msgs = Working(node)'.msgs
  \/ order'[node].msgs = Working(node).msgs /\ Working(node)'.msgs = Working(node).msgs
  \/ Working(node)'.msgs = order[node].msgs /\ order'[node].msgs = order[node].msgs

Inv ==
  /\ TypeOK
  /\ \A node \in Node : Sound(order[node])
  /\ Sound(tx.work)
  /\ tx.on = "none" => tx = Idle
  /\ IsFiniteSet(issued) /\ IsFiniteSet(tx.out)

LEMMA NoOrderSound == Sound(NoOrder)
BY DEF Sound, FirstStored, NoOrder, Order, Has, Needs, Types

LEMMA IdleType == Idle \in TxState
BY NoOrderSound DEF Idle, TxState, Sound

LEMMA InitInv == Init => Inv
<1> SUFFICES ASSUME Init PROVE Inv OBVIOUS
<1>1. order \in [Node -> Order] /\ \A node \in Node : Sound(order[node])
  BY NoOrderSound DEF Init, Sound
<1>2. redeliveries \in 0..MaxRedeliveries
  BY BoundsAssumption DEF Init
<1>3. tx \in TxState /\ Sound(tx.work) /\ IsFiniteSet(tx.out)
  BY IdleType, NoOrderSound, FS_EmptySet DEF Init, Idle
<1> QED BY <1>1, <1>2, <1>3, FS_EmptySet DEF Init, Inv, TypeOK

LEMMA BroadcastType ==
  ASSUME NEW spend \in SUBSET Tx, chain \subseteq Tx
  PROVE  Broadcast(spend) \subseteq Tx
BY DEF Broadcast

\* ProcessMessage on a sound order.
LEMMA EnterGood ==
  ASSUME NEW node \in Node, NEW o, Sound(o), NEW peer \in Node \cup {"none"},
         NEW m \in Message, NEW next \in SUBSET Message, NEW out \in SUBSET Message,
         NEW spend \in SUBSET Tx, IsFiniteSet(out), chain \subseteq Tx,
         Enter(node, o, peer, m, next, out, spend)
  PROVE  /\ tx' \in TxState /\ tx'.on = node /\ IsFiniteSet(tx'.out)
         /\ Sound(tx'.work) /\ Moves(o, tx'.work)
         /\ chain' \subseteq Tx
<1> DEFINE r == IF o = NoOrder /\ m.type # "ORDER_OPEN"
                THEN Done(Park(o, m)) ELSE Process(node, o, peer, m)
<1>1. Good(o, r)
  BY ParkGood, ProcessGood
<1>2. /\ tx' = [on |-> node, work |-> r.o, peer |-> peer, trigger |-> {m},
                todo |-> {c \in r.o.parked : c[1] # m}, next |-> next,
                out |-> out \cup r.send, spend |-> spend]
      /\ chain' = Broadcast(r.spend)
  BY DEF Enter
<1> HIDE DEF r
<1>3. r.o \in Order /\ r.o.parked \subseteq Parked
  BY <1>1 DEF Good, Sound, Order
<1>4. IsFiniteSet(out \cup r.send)
  BY <1>1, FS_Union DEF Good
<1>5. tx' \in TxState
  BY <1>1, <1>2, <1>3 DEF TxState, Good
<1> QED BY <1>1, <1>2, <1>4, <1>5, BroadcastType DEF Good

\* A step that leaves the orders and the transaction alone, or that starts to
\* process a message in a transaction, moves each record legally.
LEMMA StartStep ==
  ASSUME Inv, NEW node \in Node, UNCHANGED order,
         tx = Idle \/ tx.on = node, tx'.on = node,
         Moves(Working(node), tx'.work)
  PROVE  \A n \in Node : RecordStep(n)
<1>1. Working(node)' = tx'.work
  BY DEF Working
<1>2. \A n \in Node : n # node => Working(n)' = order[n] /\ Working(n) = order[n]
  BY DEF Working, Idle, Node
<1> QED BY <1>1, <1>2 DEF RecordStep, Moves

LEMMA IdleStep ==
  ASSUME UNCHANGED <<order, tx>>
  PROVE  \A n \in Node : RecordStep(n)
BY DEF RecordStep, Working

-----------------------------------------------------------------------------
(* The steps *)

LEMMA ReprocessInv ==
  ASSUME Inv, Reprocess
  PROVE  Inv' /\ \A n \in Node : RecordStep(n)
<1>1. PICK c \in tx.todo :
        LET r == Process(tx.on, tx.work, tx.peer, c[1])
        IN  /\ tx' = [tx EXCEPT !.work = IF r.ok THEN r.o ELSE PutErrors(r.o, tx.trigger),
                                !.todo = @ \ {c}, !.out = @ \cup r.send]
            /\ chain' = Broadcast(r.spend)
  BY DEF Reprocess
<1> DEFINE r == Process(tx.on, tx.work, tx.peer, c[1])
           w == IF r.ok THEN r.o ELSE PutErrors(r.o, tx.trigger)
<1>2. tx \in TxState /\ chain \subseteq Tx
  BY DEF Inv, TypeOK
<1>3. c[1] \in Message
  BY <1>2 DEF TxState, Parked
<1>4. tx.on \in Node
  <2>1. tx # Idle BY <1>1 DEF Idle
  <2> QED BY <1>2, <2>1 DEF Inv, TxState
<1>5. Good(tx.work, r)
  BY <1>2, <1>3, <1>4, ProcessGood DEF Inv
<1>6. /\ tx' = [tx EXCEPT !.work = w, !.todo = @ \ {c}, !.out = @ \cup r.send]
      /\ chain' = Broadcast(r.spend)
  BY <1>1
<1>7. Sound(w) /\ Moves(tx.work, w)
  BY <1>2, <1>5, ErrorsGood DEF Good, Moves, TxState
<1> HIDE DEF r, w
<1>8. /\ tx' \in TxState /\ tx'.on = tx.on /\ tx'.work = w
      /\ tx'.out = tx.out \cup r.send
  BY <1>2, <1>5, <1>6, <1>7 DEF TxState, Good, Sound
<1>9. chain' \subseteq Tx
  BY <1>2, <1>5, <1>6, BroadcastType DEF Good
<1>10. IsFiniteSet(tx'.out)
  BY <1>5, <1>8, FS_Union DEF Good, Inv
<1>11. UNCHANGED <<deal, order, calls, net, redeliveries, issued>>
  BY DEF Reprocess
<1>12. Inv'
  BY <1>4, <1>7, <1>8, <1>9, <1>10, <1>11 DEF Inv, TypeOK, Node
<1>13. \A n \in Node : RecordStep(n)
  BY <1>4, <1>7, <1>8, <1>11, StartStep DEF Working
<1> QED BY <1>12, <1>13

LEMMA CommitInv ==
  ASSUME Inv, Commit
  PROVE  Inv' /\ \A n \in Node : RecordStep(n)
<1>1. tx.on \in Node /\ tx \in TxState
  BY DEF Inv, TypeOK, TxState, Commit
<1>2. /\ order' = [order EXCEPT ![tx.on] = tx.work]
      /\ net' = net \cup tx.out /\ issued' = issued \cup tx.out
      /\ chain' = Broadcast(tx.spend) /\ tx' = Idle
      /\ UNCHANGED <<deal, calls, redeliveries>>
  BY DEF Commit
<1>3. /\ order' \in [Node -> Order] /\ order'[tx.on] = tx.work
      /\ \A n \in Node : n # tx.on => order'[n] = order[n]
  BY <1>1, <1>2 DEF Inv, TypeOK, TxState
<1>4. chain' \subseteq Tx
  BY <1>1, <1>2, BroadcastType DEF Inv, TypeOK, TxState
<1>5. net' \subseteq Message /\ issued' \subseteq Message
  BY <1>1, <1>2 DEF Inv, TypeOK, TxState
<1>6. IsFiniteSet(issued')
  BY <1>2, FS_Union DEF Inv
<1>7. Sound(tx'.work) /\ IsFiniteSet(tx'.out) /\ tx' \in TxState
  BY <1>2, NoOrderSound, IdleType, FS_EmptySet DEF Idle
<1>8. \A n \in Node : Sound(order'[n])
  BY <1>3 DEF Inv
<1>9. Inv'
  BY <1>2, <1>3, <1>4, <1>5, <1>6, <1>7, <1>8 DEF Inv, TypeOK
<1>10. \A n \in Node : RecordStep(n)
  BY <1>1, <1>2, <1>3 DEF RecordStep, Working, Idle, Node
<1> QED BY <1>9, <1>10

LEMMA AbortInv ==
  ASSUME Inv, Abort
  PROVE  Inv' /\ \A n \in Node : RecordStep(n)
<1>1. tx' = Idle /\ UNCHANGED <<deal, order, calls, net, redeliveries, issued, chain>>
  BY DEF Abort
<1>2. Sound(tx'.work) /\ IsFiniteSet(tx'.out) /\ tx' \in TxState
  BY <1>1, NoOrderSound, IdleType, FS_EmptySet DEF Idle
<1>3. Inv'
  BY <1>1, <1>2 DEF Inv, TypeOK
<1>4. \A n \in Node : RecordStep(n)
  BY <1>1 DEF RecordStep, Working, Idle, Node
<1> QED BY <1>3, <1>4

\* A message starts to be processed, and nothing that matters changes but the
\* transaction, the wallet transactions, and messages or calls taken away.
LEMMA EnterInv ==
  ASSUME Inv, NEW node \in Node, tx = Idle \/ tx.on = node,
         NEW peer \in Node \cup {"none"}, NEW m \in Message, NEW next \in SUBSET Message,
         NEW out \in SUBSET Message, IsFiniteSet(out), NEW spend \in SUBSET Tx,
         Enter(node, Working(node), peer, m, next, out, spend),
         UNCHANGED <<deal, order, issued>>, calls' \subseteq calls, net' \subseteq net,
         redeliveries' \in 0..MaxRedeliveries
  PROVE  Inv' /\ \A n \in Node : RecordStep(n)
<1>1. Sound(Working(node)) /\ chain \subseteq Tx
  BY DEF Inv, Working, TypeOK
<1>2. /\ tx' \in TxState /\ tx'.on = node /\ IsFiniteSet(tx'.out)
      /\ Sound(tx'.work) /\ Moves(Working(node), tx'.work)
      /\ chain' \subseteq Tx
  BY <1>1, EnterGood
<1>3. Inv'
  BY <1>2 DEF Inv, TypeOK, Node
<1> QED BY <1>2, <1>3, StartStep

LEMMA ProcessNextInv ==
  ASSUME Inv, ProcessNext
  PROVE  Inv' /\ \A n \in Node : RecordStep(n)
<1>1. PICK m \in tx.next :
        Enter(tx.on, tx.work, tx.peer, m, tx.next \ {m}, tx.out, tx.spend)
  BY DEF ProcessNext
<1>2. tx \in TxState /\ IsFiniteSet(tx.out)
  BY DEF Inv, TypeOK
<1>3. tx.on \in Node /\ tx.work = Working(tx.on)
  BY <1>2 DEF ProcessNext, TxState, Working
<1>4. /\ tx.peer \in Node \cup {"none"} /\ tx.next \subseteq Message
      /\ tx.out \subseteq Message /\ tx.spend \subseteq Tx
  BY <1>2 DEF TxState
<1>5. UNCHANGED <<deal, order, calls, net, redeliveries, issued>>
  BY DEF ProcessNext
<1>6. redeliveries' \in 0..MaxRedeliveries
  BY <1>5 DEF Inv, TypeOK
<1>7. Enter(tx.on, Working(tx.on), tx.peer, m, tx.next \ {m}, tx.out, tx.spend)
  BY <1>1, <1>3
<1>8. m \in Message /\ tx.next \ {m} \in SUBSET Message
  BY <1>4
<1> QED BY <1>2, <1>3, <1>4, <1>5, <1>6, <1>7, <1>8, EnterInv

LEMMA DeliverInv ==
  ASSUME Inv, NEW m \in net, Deliver(m)
  PROVE  Inv' /\ \A n \in Node : RecordStep(n)
<1>1. m \in Message /\ m.by \in Node /\ Other(m.by) \in Node
  BY DEF Inv, TypeOK, Message, Other, Node
<1>2. tx = Idle /\ Working(Other(m.by)) = order[Other(m.by)]
  BY <1>1 DEF Deliver, Working, Idle, Node
<1>3. net' \subseteq net /\ redeliveries' \in 0..MaxRedeliveries
  BY BoundsAssumption DEF Deliver, Inv, TypeOK
<1>4. UNCHANGED <<deal, order, calls, issued>>
  BY DEF Deliver
<1>5. Enter(Other(m.by), Working(Other(m.by)), m.by, m, {}, {}, {})
  BY <1>2 DEF Deliver
<1> QED BY <1>1, <1>2, <1>3, <1>4, <1>5, FS_EmptySet, EnterInv

LEMMA PurchaseInv ==
  ASSUME Inv, Purchase
  PROVE  Inv' /\ \A n \in Node : RecordStep(n)
<1> DEFINE m == Msg("ORDER_OPEN", "buyer", 1, 0, {})
<1>1. m \in Message /\ IsFiniteSet({m})
  BY MsgType, FS_Singleton DEF MessageType, Node
<1>2. tx = Idle /\ Working("buyer") = NoOrder
  BY DEF Purchase, Working, Idle
<1>3. Enter("buyer", Working("buyer"), "buyer", m, {}, {m}, {})
  BY <1>2 DEF Purchase
<1>4. UNCHANGED <<deal, order, calls, net, redeliveries, issued>>
  BY DEF Purchase
<1> HIDE DEF m
<1> QED BY <1>1, <1>2, <1>3, <1>4, EnterInv DEF Inv, TypeOK, Node

LEMMA PayInv ==
  ASSUME Inv, NEW p \in Payments, Pay(p)
  PROVE  Inv' /\ \A n \in Node : RecordStep(n)
<1>1. chain' \subseteq Tx
  BY DEF Pay, Inv, TypeOK, Tx
<1> QED BY <1>1, IdleStep DEF Pay, Inv, TypeOK

LEMMA StartCallInv ==
  ASSUME Inv, NEW node \in Node, NEW op \in Op, StartCall(node, op)
  PROVE  Inv' /\ \A n \in Node : RecordStep(n)
<1>1. order[node] \in Order
  BY DEF Inv, TypeOK
<1>2. calls' \subseteq Call
  BY <1>1 DEF StartCall, Inv, TypeOK, Call
<1> QED BY <1>2, IdleStep DEF StartCall, Inv, TypeOK

LEMMA WalletTransactionInv ==
  ASSUME Inv, NEW node \in Node, NEW t \in chain, WalletTransaction(node, t)
  PROVE  Inv' /\ \A n \in Node : RecordStep(n)
<1> DEFINE o == order[node]
           r == IF t.kind = "pay"
                THEN IncomingPayment(node, o, CHOOSE p \in t.from : TRUE)
                ELSE OutgoingPayment(o, t)
<1>1. t \in Tx /\ Sound(o) /\ o.open
  BY DEF Inv, TypeOK, WalletTransaction, Unknown
<1>2. Good(o, r)
  <2>1. CASE t.kind = "pay"
    BY <1>1, <2>1, PaymentOnChain, IncomingPaymentGood
  <2>2. CASE t.kind # "pay"
    BY <1>1, <2>2, TransactionGood, DoneGood DEF Moves, OutgoingPayment, PutTransaction
  <2> QED BY <2>1, <2>2
<1>3. /\ order' = [order EXCEPT ![node] = r.o]
      /\ net' = net \cup r.send /\ issued' = issued \cup r.send
      /\ tx = Idle /\ UNCHANGED <<deal, tx, calls, redeliveries, chain>>
  BY DEF WalletTransaction, r, o
<1> HIDE DEF r
<1>4. /\ order' \in [Node -> Order] /\ order'[node] = r.o
      /\ \A n \in Node : n # node => order'[n] = order[n]
  BY <1>2, <1>3 DEF Inv, TypeOK, Good, Sound
<1>5. IsFiniteSet(issued')
  BY <1>2, <1>3, FS_Union DEF Inv, Good
<1>6. Inv'
  BY <1>2, <1>3, <1>4, <1>5 DEF Inv, TypeOK, Good
<1>7. \A n \in Node : Working(n) = order[n] /\ Working(n)' = order'[n]
  BY <1>3 DEF Working, Idle, Node
<1>8. \A n \in Node : RecordStep(n)
  BY <1>2, <1>4, <1>7 DEF RecordStep, Good, Moves
<1> QED BY <1>6, <1>8

-----------------------------------------------------------------------------
(* API calls *)

LEMMA ReleaseType ==
  ASSUME NEW s \in Order
  PROVE  CancelableRelease(s) \in SUBSET Payments /\ EscrowRelease(s) \in SUBSET Payments
<1>1. \A t \in Tx : t.from \subseteq Payments
  BY DEF Tx, PaymentTx
<1> QED BY <1>1 DEF CancelableRelease, EscrowRelease, Unspent, Paid, Order

LEMMA SerialType ==
  ASSUME NEW type, NEW node, IsFiniteSet(issued)
  PROVE  Serial(type, node) \in Nat
<1>1. IsFiniteSet(Issued(type, node))
  BY FS_Subset DEF Issued
<1> QED BY <1>1, FS_CardinalityType DEF Serial

LEMMA RefundMessagesType ==
  ASSUME NEW s \in Order, IsFiniteSet(issued)
  PROVE  \A m \in RefundMessages(s) : m \in Message /\ m.type = "REFUND"
<1> DEFINE amounts ==
             IF deal.method = "DIRECT"
             THEN {a \in 0..Cardinality(Payments) : a + Returned(s) = Cardinality(Paid(s.txs))}
             ELSE {0}
           n == Serial("REFUND", "vendor")
           from == EscrowRelease(s)
<1>1. amounts \subseteq Nat
  BY OrderAssumption, FS_CardinalityType
<1>2. n \in Nat /\ from \in SUBSET Payments
  BY SerialType, ReleaseType
<1> HIDE DEF amounts, n, from
<1>3. \A a \in amounts : /\ Msg("REFUND", "vendor", n, a, from) \in Message
                         /\ Msg("REFUND", "vendor", n, a, from).type = "REFUND"
  BY <1>1, <1>2, MsgType DEF MessageType, Node
<1>4. \A m \in RefundMessages(s) : \E a \in amounts : m = Msg("REFUND", "vendor", n, a, from)
  BY DEF RefundMessages, amounts, n, from
<1> QED BY <1>3, <1>4

LEMMA CallMessagesType ==
  ASSUME NEW c \in Call, IsFiniteSet(issued)
  PROVE  \A m \in CallMessages(c) : m \in Message
<1> DEFINE type == OpType[c.op]
           n == Serial(type, c.node)
<1>1. /\ c.seen \in Order /\ c.node \in Node /\ c.op \in Op
      /\ n \in Nat /\ type \in MessageType
  BY SerialType DEF Call, Op, OpType, MessageType
<1>2. /\ CancelableRelease(c.seen) \in SUBSET Payments
      /\ EscrowRelease(c.seen) \in SUBSET Payments
  BY <1>1, ReleaseType
<1>3. /\ \A i \in Items : i \in Nat
      /\ \A f \in c.seen.first : f.k \in Nat
  BY <1>1, OrderAssumption DEF Order, Message
<1>4. \A k \in Nat, from \in SUBSET Payments : Answer(c, k, from) \in Message
  BY <1>1, MsgType DEF Answer
<1>5. ASSUME NEW m \in CallMessages(c), c.op # "refund"
      PROVE  \E k \in Nat, from \in SUBSET Payments : m = Answer(c, k, from)
  <2>1. CASE c.op = "confirm"
    BY <1>2, <1>5, <2>1 DEF CallMessages, ConfirmMessages
  <2>2. CASE c.op = "cancel"
    BY <1>2, <1>5, <2>2 DEF CallMessages, CancelMessages
  <2>3. CASE c.op = "reject"
    BY <1>5, <2>3 DEF CallMessages, RejectMessages
  <2>4. CASE c.op = "fulfill"
    BY <1>2, <1>3, <1>5, <2>4 DEF CallMessages, FulfillMessages
  <2>5. CASE c.op = "complete"
    BY <1>2, <1>3, <1>5, <2>5 DEF CallMessages, CompleteMessages
  <2>6. CASE c.op = "dispute"
    BY <1>5, <2>6 DEF CallMessages, DisputeMessages
  <2> QED BY <1>1, <1>5, <2>1, <2>2, <2>3, <2>4, <2>5, <2>6 DEF Op
<1>6. CASE c.op = "refund"
  BY <1>1, <1>6, RefundMessagesType DEF CallMessages
<1> QED BY <1>4, <1>5, <1>6

LEMMA CallSpendsType ==
  ASSUME NEW m \in Message
  PROVE  CallSpends(m) \in SUBSET Tx
BY DEF CallSpends, TxOf, Tx, Message, SpendType

LEMMA RunCallInv ==
  ASSUME Inv, NEW c \in calls, RunCall(c)
  PROVE  Inv' /\ \A n \in Node : RecordStep(n)
<1>1. /\ c \in Call /\ c.node \in Node /\ c.seen \in Order /\ IsFiniteSet(issued)
      /\ tx = Idle /\ Working(c.node) = order[c.node]
  BY DEF Inv, TypeOK, Call, RunCall, Working, Idle, Node
<1>2. calls' \subseteq calls /\ UNCHANGED <<deal, order, net, redeliveries, issued>>
  BY DEF RunCall
<1>3. redeliveries' \in 0..MaxRedeliveries
  BY <1>2 DEF Inv, TypeOK
<1>4. CASE UNCHANGED <<tx, chain>>
  BY <1>2, <1>4, IdleStep DEF Inv, TypeOK
<1>5. ASSUME NEW m \in CallMessages(c),
             Enter(c.node, order[c.node], c.node, m, {}, {m}, CallSpends(m))
      PROVE  Inv' /\ \A n \in Node : RecordStep(n)
  <2>1. m \in Message BY <1>1, CallMessagesType
  <2>2. CallSpends(m) \in SUBSET Tx BY <2>1, CallSpendsType
  <2> QED BY <1>1, <1>2, <1>3, <1>5, <2>1, <2>2, FS_Singleton, EnterInv
<1>6. ASSUME NEW m \in CallMessages(c), NEW r \in RefundMessages(c.seen),
             Enter(c.node, order[c.node], c.node, m, {r}, {m, r}, CallSpends(r))
      PROVE  Inv' /\ \A n \in Node : RecordStep(n)
  <2>1. m \in Message /\ r \in Message
    BY <1>1, CallMessagesType, RefundMessagesType
  <2>2. CallSpends(r) \in SUBSET Tx BY <2>1, CallSpendsType
  <2>3. IsFiniteSet({m, r})
    <3>1. {m, r} = {m} \cup {r} OBVIOUS
    <3>2. IsFiniteSet({m}) /\ IsFiniteSet({r}) BY FS_Singleton
    <3>3. IsFiniteSet({m} \cup {r}) BY <3>2, FS_Union
    <3> QED BY <3>1, <3>3
  <2> QED BY <1>1, <1>2, <1>3, <1>6, <2>1, <2>2, <2>3, EnterInv
<1> QED BY <1>4, <1>5, <1>6 DEF RunCall

-----------------------------------------------------------------------------
(* The theorems *)

LEMMA NextInv ==
  ASSUME Inv, [Next]_vars
  PROVE  Inv' /\ \A n \in Node : RecordStep(n)
<1>1. CASE UNCHANGED vars
  <2>1. UNCHANGED <<order, tx>> BY <1>1 DEF vars
  <2> QED BY <1>1, <2>1, IdleStep DEF vars, Inv, TypeOK
<1>2. CASE Next
  BY <1>2, PurchaseInv, PayInv, StartCallInv, RunCallInv, DeliverInv,
     WalletTransactionInv, ReprocessInv, ProcessNextInv, CommitInv, AbortInv DEF Next
<1> QED BY <1>1, <1>2

LEMMA Invariance == Spec => []Inv
<1>1. Inv /\ [Next]_vars => Inv'
  BY NextInv
<1> QED BY InitInv, <1>1, PTL DEF Spec

\* Every variable keeps its type, in the middle of a transaction too, whatever
\* the messages, calls, payments and restarts.
THEOREM TypeCorrect == Spec => []TypeOK
<1>1. Inv => TypeOK BY DEF Inv
<1> QED BY Invariance, <1>1, PTL

\* Each node's saved record and the draft its update makes of it move only as
\* OrderRecord allows: no message is stored twice, forgotten, stored without
\* those it needs or beside one that bars it.
THEOREM RecordRefinement == Spec => ImplementsRecord
<1>1. Init => BuyerRecord!Init /\ VendorRecord!Init
  BY DEF Init, BuyerRecord!Init, VendorRecord!Init, Working, Idle, NoOrder, Node
<1>2. Inv /\ [Next]_vars
        => /\ [BuyerRecord!Next]_<<order["buyer"].msgs, Working("buyer").msgs>>
           /\ [VendorRecord!Next]_<<order["vendor"].msgs, Working("vendor").msgs>>
  <2> SUFFICES ASSUME Inv, [Next]_vars
               PROVE  /\ [BuyerRecord!Next]_<<order["buyer"].msgs, Working("buyer").msgs>>
                      /\ [VendorRecord!Next]_<<order["vendor"].msgs, Working("vendor").msgs>>
    OBVIOUS
  <2>1. RecordStep("buyer") /\ RecordStep("vendor")
    BY NextInv DEF Node
  <2>2. [BuyerRecord!Next]_<<order["buyer"].msgs, Working("buyer").msgs>>
    BY <2>1 DEF RecordStep, Grows, BuyerRecord!Next, BuyerRecord!Edit, BuyerRecord!Record,
                BuyerRecord!Save, BuyerRecord!Drop
  <2>3. \A old, new : Grows(old, new) <=> VendorRecord!Grows(old, new)
    BY DEF Grows, BuyerRecord!Grows, VendorRecord!Grows, BuyerRecord!Types, VendorRecord!Types,
           BuyerRecord!Needs, VendorRecord!Needs, BuyerRecord!Bars, VendorRecord!Bars,
           BuyerRecord!ListType, VendorRecord!ListType
  <2>4. [VendorRecord!Next]_<<order["vendor"].msgs, Working("vendor").msgs>>
    BY <2>1, <2>3 DEF RecordStep, VendorRecord!Next, VendorRecord!Edit, VendorRecord!Record,
                      VendorRecord!Save, VendorRecord!Drop
  <2> QED BY <2>2, <2>4
<1> QED BY Invariance, <1>1, <1>2, PTL
        DEF Spec, ImplementsRecord, BuyerRecord!Spec, VendorRecord!Spec

\* A legal move from messages without both a rejection and a confirmation leads
\* to messages without both.
LEMMA GrowsExclusive ==
  ASSUME NEW old, NEW new, Grows(old, new),
         ~({"ORDER_REJECT", "ORDER_CONFIRMATION"} \subseteq Types(old))
  PROVE  ~({"ORDER_REJECT", "ORDER_CONFIRMATION"} \subseteq Types(new))
<1> SUFFICES ASSUME NEW x \in new, NEW y \in new,
                    x.type = "ORDER_REJECT", y.type = "ORDER_CONFIRMATION"
             PROVE  FALSE
  BY DEF Types, BuyerRecord!Types
<1>1. "ORDER_CONFIRMATION" \in Types(new) /\ "ORDER_REJECT" \in Types(new)
  BY DEF Types, BuyerRecord!Types
<1>2. x \in old
  BY <1>1 DEF Grows, BuyerRecord!Grows, Types, BuyerRecord!Bars
<1>3. y \in old
  BY <1>1 DEF Grows, BuyerRecord!Grows, Types, BuyerRecord!Bars
<1> QED BY <1>2, <1>3 DEF Types, BuyerRecord!Types

\* No node ever stores both a rejection and a confirmation of the order.
THEOREM RejectionExcludesConfirmation == Spec => []NeverRejectedAndConfirmed
<1> DEFINE Apart(s) == ~({"ORDER_REJECT", "ORDER_CONFIRMATION"} \subseteq Types(s))
           Exclusive == \A n \in Node : Apart(order[n].msgs) /\ Apart(Working(n).msgs)
<1>1. Init => Exclusive
  BY DEF Init, Working, Idle, NoOrder, Node, Types, BuyerRecord!Types
<1>2. Inv /\ Exclusive /\ [Next]_vars => Exclusive'
  <2> SUFFICES ASSUME Inv, Exclusive, [Next]_vars, NEW n \in Node
               PROVE  (Apart(order[n].msgs) /\ Apart(Working(n).msgs))'
    OBVIOUS
  <2>1. RecordStep(n)
    BY NextInv
  <2>2. \A new : Grows(Working(n).msgs, new) => Apart(new)
    BY GrowsExclusive
  <2> HIDE DEF Apart
  <2> QED BY <2>1, <2>2 DEF RecordStep
<1>3. Exclusive => NeverRejectedAndConfirmed
  BY TypesHas DEF NeverRejectedAndConfirmed
<1> HIDE DEF Exclusive
<1> QED BY Invariance, <1>1, <1>2, <1>3, PTL DEF Spec

-----------------------------------------------------------------------------
(* What a message and its handler may make of an order *)

\* The messages an order holds, stored or parked, less those its own node adds
\* for the moderator.
Held(o) == {x \in o.msgs : x.type # "DISPUTE_UPDATE"} \cup {c[1] : c \in o.parked}

\* The messages that a handler sends of its own accord.
Automatic == {"ORDER_REJECT", "RATING_SIGNATURES", "PAYMENT_SENT"}

\* What the handler of m may make of the order o: an order p that stores or parks
\* m, stores what the handler sends, and knows more transactions of the chain.
Leads(o, m, p, send) ==
  /\ \A x \in p.msgs : x \in o.msgs \cup {m} \cup send \/ x.type = "DISPUTE_UPDATE"
  /\ \A c \in p.parked \ o.parked : c[1] = m /\ (o.open => m.type = "ORDER_FULFILLMENT")
  /\ o.txs \subseteq p.txs /\ p.txs \subseteq o.txs \cup chain
  /\ \A x \in send : x.type \in Automatic

\* Only escrow money is spent by a handler.
Effect(o, m, r) ==
  /\ Leads(o, m, r.o, r.send)
  /\ r.spend # {} => deal.method = "MODERATED"

-----------------------------------------------------------------------------
(* The effect of the handlers *)

LEMMA SameLeads ==
  ASSUME NEW o, NEW m
  PROVE  Leads(o, m, o, {})
BY DEF Leads

LEMMA DoneEffect ==
  ASSUME NEW o, NEW m, NEW p, Leads(o, m, p, {})
  PROVE  Effect(o, m, Done(p)) /\ Effect(o, m, Fail(p))
BY DEF Effect, Done, Fail

LEMMA PutLeads ==
  ASSUME NEW o, NEW m, NEW send, NEW p \in Order, NEW x \in Message,
         Leads(o, m, p, send), x = m \/ x \in send \/ x.type = "DISPUTE_UPDATE"
  PROVE  Put(p, x) \in Order /\ Leads(o, m, Put(p, x), send)
<1>1. /\ Put(p, x) \in Order /\ Put(p, x).txs = p.txs /\ Put(p, x).parked = p.parked
      /\ Put(p, x).msgs \subseteq p.msgs \cup {x}
  BY DEF Put, Order
<1> QED BY <1>1 DEF Leads

LEMMA PutEffect ==
  ASSUME NEW o \in Order, NEW m \in Message
  PROVE  /\ Put(o, m) \in Order /\ Leads(o, m, Put(o, m), {})
         /\ Effect(o, m, Done(Put(o, m)))
BY SameLeads, PutLeads, DoneEffect

LEMMA ParkEffect ==
  ASSUME NEW o \in Order, NEW m \in Message, ~o.open \/ m.type = "ORDER_FULFILLMENT"
  PROVE  Effect(o, m, Done(Park(o, m)))
<1>1. /\ Park(o, m).msgs = o.msgs /\ Park(o, m).txs = o.txs
      /\ \A c \in Park(o, m).parked : c \in o.parked \/ c[1] = m
  BY DEF Park, Order
<1>2. Leads(o, m, Park(o, m), {})
  BY <1>1 DEF Leads
<1> QED BY <1>2, DoneEffect

LEMMA ReceiveEffect ==
  ASSUME NEW o \in Order, NEW m \in Message, NEW after, NEW handle,
         o.open => Effect(o, m, handle)
  PROVE  Effect(o, m, Receive(o, m, after, handle))
<1>1. Effect(o, m, Done(o)) /\ Effect(o, m, Fail(o))
  BY SameLeads, DoneEffect
<1> QED BY <1>1, ParkEffect DEF Receive

LEMMA RecordSpendLeads ==
  ASSUME NEW o, NEW m, NEW p \in Order, NEW method, chain \subseteq Tx, Leads(o, m, p, {})
  PROVE  RecordSpend(p, m, method) \in Order /\ Leads(o, m, RecordSpend(p, m, method), {})
<1> DEFINE q == RecordSpend(p, m, method)
<1>1. /\ q \in Order /\ q.msgs = p.msgs /\ q.parked = p.parked
      /\ p.txs \subseteq q.txs /\ q.txs \subseteq p.txs \cup chain
  BY DEF RecordSpend, PutTransaction, Order
<1> HIDE DEF q
<1> QED BY <1>1 DEF Leads, q

LEMMA IncomingPaymentEffect ==
  ASSUME NEW node \in Node, NEW o, NEW m, NEW q \in Order, NEW p \in Payments,
         Leads(o, m, q, {}), PaymentTx(p) \in chain
  PROVE  Effect(o, m, IncomingPayment(node, q, p))
<1> DEFINE paid == PutTransaction(q, PaymentTx(p))
           type == IF node = "buyer" THEN "PAYMENT_SENT" ELSE "RATING_SIGNATURES"
           x == Msg(type, node, 1, 0, {p})
<1>1. PaymentTx(p) \in Tx BY DEF Tx
<1>2. /\ paid \in Order /\ paid.txs = q.txs \cup {PaymentTx(p)}
      /\ paid.msgs = q.msgs /\ paid.parked = q.parked
  BY <1>1 DEF PutTransaction, Order
<1>3. x \in Message /\ x.type \in Automatic
  BY MsgType DEF MessageType, Automatic
<1>4. Leads(o, m, paid, {}) /\ Leads(o, m, paid, {x})
  <2> HIDE DEF paid, x
  <2> QED BY <1>2, <1>3 DEF Leads
<1>5. Effect(o, m, Done(q)) /\ Effect(o, m, Done(paid))
  BY <1>4, DoneEffect
<1>6. Effect(o, m, [Done(Put(paid, x)) EXCEPT !.send = {x}])
  <2> HIDE DEF paid, x
  <2>1. Leads(o, m, Put(paid, x), {x})
    BY <1>2, <1>3, <1>4, PutLeads
  <2> QED BY <2>1 DEF Effect, Done
<1> QED BY <1>5, <1>6 DEF IncomingPayment, RatingsFor

LEMMA OrderOpenEffect ==
  ASSUME NEW node \in Node, NEW o \in Order, NEW m \in Message
  PROVE  Effect(o, m, OrderOpen(node, o, m))
<1> DEFINE reject == Msg("ORDER_REJECT", node, 0, 0, {})
<1>1. reject \in Message /\ reject.type \in Automatic
  BY MsgType DEF MessageType, Automatic
<1>2. Effect(o, m, [Done(Put(Put(o, reject), m)) EXCEPT !.send = {reject}])
  <2> HIDE DEF reject
  <2>1. Leads(o, m, o, {reject})
    BY <1>1 DEF Leads
  <2>2. Leads(o, m, Put(Put(o, reject), m), {reject})
    BY <1>1, <2>1, PutLeads
  <2> QED BY <2>2 DEF Effect, Done
<1>3. Effect(o, m, Done(Put(o, m))) /\ Effect(o, m, Done(o)) /\ Effect(o, m, Fail(o))
  BY PutEffect, SameLeads, DoneEffect
<1> QED BY <1>2, <1>3 DEF OrderOpen

LEMMA OrderCompleteEffect ==
  ASSUME NEW node \in Node, NEW o \in Order, NEW m \in Message
  PROVE  Effect(o, m, OrderComplete(node, o, m))
<1> DEFINE release == node = "vendor" /\ deal.method = "MODERATED" /\ ~Has(o, "DISPUTE_OPEN")
           signed == \E f \in o.first : f.from = m.from /\ f.k = m.k
           handle == IF release /\ o.first = {} THEN Fail(o)
                     ELSE [Done(Put(o, m)) EXCEPT
                             !.spend = IF release /\ signed THEN {TxOf(m)} ELSE {}]
<1>1. Effect(o, m, handle)
  BY PutEffect, SameLeads, DoneEffect DEF Effect, Done
<1>2. Effect(o, m, Receive(o, m, {"ORDER_CANCEL"}, handle))
  <2> HIDE DEF handle
  <2> QED BY <1>1, ReceiveEffect
<1> QED BY <1>2 DEF OrderComplete

LEMMA DisputeOpenEffect ==
  ASSUME NEW node \in Node, NEW o \in Order, NEW m \in Message
  PROVE  Effect(o, m, DisputeOpen(node, o, m))
<1> DEFINE update == Msg("DISPUTE_UPDATE", node, 1, 0, {})
           handle == IF deal.method # "MODERATED" THEN Fail(o)
                     ELSE IF m.by = node THEN Done(Put(o, m))
                     ELSE IF ~CanMarshal(o) THEN Fail(o)
                     ELSE Done(Put(Put(o, update), m))
<1>1. update \in Message /\ update.type = "DISPUTE_UPDATE"
  BY MsgType DEF MessageType
<1>2. Effect(o, m, Done(Put(Put(o, update), m)))
  BY <1>1, SameLeads, PutLeads, DoneEffect
<1>3. Effect(o, m, handle)
  BY <1>2, PutEffect, SameLeads, DoneEffect
<1>4. Effect(o, m, Receive(o, m, {"ORDER_COMPLETE", "ORDER_REJECT", "ORDER_CANCEL"}, handle))
  <2> HIDE DEF handle
  <2> QED BY <1>3, ReceiveEffect
<1> QED BY <1>4 DEF DisputeOpen

LEMMA RefundEffect ==
  ASSUME NEW node \in Node, NEW o \in Order, NEW m \in Message, chain \subseteq Tx
  PROVE  Effect(o, m, Refund(node, o, m))
<1> DEFINE handle == IF IsRepeat(deal.method, o, m) THEN Done(o)
                     ELSE [Done(RecordSpend(Put(o, m), m, "DIRECT")) EXCEPT
                             !.spend = IF node = "buyer" /\ deal.method = "MODERATED"
                                       THEN {TxOf(m)} ELSE {}]
<1>1. Leads(o, m, RecordSpend(Put(o, m), m, "DIRECT"), {})
  BY PutEffect, RecordSpendLeads
<1>2. Effect(o, m, handle)
  BY <1>1, SameLeads, DoneEffect DEF Effect, Done
<1>3. Effect(o, m, Receive(o, m, {"ORDER_CANCEL"}, handle))
  <2> HIDE DEF handle
  <2> QED BY <1>2, ReceiveEffect
<1> QED BY <1>3 DEF Refund

LEMMA PaymentSentEffect ==
  ASSUME NEW node \in Node, NEW o \in Order, NEW m \in Message, chain \subseteq Tx
  PROVE  Effect(o, m, PaymentSent(node, o, m))
<1> DEFINE p == CHOOSE q \in m.from : TRUE
           handle == IF IsRepeat(deal.method, o, m) THEN Done(o)
                     ELSE IF PaymentTx(p) \notin chain THEN Done(Put(o, m))
                     ELSE IncomingPayment(node, Put(o, m), p)
<1>1. ASSUME PaymentTx(p) \in chain
      PROVE  Effect(o, m, IncomingPayment(node, Put(o, m), p))
  <2>1. PaymentTx(p) \in Tx => \E q \in Payments : PaymentTx(p) = PaymentTx(q)
    BY DEF Tx, PaymentTx, SpendType
  <2>2. \A q : PaymentTx(q).from = {q}
    BY DEF PaymentTx
  <2>3. p \in Payments
    BY <1>1, <2>1, <2>2
  <2> HIDE DEF p
  <2> QED BY <1>1, <2>3, PutEffect, IncomingPaymentEffect
<1>2. Effect(o, m, handle)
  BY <1>1, PutEffect, SameLeads, DoneEffect
<1>3. Effect(o, m, Receive(o, m, {}, handle))
  <2> HIDE DEF handle
  <2> QED BY <1>2, ReceiveEffect
<1> QED BY <1>3 DEF PaymentSent

LEMMA OrderFulfillmentEffect ==
  ASSUME NEW o \in Order, NEW m \in Message, m.type = "ORDER_FULFILLMENT"
  PROVE  Effect(o, m, OrderFulfillment(o, m))
<1> DEFINE handle == IF ~Has(o, "ORDER_CONFIRMATION") THEN Done(Park(o, m))
                     ELSE IF IsRepeat(deal.method, o, m) THEN Fail(o)
                     ELSE Done(Put(o, m))
<1>1. Effect(o, m, handle)
  BY PutEffect, ParkEffect, SameLeads, DoneEffect
<1>2. Effect(o, m, Receive(o, m, {"ORDER_REJECT"}, handle))
  <2> HIDE DEF handle
  <2> QED BY <1>1, ReceiveEffect
<1> QED BY <1>2 DEF OrderFulfillment

LEMMA ProcessEffect ==
  ASSUME NEW node \in Node, NEW o \in Order, NEW peer, NEW m \in Message, chain \subseteq Tx
  PROVE  Effect(o, m, Process(node, o, peer, m))
<1>1. Effect(o, m, OrderReject(o, m)) /\ Effect(o, m, RatingSignatures(o, m))
  BY PutEffect, ReceiveEffect DEF OrderReject, RatingSignatures
<1>2. Effect(o, m, OrderCancel(o, m)) /\ Effect(o, m, OrderConfirmation(o, m))
  <2>1. Effect(o, m, Done(Put(RecordSpend(o, m, "CANCELABLE"), m)))
    BY SameLeads, RecordSpendLeads, PutLeads, DoneEffect
  <2> QED BY <2>1, ReceiveEffect DEF OrderCancel, OrderConfirmation
<1>3. Effect(o, m, Fail(o))
  BY SameLeads, DoneEffect
<1> QED
  BY <1>1, <1>2, <1>3, OrderOpenEffect, OrderCompleteEffect, OrderFulfillmentEffect,
     DisputeOpenEffect, RefundEffect, PaymentSentEffect DEF Process

\* What a sound order keeps and gains on the way.
LEMMA LeadsFacts ==
  ASSUME NEW o, Sound(o), NEW m, NEW p, Sound(p), NEW send, Leads(o, m, p, send), Moves(o, p)
  PROVE  /\ Held(p) \subseteq Held(o) \cup {m} \cup send
         /\ Refunds(o) \subseteq Refunds(p) /\ Refunds(p) \subseteq Refunds(o) \cup {m}
         /\ m.type # "REFUND" => Refunds(p) = Refunds(o)
         /\ o.open => p.open
<1>1. Held(p) \subseteq Held(o) \cup {m} \cup send
  BY DEF Held, Leads
<1>2. \A x \in o.msgs : x.type # "RATING_SIGNATURES" => x \in p.msgs
  BY DEF Moves, Grows, BuyerRecord!Grows
<1>3. \A x \in p.msgs : x.type = "REFUND" => x \in o.msgs \cup {m}
  BY DEF Leads, Automatic
<1> QED BY <1>1, <1>2, <1>3 DEF Refunds, Sound, Has

-----------------------------------------------------------------------------
(* Nothing is held that was not sent *)

\* Every message on its way, stored or parked is one that was sent, or that the
\* transaction in progress is about to send.
SentInv ==
  /\ net \subseteq issued
  /\ \A n \in Node : Held(order[n]) \subseteq issued
  /\ Held(tx.work) \subseteq issued \cup tx.out
  /\ \A c \in tx.todo : c[1] \in issued \cup tx.out
  /\ tx.next \subseteq tx.out

\* The two kinds of message that release the money of a cancelable order.
Releases(ms) == {m \in ms : m.type \in {"ORDER_CONFIRMATION", "ORDER_CANCEL"}}

\* A release that was sent names an output that is spent, and one about to be
\* sent is about to spend it.
ReleaseInv ==
  deal.method = "CANCELABLE" =>
    /\ \A m \in Releases(issued) : m.from \cap Spends(chain) # {}
    /\ \A m \in Releases(tx.out) : m.from # {} /\ TxOf(m) \in tx.spend

LEMMA ErrorsFields ==
  ASSUME NEW o \in Order, NEW ms
  PROVE  PutErrors(o, ms).txs = o.txs /\ PutErrors(o, ms).parked = o.parked
BY DEF PutErrors, Order

LEMMA BroadcastGrows ==
  ASSUME NEW spend
  PROVE  chain \subseteq Broadcast(spend) /\ (spend = {} => Broadcast(spend) = chain)
BY DEF Broadcast

LEMMA SpendsGrow ==
  ASSUME NEW s, NEW t, s \subseteq t
  PROVE  Spends(s) \subseteq Spends(t)
BY DEF Spends

\* ProcessMessage on a sound order, and on a parked message.
LEMMA EnterEffect ==
  ASSUME NEW node \in Node, NEW o, Sound(o), NEW peer, NEW m \in Message,
         NEW next, NEW out, NEW spend, chain \subseteq Tx,
         Enter(node, o, peer, m, next, out, spend)
  PROVE  \E send :
           /\ tx'.on = node /\ tx'.peer = peer /\ tx'.next = next /\ tx'.spend = spend
           /\ tx'.out = out \cup send /\ tx'.todo \subseteq tx'.work.parked
           /\ Leads(o, m, tx'.work, send) /\ Sound(tx'.work) /\ Moves(o, tx'.work)
           /\ chain \subseteq chain' /\ (deal.method # "MODERATED" => chain' = chain)
<1> DEFINE r == IF o = NoOrder /\ m.type # "ORDER_OPEN"
                THEN Done(Park(o, m)) ELSE Process(node, o, peer, m)
<1>1. Effect(o, m, r)
  BY ParkEffect, ProcessEffect DEF Sound, NoOrder
<1>2. Good(o, r)
  BY ParkGood, ProcessGood
<1>3. /\ tx' = [on |-> node, work |-> r.o, peer |-> peer, trigger |-> {m},
                todo |-> {c \in r.o.parked : c[1] # m}, next |-> next,
                out |-> out \cup r.send, spend |-> spend]
      /\ chain' = Broadcast(r.spend)
  BY DEF Enter
<1> HIDE DEF r
<1>4. chain \subseteq chain' /\ (deal.method # "MODERATED" => chain' = chain)
  BY <1>1, <1>3, BroadcastGrows DEF Effect
<1> WITNESS r.send
<1> QED BY <1>1, <1>2, <1>3, <1>4 DEF Effect, Good

LEMMA ReprocessEffect ==
  ASSUME Inv, Reprocess
  PROVE  \E c \in tx.todo, send \in SUBSET Message :
           /\ c[1] \in Message
           /\ tx'.on = tx.on /\ tx'.peer = tx.peer /\ tx'.next = tx.next /\ tx'.spend = tx.spend
           /\ tx'.out = tx.out \cup send /\ tx'.todo \subseteq tx.todo
           /\ Leads(tx.work, c[1], tx'.work, send)
           /\ Sound(tx'.work) /\ Moves(tx.work, tx'.work)
           /\ chain \subseteq chain' /\ (deal.method # "MODERATED" => chain' = chain)
<1>1. PICK c \in tx.todo :
        LET r == Process(tx.on, tx.work, tx.peer, c[1])
        IN  /\ tx' = [tx EXCEPT !.work = IF r.ok THEN r.o ELSE PutErrors(r.o, tx.trigger),
                                !.todo = @ \ {c}, !.out = @ \cup r.send]
            /\ chain' = Broadcast(r.spend)
  BY DEF Reprocess
<1> DEFINE r == Process(tx.on, tx.work, tx.peer, c[1])
           w == IF r.ok THEN r.o ELSE PutErrors(r.o, tx.trigger)
<1>2. tx \in TxState /\ chain \subseteq Tx /\ Sound(tx.work)
  BY DEF Inv, TypeOK
<1>3. c[1] \in Message
  BY <1>2 DEF TxState, Parked
<1>4. tx.on \in Node
  <2>1. tx # Idle BY <1>1 DEF Idle
  <2> QED BY <1>2, <2>1 DEF Inv, TxState
<1>5. Good(tx.work, r) /\ Effect(tx.work, c[1], r)
  BY <1>2, <1>3, <1>4, ProcessGood, ProcessEffect DEF Sound
<1>6. /\ tx' = [tx EXCEPT !.work = w, !.todo = @ \ {c}, !.out = @ \cup r.send]
      /\ chain' = Broadcast(r.spend)
  BY <1>1
<1> HIDE DEF r
<1>7. /\ Sound(w) /\ w.msgs = r.o.msgs /\ w.txs = r.o.txs /\ w.parked = r.o.parked
  BY <1>2, <1>5, ErrorsGood, ErrorsFields DEF Good, Sound, TxState
<1> HIDE DEF w
<1>8. /\ tx'.on = tx.on /\ tx'.peer = tx.peer /\ tx'.next = tx.next
      /\ tx'.spend = tx.spend /\ tx'.todo \subseteq tx.todo
      /\ tx'.work = w /\ tx'.out = tx.out \cup r.send
  BY <1>2, <1>6 DEF TxState
<1>9. chain \subseteq chain' /\ (deal.method # "MODERATED" => chain' = chain)
  BY <1>5, <1>6, BroadcastGrows DEF Effect
<1>10. Leads(tx.work, c[1], tx'.work, r.send) /\ Moves(tx.work, tx'.work)
  BY <1>5, <1>7, <1>8 DEF Effect, Leads, Good, Moves
<1> QED BY <1>3, <1>5, <1>7, <1>8, <1>9, <1>10 DEF Good

LEMMA WalletTransactionEffect ==
  ASSUME Inv, NEW node \in Node, NEW t \in chain, WalletTransaction(node, t)
  PROVE  \E p, send, m :
           /\ order' = [order EXCEPT ![node] = p]
           /\ net' = net \cup send /\ issued' = issued \cup send
           /\ m \in order[node].msgs /\ m.type = "ORDER_OPEN"
           /\ Leads(order[node], m, p, send) /\ Sound(p) /\ Moves(order[node], p)
           /\ tx = Idle /\ UNCHANGED <<deal, tx, calls, redeliveries, chain>>
<1>1. PICK o : o = order[node]
  OBVIOUS
<1> DEFINE r == IF t.kind = "pay"
                THEN IncomingPayment(node, o, CHOOSE p \in t.from : TRUE)
                ELSE OutgoingPayment(o, t)
<1>2. t \in Tx /\ Sound(o) /\ o \in Order /\ o.open
  BY <1>1 DEF Inv, TypeOK, WalletTransaction, Unknown
<1>3. PICK m \in o.msgs : m.type = "ORDER_OPEN"
  BY <1>2 DEF Sound, Has
<1>4. Good(o, r) /\ Effect(o, m, r)
  <2>1. CASE t.kind = "pay"
    <3>1. PICK p \in Payments : t = PaymentTx(p) /\ p = CHOOSE q \in t.from : TRUE
      BY <1>2, <2>1, PaymentOnChain
    <3>2. r = IncomingPayment(node, o, p)
      BY <2>1, <3>1
    <3> HIDE DEF r
    <3> QED BY <1>2, <3>1, <3>2, IncomingPaymentGood, IncomingPaymentEffect, SameLeads
  <2>2. CASE t.kind # "pay"
    <3> DEFINE q == PutTransaction(o, t)
    <3>1. r = Done(q)
      BY <2>2 DEF OutgoingPayment
    <3>2. Sound(q) /\ q.msgs = o.msgs /\ q.parked = o.parked /\ q.txs = o.txs \cup {t}
      BY <1>2, TransactionGood DEF PutTransaction, Order
    <3> HIDE DEF r, q
    <3>3. Leads(o, m, q, {})
      BY <3>2 DEF Leads
    <3> QED BY <3>1, <3>2, <3>3, DoneGood, DoneEffect DEF Moves
  <2> QED BY <2>1, <2>2
<1>5. /\ order' = [order EXCEPT ![node] = r.o]
      /\ net' = net \cup r.send /\ issued' = issued \cup r.send
      /\ tx = Idle /\ UNCHANGED <<deal, tx, calls, redeliveries, chain>>
  BY <1>1 DEF WalletTransaction, r
<1> HIDE DEF r
<1>6. Leads(o, m, r.o, r.send) /\ Sound(r.o) /\ Moves(o, r.o)
  BY <1>4 DEF Effect, Good
<1> QED BY <1>1, <1>3, <1>5, <1>6

\* What a call builds: messages of its own type and its own signature, a refund
\* among them, and in a cancelable sale no release that releases nothing.
LEMMA CallMessagesBuilt ==
  ASSUME NEW c \in Call, NEW m \in CallMessages(c)
  PROVE  /\ m.type = OpType[c.op] /\ m.type \notin Automatic \ {"ORDER_REJECT"}
         /\ c.op = "refund" \/ m.by = c.node
         /\ m.type \in {"ORDER_CONFIRMATION", "ORDER_CANCEL"} /\ deal.method = "CANCELABLE"
              => m.from # {} /\ CallSpends(m) = {TxOf(m)}
<1>1. \A s : \A x \in RefundMessages(s) : x.type = "REFUND"
  BY DEF RefundMessages, Msg
<1>2. \A k, from : /\ Answer(c, k, from).type = OpType[c.op]
                   /\ Answer(c, k, from).by = c.node
                   /\ Answer(c, k, from).from = from
  BY DEF Answer, Msg
<1>3. c.op \in Op
  BY DEF Call
<1>4. c.op = "refund" => m.type = OpType[c.op]
  BY <1>1 DEF CallMessages, OpType
<1>5. c.op # "refund" => m.type = OpType[c.op] /\ m.by = c.node
  BY <1>2 DEF CallMessages, ConfirmMessages, CancelMessages, RejectMessages,
              FulfillMessages, CompleteMessages, DisputeMessages
<1>6. m.type \in {"ORDER_CONFIRMATION", "ORDER_CANCEL"} => c.op \in {"confirm", "cancel"}
  BY <1>3, <1>4, <1>5 DEF Op, OpType
<1>7. c.op \in {"confirm", "cancel"} /\ deal.method = "CANCELABLE" => m.from # {}
  BY <1>2 DEF CallMessages, ConfirmMessages, CancelMessages
<1> QED BY <1>3, <1>4, <1>5, <1>6, <1>7 DEF CallSpends, Op, OpType, Automatic

-----------------------------------------------------------------------------
(* Each step keeps SentInv and ReleaseInv *)

\* A step that changes nothing but the transaction in progress, and what the
\* wallets and the calls are about.
LEMMA TxSent ==
  ASSUME SentInv, ReleaseInv, UNCHANGED <<deal, order, issued>>, net' \subseteq net,
         chain \subseteq chain',
         Held(tx'.work) \subseteq issued \cup tx'.out,
         \A c \in tx'.todo : c[1] \in issued \cup tx'.out,
         tx'.next \subseteq tx'.out,
         deal.method = "CANCELABLE" =>
           \A m \in Releases(tx'.out) : m.from # {} /\ TxOf(m) \in tx'.spend
  PROVE  SentInv' /\ ReleaseInv'
<1>1. Spends(chain) \subseteq Spends(chain')
  BY SpendsGrow
<1> QED BY <1>1 DEF SentInv, ReleaseInv, Releases

LEMMA EnterSent ==
  ASSUME SentInv, ReleaseInv, Inv, NEW node \in Node, NEW o, Sound(o), NEW peer,
         NEW m \in Message, NEW next, NEW out, NEW spend,
         Enter(node, o, peer, m, next, out, spend),
         UNCHANGED <<deal, order, issued>>, net' \subseteq net,
         Held(o) \cup {m} \subseteq issued \cup out, next \subseteq out,
         deal.method = "CANCELABLE" =>
           \A x \in Releases(out) : x.from # {} /\ TxOf(x) \in spend
  PROVE  SentInv' /\ ReleaseInv'
<1>1. PICK send :
        /\ tx'.on = node /\ tx'.peer = peer /\ tx'.next = next /\ tx'.spend = spend
        /\ tx'.out = out \cup send /\ tx'.todo \subseteq tx'.work.parked
        /\ Leads(o, m, tx'.work, send) /\ Sound(tx'.work) /\ Moves(o, tx'.work)
        /\ chain \subseteq chain' /\ (deal.method # "MODERATED" => chain' = chain)
  <2>1. chain \subseteq Tx
    BY DEF Inv, TypeOK
  <2> QED BY <2>1, EnterEffect
<1>2. PICK p : p = tx'.work
  OBVIOUS
<1>3. Held(p) \subseteq Held(o) \cup {m} \cup send
  BY <1>1, <1>2, LeadsFacts
<1>4. /\ Held(tx'.work) \subseteq issued \cup tx'.out
      /\ \A c \in tx'.todo : c[1] \in issued \cup tx'.out
  BY <1>1, <1>2, <1>3 DEF Held
<1>5. Releases(tx'.out) \subseteq Releases(out)
  BY <1>1 DEF Releases, Leads, Automatic
<1> QED BY <1>1, <1>4, <1>5, TxSent

LEMMA RunCallSent ==
  ASSUME SentInv, ReleaseInv, Inv, NEW c \in calls, RunCall(c)
  PROVE  SentInv' /\ ReleaseInv'
<1>1. PICK node, o : node = c.node /\ o = order[node]
  OBVIOUS
<1>2. /\ c \in Call /\ node \in Node /\ c.seen \in Order /\ IsFiniteSet(issued)
      /\ Sound(o) /\ Held(o) \subseteq issued
  BY <1>1 DEF Inv, TypeOK, Call, SentInv
<1>3. UNCHANGED <<deal, order, net, issued>>
  BY DEF RunCall
<1>4. CASE UNCHANGED <<tx, chain>>
  BY <1>3, <1>4 DEF SentInv, ReleaseInv
<1>5. ASSUME NEW m \in CallMessages(c), NEW next, NEW out, NEW spend,
             Enter(node, o, node, m, next, out, spend),
             m \in out, next \subseteq out,
             deal.method = "CANCELABLE" => out = {m} /\ spend = CallSpends(m)
      PROVE  SentInv' /\ ReleaseInv'
  <2>1. m \in Message
    BY <1>2, CallMessagesType
  <2>2. deal.method = "CANCELABLE" =>
          \A x \in Releases(out) : x.from # {} /\ TxOf(x) \in spend
    BY <1>2, <1>5, CallMessagesBuilt DEF Releases
  <2> QED BY <1>2, <1>3, <1>5, <2>1, <2>2, EnterSent
<1>6. CASE \E m \in CallMessages(c) :
             Enter(c.node, order[c.node], c.node, m, {}, {m}, CallSpends(m))
  BY <1>1, <1>5, <1>6
<1>7. CASE /\ AlsoRefunds(c)
           /\ \E m \in CallMessages(c), r \in RefundMessages(c.seen) :
                Enter(c.node, order[c.node], c.node, m, {r}, {m, r}, CallSpends(r))
  BY <1>1, <1>5, <1>7 DEF AlsoRefunds
<1> QED BY <1>4, <1>6, <1>7 DEF RunCall

LEMMA WalletTransactionSent ==
  ASSUME SentInv, ReleaseInv, Inv, NEW node \in Node, NEW t \in chain,
         WalletTransaction(node, t)
  PROVE  SentInv' /\ ReleaseInv'
<1>1. PICK p, send, m :
        /\ order' = [order EXCEPT ![node] = p]
        /\ net' = net \cup send /\ issued' = issued \cup send
        /\ m \in order[node].msgs /\ m.type = "ORDER_OPEN"
        /\ Leads(order[node], m, p, send) /\ Sound(p) /\ Moves(order[node], p)
        /\ UNCHANGED <<deal, tx, calls, redeliveries, chain>>
  BY WalletTransactionEffect
<1>2. PICK o : o = order[node] /\ Sound(o)
  BY DEF Inv
<1>3. Held(p) \subseteq Held(o) \cup {m} \cup send /\ m \in Held(o)
  BY <1>1, <1>2, LeadsFacts DEF Held
<1>4. order \in [Node -> Order] /\ Held(o) \subseteq issued
  BY <1>2 DEF Inv, TypeOK, SentInv
<1>5. Releases(issued') = Releases(issued)
  BY <1>1 DEF Releases, Automatic, Leads
<1>6. SentInv'
  BY <1>1, <1>3, <1>4 DEF SentInv
<1>7. ReleaseInv'
  BY <1>1, <1>5 DEF ReleaseInv
<1> QED BY <1>6, <1>7

LEMMA CommitSent ==
  ASSUME SentInv, ReleaseInv, Inv, Commit
  PROVE  SentInv' /\ ReleaseInv'
<1>1. tx.on \in Node /\ tx \in TxState /\ order \in [Node -> Order]
  BY DEF Inv, TypeOK, TxState, Commit
<1>2. /\ order' = [order EXCEPT ![tx.on] = tx.work]
      /\ net' = net \cup tx.out /\ issued' = issued \cup tx.out
      /\ chain' = Broadcast(tx.spend) /\ tx' = Idle
      /\ UNCHANGED <<deal, calls, redeliveries>>
  BY DEF Commit
<1>3. SentInv'
  <2>1. Held(tx'.work) = {} /\ tx'.todo = {} /\ tx'.next = {}
    BY <1>2 DEF Idle, NoOrder, Held
  <2>2. \A n \in Node : order'[n] = IF n = tx.on THEN tx.work ELSE order[n]
    BY <1>1, <1>2
  <2> QED BY <1>2, <2>1, <2>2 DEF SentInv
<1>4. ASSUME deal.method = "CANCELABLE", NEW m \in Releases(issued')
      PROVE  m.from \cap Spends(chain') # {}
  <2>1. Spends(chain) \subseteq Spends(chain')
    BY <1>2, BroadcastGrows, SpendsGrow
  <2>2. CASE m \in issued
    BY <1>4, <2>1, <2>2 DEF ReleaseInv, Releases
  <2>3. CASE m \in tx.out
    <3>1. m.from # {} /\ TxOf(m) \in tx.spend /\ m.type # "pay"
      BY <1>4, <2>3 DEF ReleaseInv, Releases
    <3>2. TxOf(m).from = m.from /\ TxOf(m).kind = m.type
      BY DEF TxOf
    <3>3. CASE m.from \cap Spends(chain) = {}
      <4>1. TxOf(m) \in chain'
        BY <1>2, <3>1, <3>2, <3>3 DEF Broadcast
      <4>2. m.from \subseteq Spends(chain')
        BY <3>1, <3>2, <4>1 DEF Spends
      <4> QED BY <3>1, <4>2
    <3> QED BY <2>1, <3>3
  <2> QED BY <1>2, <1>4, <2>2, <2>3 DEF Releases
<1>5. Releases(tx'.out) = {}
  BY <1>2 DEF Idle, Releases
<1> QED BY <1>2, <1>3, <1>4, <1>5 DEF ReleaseInv

LEMMA NextSent ==
  ASSUME SentInv, ReleaseInv, Inv, [Next]_vars
  PROVE  SentInv' /\ ReleaseInv'
<1>1. /\ order \in [Node -> Order] /\ tx \in TxState /\ chain \subseteq Tx
      /\ net \subseteq Message /\ Sound(tx.work)
  BY DEF Inv, TypeOK
<1>2. CASE UNCHANGED vars
  BY <1>2 DEF vars, SentInv, ReleaseInv
<1>3. CASE Purchase
  <2> DEFINE m == Msg("ORDER_OPEN", "buyer", 1, 0, {})
  <2>1. m \in Message /\ m.type = "ORDER_OPEN" /\ Releases({m}) = {}
    BY MsgType DEF MessageType, Node, Releases
  <2>2. Held(NoOrder) = {} /\ "buyer" \in Node
    BY DEF NoOrder, Held, Node
  <2>3. Enter("buyer", NoOrder, "buyer", m, {}, {m}, {}) /\ UNCHANGED <<deal, order, issued, net>>
    BY <1>3 DEF Purchase
  <2> HIDE DEF m
  <2> QED BY <2>1, <2>2, <2>3, NoOrderSound, EnterSent
<1>4. ASSUME NEW p \in Payments, Pay(p) PROVE SentInv' /\ ReleaseInv'
  <2>1. UNCHANGED <<deal, order, issued, net, tx>> /\ chain \subseteq chain'
    BY <1>4 DEF Pay
  <2> QED BY <2>1, TxSent DEF SentInv, ReleaseInv
<1>5. ASSUME NEW node \in Node, NEW op \in Op, StartCall(node, op)
      PROVE  SentInv' /\ ReleaseInv'
  <2>1. UNCHANGED <<deal, order, issued, net, tx, chain>>
    BY <1>5 DEF StartCall
  <2> QED BY <2>1 DEF SentInv, ReleaseInv
<1>6. ASSUME NEW m \in net, Deliver(m) PROVE SentInv' /\ ReleaseInv'
  <2>1. PICK node, peer, o : node = Other(m.by) /\ peer = m.by /\ o = order[node]
    OBVIOUS
  <2>2. /\ node \in Node /\ m \in Message /\ Sound(o)
        /\ Held(o) \cup {m} \subseteq issued
    BY <1>1, <2>1 DEF Other, Node, Message, SentInv, Inv
  <2>3. /\ Enter(node, o, peer, m, {}, {}, {})
        /\ UNCHANGED <<deal, order, issued>> /\ net' \subseteq net
    BY <1>6, <2>1 DEF Deliver
  <2> QED BY <2>2, <2>3, EnterSent DEF Releases
<1>7. CASE Reprocess
  <2>1. PICK c \in tx.todo, send \in SUBSET Message :
          /\ tx'.next = tx.next /\ tx'.spend = tx.spend /\ tx'.todo \subseteq tx.todo
          /\ tx'.out = tx.out \cup send
          /\ Leads(tx.work, c[1], tx'.work, send)
          /\ Sound(tx'.work) /\ Moves(tx.work, tx'.work)
          /\ chain \subseteq chain'
    BY <1>7, ReprocessEffect
  <2>2. UNCHANGED <<deal, order, issued, net>>
    BY <1>7 DEF Reprocess
  <2>3. Releases(tx'.out) \subseteq Releases(tx.out)
    BY <2>1 DEF Releases, Automatic, Leads
  <2>4. /\ Held(tx'.work) \subseteq issued \cup tx'.out
        /\ \A d \in tx'.todo : d[1] \in issued \cup tx'.out
        /\ tx'.next \subseteq tx'.out
    <3>1. PICK o, p, m : o = tx.work /\ p = tx'.work /\ m = c[1]
      OBVIOUS
    <3>2. Held(p) \subseteq Held(o) \cup {m} \cup send
      BY <1>1, <2>1, <3>1, LeadsFacts
    <3> QED BY <2>1, <3>1, <3>2 DEF SentInv
  <2>5. deal.method = "CANCELABLE" =>
          \A m \in Releases(tx'.out) : m.from # {} /\ TxOf(m) \in tx'.spend
    BY <2>1, <2>3 DEF ReleaseInv
  <2> QED BY <2>1, <2>2, <2>4, <2>5, TxSent
<1>8. CASE ProcessNext
  <2>1. PICK m \in tx.next : Enter(tx.on, tx.work, tx.peer, m, tx.next \ {m}, tx.out, tx.spend)
    BY <1>8 DEF ProcessNext
  <2>2. PICK node, o, peer, next, out, spend :
          /\ node = tx.on /\ o = tx.work /\ peer = tx.peer
          /\ next = tx.next \ {m} /\ out = tx.out /\ spend = tx.spend
    OBVIOUS
  <2>3. node \in Node /\ Sound(o) /\ m \in Message
    BY <1>1, <1>8, <2>1, <2>2 DEF TxState, ProcessNext
  <2>4. Enter(node, o, peer, m, next, out, spend)
    BY <2>1, <2>2
  <2>5. UNCHANGED <<deal, order, issued, net>>
    BY <1>8 DEF ProcessNext
  <2>6. Held(o) \cup {m} \subseteq issued \cup out /\ next \subseteq out
    BY <2>1, <2>2 DEF SentInv
  <2>7. deal.method = "CANCELABLE" =>
          \A x \in Releases(out) : x.from # {} /\ TxOf(x) \in spend
    BY <2>2 DEF ReleaseInv
  <2> QED BY <2>3, <2>4, <2>5, <2>6, <2>7, EnterSent
<1>9. CASE Abort
  <2>1. tx' = Idle /\ UNCHANGED <<deal, order, net, issued, chain>>
    BY <1>9 DEF Abort
  <2>2. Held(tx'.work) = {} /\ tx'.todo = {} /\ tx'.next = {} /\ tx'.out = {}
    BY <2>1 DEF Idle, NoOrder, Held
  <2> QED BY <2>1, <2>2, TxSent DEF Releases
<1> QED BY <1>2, <1>3, <1>4, <1>5, <1>6, <1>7, <1>8, <1>9, RunCallSent,
           WalletTransactionSent, CommitSent DEF Next

LEMMA SentInvariance == Spec => [](SentInv /\ ReleaseInv)
<1>1. Init => SentInv /\ ReleaseInv
  BY DEF Init, Idle, NoOrder, Held, Releases, SentInv, ReleaseInv
<1>2. Inv /\ (SentInv /\ ReleaseInv) /\ [Next]_vars => (SentInv /\ ReleaseInv)'
  BY NextSent
<1> QED BY Invariance, <1>1, <1>2, PTL DEF Spec

\* A cancelable order that the buyer pays at once: when it is confirmed or
\* cancelled, whichever wins the race, no money is left in the payment address.
THEOREM CancelableMoneyLeaves ==
  ASSUME \A p, q \in Payments : p = q
  PROVE  Spec => []CancelableSettled
<1>1. Inv /\ SentInv /\ ReleaseInv => CancelableSettled
  <2> SUFFICES ASSUME Inv, SentInv, ReleaseInv, deal.method = "CANCELABLE", NEW node \in Node,
                      Has(order[node], "ORDER_CONFIRMATION") \/ Has(order[node], "ORDER_CANCEL")
               PROVE  Settled
    BY DEF CancelableSettled
  <2>1. PICK m \in order[node].msgs : m.type \in {"ORDER_CONFIRMATION", "ORDER_CANCEL"}
    BY DEF Has
  <2>2. m \in Releases(issued)
    BY <2>1 DEF SentInv, Held, Releases
  <2>3. m.from \cap Spends(chain) # {}
    BY <2>2 DEF ReleaseInv
  <2>4. /\ m.from \subseteq Payments /\ Paid(chain) \subseteq Payments
    <3>1. \A t \in Tx : t.from \subseteq Payments
      BY DEF Tx, PaymentTx
    <3>2. issued \subseteq Message /\ chain \subseteq Tx
      BY DEF Inv, TypeOK
    <3> QED BY <2>2, <3>1, <3>2 DEF Releases, Message, Paid
  <2> QED BY <2>3, <2>4 DEF Settled
<1> QED BY Invariance, SentInvariance, <1>1, PTL

-----------------------------------------------------------------------------
(* Sums of refunds *)

LEMMA UnitsFinite ==
  ASSUME NEW s, IsFiniteSet(s), \A x \in s : x.k \in Nat
  PROVE  IsFiniteSet(Units(s)) /\ Total(s) \in Nat
<1> DEFINE f == [x \in s |-> {x} \X (1..x.k)]
           rows == {{x} \X (1..x.k) : x \in s}
<1>1. f \in Surjection(s, rows)
  BY DEF Surjection
<1>2. IsFiniteSet(rows)
  <2> HIDE DEF f, rows
  <2> QED BY <1>1, FS_Surjection
<1>3. ASSUME NEW x \in s PROVE IsFiniteSet({x} \X (1..x.k))
  <2>1. IsFiniteSet({x}) BY FS_Singleton
  <2>2. IsFiniteSet(1..x.k) BY FS_Interval
  <2> QED BY <2>1, <2>2, FS_Product
<1>4. \A row \in rows : IsFiniteSet(row)
  BY <1>3
<1>5. IsFiniteSet(UNION rows)
  <2> HIDE DEF rows
  <2> QED BY <1>2, <1>4, FS_UNION
<1> QED BY <1>5, FS_CardinalityType DEF Units, Total

\* One more refund adds no more than its amount.
LEMMA TotalAdd ==
  ASSUME NEW s, IsFiniteSet(s), \A x \in s : x.k \in Nat, NEW m, m.k \in Nat
  PROVE  Total(s \cup {m}) <= Total(s) + m.k
<1> DEFINE row == {m} \X (1..m.k)
<1>1. Units(s \cup {m}) = Units(s) \cup row
  BY DEF Units
<1>2. IsFiniteSet({m}) /\ Cardinality({m}) = 1
  BY FS_Singleton
<1>3. IsFiniteSet(1..m.k) /\ Cardinality(1..m.k) = m.k
  BY FS_Interval
<1>4. IsFiniteSet(row) /\ Cardinality(row) = m.k
  BY <1>2, <1>3, FS_Product
<1>5. IsFiniteSet(Units(s)) /\ Total(s) \in Nat
  BY UnitsFinite
<1> HIDE DEF row
<1>6. /\ Cardinality(Units(s) \cup row)
           = Cardinality(Units(s)) + Cardinality(row) - Cardinality(Units(s) \cap row)
  BY <1>4, <1>5, FS_Union
<1>7. Cardinality(Units(s) \cap row) \in Nat
  <2>1. IsFiniteSet(Units(s) \cap row)
    BY <1>5, FS_Subset
  <2> QED BY <2>1, FS_CardinalityType
<1>8. Total(s \cup {m}) = Total(s) + m.k - Cardinality(Units(s) \cap row)
  BY <1>1, <1>4, <1>6 DEF Total
<1> QED BY <1>5, <1>7, <1>8

\* Transactions that messages name return no more than the messages do.
LEMMA TotalNamed ==
  ASSUME NEW s, IsFiniteSet(s), \A m \in s : m.k \in Nat,
         NEW txs, \A t \in txs : \E m \in s : t = TxOf(m)
  PROVE  Total(txs) \in Nat /\ Total(txs) <= Total(s)
<1> DEFINE f == [u \in Units(s) |-> <<TxOf(u[1]), u[2]>>]
           named == {f[u] : u \in Units(s)}
<1>1. f \in Surjection(Units(s), named)
  BY DEF Surjection
<1>2. IsFiniteSet(named) /\ Cardinality(named) <= Total(s)
  <2>1. IsFiniteSet(Units(s))
    BY UnitsFinite
  <2> HIDE DEF f, named
  <2> QED BY <1>1, <2>1, FS_Surjection DEF Total
<1>3. ASSUME NEW u \in Units(txs) PROVE u \in named
  <2>1. PICK t \in txs : \E i \in 1..t.k : u = <<t, i>>
    BY <1>3 DEF Units
  <2>2. PICK i \in 1..t.k : u = <<t, i>>
    BY <2>1
  <2>3. PICK m \in s : t = TxOf(m)
    OBVIOUS
  <2>4. <<m, i>> \in Units(s)
    BY <2>2, <2>3 DEF Units, TxOf
  <2>5. f[<<m, i>>] = u
    BY <2>2, <2>3, <2>4
  <2> QED BY <2>4, <2>5
<1>4. Total(txs) <= Cardinality(named)
  <2> HIDE DEF named
  <2> QED BY <1>2, <1>3, FS_Subset DEF Total
<1>5. Total(txs) \in Nat /\ Cardinality(named) \in Nat /\ Total(s) \in Nat
  <2> HIDE DEF named
  <2>1. Units(txs) \in SUBSET named
    BY <1>3
  <2>2. IsFiniteSet(Units(txs))
    BY <1>2, <2>1, FS_Subset
  <2> QED BY <1>2, <2>2, UnitsFinite, FS_CardinalityType DEF Total
<1> QED BY <1>2, <1>4, <1>5

\* The payments that transactions make are finitely many, and more with more
\* transactions.
LEMMA PaidGrows ==
  ASSUME NEW s, NEW t \in SUBSET Tx, s \subseteq t
  PROVE  /\ Cardinality(Paid(s)) \in Nat /\ Cardinality(Paid(t)) \in Nat
         /\ Cardinality(Paid(s)) <= Cardinality(Paid(t))
<1>1. \A x \in Tx : x.from \subseteq Payments
  BY DEF Tx, PaymentTx
<1>2. Paid(s) \subseteq Paid(t) /\ Paid(t) \subseteq Payments
  BY <1>1 DEF Paid
<1>3. IsFiniteSet(Paid(t))
  BY <1>2, OrderAssumption, FS_Subset
<1>4. IsFiniteSet(Paid(s)) /\ Cardinality(Paid(s)) <= Cardinality(Paid(t))
  BY <1>2, <1>3, FS_Subset
<1> QED BY <1>3, <1>4, FS_CardinalityType

-----------------------------------------------------------------------------
(* The inductive invariant about the refunds of a direct sale *)

\* Only the vendor refunds, with numbers in the order in which it does, and nobody
\* cancels. What its record returns is covered by what it knows to be paid, and
\* every refund of the chain is in it.
VendorBooks ==
  /\ \A m \in issued :
       /\ m.type # "ORDER_CANCEL"
       /\ m.type = "REFUND" => m.by = "vendor" /\ m.n <= Cardinality(Issued("REFUND", "vendor"))
  /\ \A n \in Node : order[n].txs \subseteq chain
  /\ \A c \in order["vendor"].parked : c[1].type # "REFUND"
  /\ \A t \in chain : t.kind = "REFUND" => \E m \in Refunds(order["vendor"]) : t = TxOf(m)
  /\ Total(Refunds(order["vendor"])) <= Cardinality(Paid(order["vendor"].txs))

\* A transaction in progress sends one refund at most, and spends what the refunds
\* it has stored, or is about to process, say. The draft is covered too, with the
\* refund that is still to be processed.
DraftBooks(t) ==
  /\ \A m \in t.out :
       /\ m.type # "ORDER_CANCEL"
       /\ m.type = "REFUND" => m.by = "vendor" /\ m.n = Serial("REFUND", "vendor")
  /\ \A m, x \in t.out : m.type = "REFUND" /\ x.type = "REFUND" => m = x
  /\ t.work.txs \subseteq chain
  /\ t.on \in Node => /\ order[t.on].txs \subseteq t.work.txs
                      /\ order[t.on].open => t.work.open
  /\ \A s \in t.spend : \E m \in t.next \cup Refunds(t.work) : s = TxOf(m)
  /\ t.next \subseteq t.out
  /\ \A m \in t.next : m.type = "REFUND" /\ t.peer = "vendor" /\ t.work.open
  /\ t.on # "vendor" => t.spend = {} /\ t.next = {}
  /\ t.on = "vendor" =>
       /\ \A c \in t.work.parked \cup t.todo : c[1].type # "REFUND"
       /\ Refunds(order["vendor"]) \subseteq Refunds(t.work)
       /\ Refunds(t.work) \subseteq Refunds(order["vendor"]) \cup t.out
       /\ Total(Refunds(t.work)) <= Cardinality(Paid(t.work.txs))
       /\ \A m \in t.next : Total(Refunds(t.work)) + m.k <= Cardinality(Paid(t.work.txs))

\* Each node has one call in flight. A call of the vendor has seen all refunds, and
\* no transaction adds one behind its back.
CallsSee ==
  /\ \A c, d \in calls : c.node = d.node => c = d
  /\ \A c \in calls :
       /\ c.op \in OpsOf(c.node) /\ order[c.node].open
       /\ c.node = "vendor" =>
            /\ \A m \in tx.out : m.type # "REFUND"
            /\ Refunds(c.seen) = Refunds(order["vendor"])
            /\ c.seen.txs \subseteq order["vendor"].txs

RefundInv == deal.method = "DIRECT" => VendorBooks /\ DraftBooks(tx) /\ CallsSee

-----------------------------------------------------------------------------
(* The vendor's own refund is stored *)

LEMMA RefundStored ==
  ASSUME NEW node \in Node, NEW o, Sound(o), o.open, ~Has(o, "ORDER_CANCEL"),
         NEW m \in Message, m.type = "REFUND", deal.method = "DIRECT", chain \subseteq Tx,
         \A x \in Refunds(o) : x.n = m.n => x = m
  PROVE  m \in Process(node, o, m.by, m).o.msgs
<1>1. Process(node, o, m.by, m).o = Refund(node, o, m).o
  BY DEF Process
<1>2. CASE IsRepeat(deal.method, o, m)
  <2>1. Refund(node, o, m).o = o
    BY <1>2 DEF Refund, Receive, ListType, Done
  <2>2. m \in o.msgs
    BY <1>2 DEF IsRepeat, Repeats, Refunds
  <2> QED BY <1>1, <2>1, <2>2
<1>3. CASE ~IsRepeat(deal.method, o, m)
  <2>1. Refund(node, o, m).o = RecordSpend(Put(o, m), m, "DIRECT")
    BY <1>3 DEF Refund, Receive, ListType, Done
  <2>2. Put(o, m) \in Order /\ m \in Put(o, m).msgs
    BY PutFields DEF Sound
  <2>3. RecordSpend(Put(o, m), m, "DIRECT").msgs = Put(o, m).msgs
    BY <2>2 DEF RecordSpend, PutTransaction, Order
  <2> QED BY <1>1, <2>1, <2>2, <2>3
<1> QED BY <1>2, <1>3

LEMMA EnterStores ==
  ASSUME NEW node \in Node, NEW o, Sound(o), o.open, ~Has(o, "ORDER_CANCEL"),
         NEW m \in Message, m.type = "REFUND", deal.method = "DIRECT", chain \subseteq Tx,
         \A x \in Refunds(o) : x.n = m.n => x = m,
         NEW peer, peer = m.by, NEW next, NEW out, NEW spend,
         Enter(node, o, peer, m, next, out, spend)
  PROVE  m \in tx'.work.msgs
<1>1. o # NoOrder
  BY DEF NoOrder
<1>2. tx'.work = Process(node, o, m.by, m).o
  BY <1>1 DEF Enter
<1> QED BY <1>2, RefundStored

-----------------------------------------------------------------------------
(* The steps of a transaction keep the books of its draft *)

\* The refunds of a draft are finitely many messages.
LEMMA DraftRefunds ==
  ASSUME Inv, SentInv, NEW t, DraftBooks(t), IsFiniteSet(t.out), t.on = "vendor", Sound(t.work)
  PROVE  /\ IsFiniteSet(Refunds(t.work))
         /\ \A m \in Refunds(t.work) : m.k \in Nat
         /\ Total(Refunds(t.work)) \in Nat
<1>1. Refunds(order["vendor"]) \subseteq issued /\ IsFiniteSet(issued)
  BY DEF Inv, SentInv, Node, Refunds, Held
<1>2. Refunds(t.work) \subseteq issued \cup t.out
  BY <1>1 DEF DraftBooks
<1>3. IsFiniteSet(issued \cup t.out)
  BY <1>1, FS_Union
<1>4. IsFiniteSet(Refunds(t.work))
  BY <1>2, <1>3, FS_Subset
<1>5. \A m \in Refunds(t.work) : m.k \in Nat
  BY DEF Refunds, Sound, Order, Message
<1> QED BY <1>4, <1>5, UnitsFinite

\* Processing a message that is not a refund for the vendor.
LEMMA DraftOther ==
  ASSUME Inv, SentInv, NEW t, DraftBooks(t), t.on \in Node, IsFiniteSet(t.out),
         t.next \subseteq Message, NEW u, NEW m, NEW send,
         Sound(t.work), Sound(u.work), Moves(t.work, u.work), Leads(t.work, m, u.work, send),
         u.on = t.on, u.peer = t.peer, u.spend = t.spend, u.next = t.next,
         u.out = t.out \cup send, u.todo \subseteq t.todo \cup u.work.parked,
         t.on = "vendor" => m.type # "REFUND"
  PROVE  DraftBooks(u)
<1>1. /\ Refunds(t.work) \subseteq Refunds(u.work)
      /\ m.type # "REFUND" => Refunds(u.work) = Refunds(t.work)
      /\ t.work.open => u.work.open
  BY LeadsFacts
<1>2. \A x \in send : x.type \in Automatic
  BY DEF Leads
<1>3. t.work.txs \subseteq u.work.txs /\ u.work.txs \subseteq t.work.txs \cup chain
  BY DEF Leads
<1>4. /\ u.work.txs \in SUBSET Tx
      /\ Cardinality(Paid(t.work.txs)) \in Nat /\ Cardinality(Paid(u.work.txs)) \in Nat
      /\ Cardinality(Paid(t.work.txs)) <= Cardinality(Paid(u.work.txs))
  BY <1>3, PaidGrows DEF Sound, Order
<1>5. /\ \A x \in u.out : /\ x.type # "ORDER_CANCEL"
                          /\ x.type = "REFUND" => x \in t.out
      /\ t.out \subseteq u.out
  BY <1>2 DEF DraftBooks, Automatic
<1>6. t.on = "vendor" =>
        /\ \A c \in u.work.parked \cup u.todo : c[1].type # "REFUND"
        /\ Refunds(order["vendor"]) \subseteq Refunds(u.work)
        /\ Refunds(u.work) \subseteq Refunds(order["vendor"]) \cup u.out
  BY <1>1, <1>5 DEF DraftBooks, Leads
<1>7. ASSUME t.on = "vendor"
      PROVE  /\ Total(Refunds(u.work)) <= Cardinality(Paid(u.work.txs))
             /\ \A x \in u.next : Total(Refunds(u.work)) + x.k <= Cardinality(Paid(u.work.txs))
  <2>1. PICK a, b, c : /\ a = Total(Refunds(t.work)) /\ b = Cardinality(Paid(t.work.txs))
                      /\ c = Cardinality(Paid(u.work.txs))
    OBVIOUS
  <2>2. a \in Nat /\ b \in Nat /\ c \in Nat /\ b <= c
    BY <1>4, <1>7, <2>1, DraftRefunds
  <2>3. a <= b /\ \A x \in t.next : a + x.k <= b
    BY <1>7, <2>1 DEF DraftBooks
  <2>4. \A x \in t.next : x.k \in Nat
    BY DEF Message
  <2>5. a <= c /\ \A x \in u.next : a + x.k <= c
    BY <2>2, <2>3, <2>4
  <2> QED BY <1>1, <1>7, <2>1, <2>5
<1> QED BY <1>1, <1>3, <1>5, <1>6, <1>7 DEF DraftBooks

\* Processing the refund of the vendor that is due.
LEMMA DraftOwn ==
  ASSUME Inv, SentInv, NEW t, DraftBooks(t), t.on = "vendor", IsFiniteSet(t.out),
         NEW m \in Message, m \in t.next, NEW u, NEW send,
         Sound(t.work), Sound(u.work), Moves(t.work, u.work), Leads(t.work, m, u.work, send),
         u.on = t.on, u.peer = t.peer, u.spend = t.spend, u.next = t.next \ {m},
         u.out = t.out \cup send, u.todo \subseteq t.todo \cup u.work.parked,
         m \in u.work.msgs
  PROVE  DraftBooks(u)
<1>1. m.type = "REFUND" /\ t.work.open /\ m \in t.out /\ u.next = {}
  BY DEF DraftBooks
<1>2. /\ Refunds(u.work) = Refunds(t.work) \cup {m} /\ u.work.open
  BY <1>1, LeadsFacts DEF Refunds
<1>3. \A x \in send : x.type \in Automatic
  BY DEF Leads
<1>4. t.work.txs \subseteq u.work.txs /\ u.work.txs \subseteq t.work.txs \cup chain
  BY DEF Leads
<1>5. /\ u.work.txs \in SUBSET Tx
      /\ Cardinality(Paid(t.work.txs)) \in Nat /\ Cardinality(Paid(u.work.txs)) \in Nat
      /\ Cardinality(Paid(t.work.txs)) <= Cardinality(Paid(u.work.txs))
  BY <1>4, PaidGrows DEF Sound, Order
<1>6. /\ \A x \in u.out : /\ x.type # "ORDER_CANCEL"
                          /\ x.type = "REFUND" => x \in t.out
      /\ t.out \subseteq u.out
  BY <1>3 DEF DraftBooks, Automatic
<1>7. /\ \A c \in u.work.parked \cup u.todo : c[1].type # "REFUND"
      /\ Refunds(order["vendor"]) \subseteq Refunds(u.work)
      /\ Refunds(u.work) \subseteq Refunds(order["vendor"]) \cup u.out
  BY <1>1, <1>2, <1>6 DEF DraftBooks, Leads
<1>8. Total(Refunds(u.work)) <= Cardinality(Paid(u.work.txs))
  <2>1. PICK s : s = Refunds(t.work) /\ IsFiniteSet(s) /\ (\A x \in s : x.k \in Nat)
                 /\ Total(s) \in Nat
    BY DraftRefunds
  <2>2. m.k \in Nat
    BY DEF Message
  <2>3. Total(s \cup {m}) <= Total(s) + m.k
    BY <2>1, <2>2, TotalAdd
  <2>4. Total(s) + m.k <= Cardinality(Paid(t.work.txs))
    BY <2>1 DEF DraftBooks
  <2>5. Total(s \cup {m}) \in Nat
    <3>1. IsFiniteSet(s \cup {m})
      BY <2>1, FS_AddElement
    <3> QED BY <2>1, <2>2, <3>1, UnitsFinite
  <2>6. PICK a, b, c, d : /\ a = Total(s) /\ b = Cardinality(Paid(t.work.txs))
                         /\ c = Cardinality(Paid(u.work.txs)) /\ d = Total(s \cup {m})
    OBVIOUS
  <2>7. d <= c
    BY <1>5, <2>1, <2>2, <2>3, <2>4, <2>5, <2>6
  <2> QED BY <1>2, <2>1, <2>6, <2>7
<1>9. \A x \in u.spend : \E y \in u.next \cup Refunds(u.work) : x = TxOf(y)
  BY <1>2 DEF DraftBooks
<1>10. /\ u.on = "vendor" /\ u.next = {} /\ u.work.txs \subseteq chain
       /\ order[u.on].txs \subseteq u.work.txs
  BY <1>1, <1>4 DEF DraftBooks, Node
<1> QED BY <1>2, <1>6, <1>7, <1>8, <1>9, <1>10 DEF DraftBooks

\* The arguments of ProcessMessage, as those of a transaction.
Given(t, node, o, peer, m, next, out, spend) ==
  /\ t.on = node /\ t.work = o /\ t.peer = peer /\ t.out = out /\ t.spend = spend
  /\ t.todo = {} /\ next = t.next \ {m}

\* ProcessMessage keeps the books of the draft it is given.
LEMMA EnterDraft ==
  ASSUME Inv, SentInv, VendorBooks, deal.method = "DIRECT",
         NEW t, DraftBooks(t), t.on \in Node, Sound(t.work), IsFiniteSet(t.out), t.next \subseteq Message,
         Held(t.work) \subseteq issued \cup t.out,
         NEW m \in Message, NEW next,
         t.on = "vendor" /\ m.type = "REFUND" => m \in t.next,
         NEW node, NEW o, NEW peer, NEW out, NEW spend,
         Given(t, node, o, peer, m, next, out, spend),
         Enter(node, o, peer, m, next, out, spend)
  PROVE  /\ chain' = chain /\ DraftBooks(tx')
         /\ \A x \in tx'.out : x.type = "REFUND" => x \in out
<1>1. chain \subseteq Tx /\ node \in Node /\ Sound(o)
  BY DEF Inv, TypeOK, Given
<1>2. PICK send :
        /\ tx'.on = node /\ tx'.peer = peer /\ tx'.next = next /\ tx'.spend = spend
        /\ tx'.out = out \cup send /\ tx'.todo \subseteq tx'.work.parked
        /\ Leads(o, m, tx'.work, send) /\ Sound(tx'.work) /\ Moves(o, tx'.work)
        /\ chain \subseteq chain' /\ (deal.method # "MODERATED" => chain' = chain)
  BY <1>1, EnterEffect
<1>4. \A x \in tx'.out : x.type = "REFUND" => x \in out
  BY <1>2 DEF Leads, Automatic
<1>3. PICK u : u = tx'
  OBVIOUS
<1>5. CASE m \notin t.next
  <2>1. next = t.next /\ (t.on = "vendor" => m.type # "REFUND")
    BY <1>5 DEF Given
  <2>2. DraftBooks(u)
    BY <1>2, <1>3, <2>1, DraftOther DEF Given
  <2> QED BY <1>2, <1>3, <1>4, <2>2
<1>6. CASE m \in t.next
  <2>1. /\ t.on = "vendor" /\ m.type = "REFUND" /\ m \in t.out /\ t.work.open
        /\ m.by = "vendor" /\ t.peer = "vendor" /\ m.n = Serial("REFUND", "vendor")
    BY <1>6 DEF DraftBooks
  <2>2. ~Has(o, "ORDER_CANCEL")
    BY DEF VendorBooks, DraftBooks, Held, Has, Given
  <2>3. \A x \in Refunds(o) : x.n = m.n => x = m
    <3>1. Cardinality(Issued("REFUND", "vendor")) \in Nat
      <4>1. IsFiniteSet(Issued("REFUND", "vendor"))
        BY FS_Subset DEF Issued, Inv
      <4> QED BY <4>1, FS_CardinalityType
    <3>2. \A x \in issued : x.type = "REFUND" => x.n # m.n
      <4>1. \A x \in issued : x.n \in Nat
        BY DEF Inv, TypeOK, Message
      <4> QED BY <2>1, <3>1, <4>1 DEF VendorBooks, Serial
    <3>3. \A x \in t.out : x.type = "REFUND" => x = m
      BY <2>1 DEF DraftBooks
    <3> QED BY <3>2, <3>3 DEF Refunds, Held, Given
  <2>4. m \in tx'.work.msgs
    BY <1>1, <2>1, <2>2, <2>3, EnterStores DEF Given
  <2>5. DraftBooks(u)
    BY <1>2, <1>3, <1>6, <2>1, <2>4, DraftOwn DEF Given
  <2> QED BY <1>2, <1>3, <1>4, <2>5
<1> QED BY <1>5, <1>6

-----------------------------------------------------------------------------
(* Each step keeps RefundInv *)

\* An idle node has a draft without books to keep.
LEMMA IdleDraft == DraftBooks(Idle)
BY DEF DraftBooks, Idle, NoOrder, Refunds, Node

\* A refund of the vendor that is due: its books cover it.
Covered(r) ==
  /\ r \in Message /\ order["vendor"].open
  /\ r.type = "REFUND" /\ r.by = "vendor" /\ r.n = Serial("REFUND", "vendor")
  /\ Total(Refunds(order["vendor"])) + r.k <= Cardinality(Paid(order["vendor"].txs))

\* An idle node processes m, which may be a refund that is due, or be followed by one.
Opens(node, o, peer, m, next, out, spend) ==
  LET due == {x \in out : x.type = "REFUND"}
  IN  /\ o = order[node] /\ IsFiniteSet(out) /\ \A x \in out : x.type # "ORDER_CANCEL"
      /\ \A x, y \in due : x = y
      /\ \A x \in due : node = "vendor" /\ peer = "vendor" /\ Covered(x)
      /\ spend = {TxOf(x) : x \in due} /\ next = due \ {m}
      /\ node = "vendor" /\ m.type = "REFUND" => m \in out

LEMMA StartDraft ==
  ASSUME VendorBooks, NEW node \in Node, NEW t,
         t.on = node, t.work = order[node], t.todo = {},
         \A m \in t.out : m.type # "ORDER_CANCEL",
         \A m \in t.out : m.type = "REFUND" => m \in t.next,
         t.next \subseteq t.out, \A m, x \in t.next : m = x,
         t.spend = {TxOf(m) : m \in t.next},
         \A m \in t.next : node = "vendor" /\ t.peer = "vendor" /\ Covered(m)
  PROVE  DraftBooks(t)
<1>1. /\ \A m, x \in t.out : m.type = "REFUND" /\ x.type = "REFUND" => m = x
      /\ t.on # "vendor" => t.spend = {} /\ t.next = {}
      /\ \A s \in t.spend : \E m \in t.next \cup Refunds(t.work) : s = TxOf(m)
  OBVIOUS
<1> QED BY <1>1 DEF DraftBooks, VendorBooks, Covered

LEMMA EnterStart ==
  ASSUME Inv, SentInv, VendorBooks, deal.method = "DIRECT",
         NEW node \in Node, NEW o, NEW peer, NEW m \in Message, NEW next, NEW out, NEW spend,
         Opens(node, o, peer, m, next, out, spend), Enter(node, o, peer, m, next, out, spend)
  PROVE  /\ chain' = chain /\ DraftBooks(tx')
         /\ \A x \in tx'.out : x.type = "REFUND" => x \in out
<1> DEFINE due == {x \in out : x.type = "REFUND"}
<1>1. PICK t : t = [on |-> node, work |-> o, peer |-> peer, trigger |-> {}, todo |-> {},
                    next |-> due, out |-> out, spend |-> spend]
  OBVIOUS
<1>2. /\ t.on = node /\ t.work = o /\ t.peer = peer /\ t.todo = {} /\ t.next = due
      /\ t.out = out /\ t.spend = spend
  BY <1>1
<1>3. DraftBooks(t)
  BY <1>2, StartDraft DEF Opens
<1>4. Given(t, node, o, peer, m, next, out, spend)
  BY <1>2 DEF Given, Opens
<1>5. Sound(t.work) /\ IsFiniteSet(t.out) /\ t.next \subseteq Message
  BY <1>2 DEF Opens, Inv, Covered
<1>6. Held(t.work) \subseteq issued \cup t.out
  BY <1>2 DEF Opens, SentInv
<1>7. t.on = "vendor" /\ m.type = "REFUND" => m \in t.next
  BY <1>2 DEF Opens
<1>8. t.on \in Node
  BY <1>2
<1> HIDE DEF due
<1> QED BY <1>3, <1>4, <1>5, <1>6, <1>7, <1>8, EnterDraft

\* The refund that a call of the vendor builds is covered by the books.
LEMMA RefundCovered ==
  ASSUME Inv, SentInv, VendorBooks, CallsSee, deal.method = "DIRECT",
         NEW c \in calls, c.node = "vendor", NEW r \in RefundMessages(c.seen)
  PROVE  Covered(r)
<1>1. c \in Call /\ c.seen \in Order /\ IsFiniteSet(issued)
  BY DEF Inv, TypeOK, Call
<1>2. r \in Message
  BY <1>1, RefundMessagesType
<1>3. PICK s, o : s = c.seen /\ o = order["vendor"]
  OBVIOUS
<1>4. Refunds(s) = Refunds(o) /\ s.txs \subseteq o.txs /\ o.open
  BY <1>3 DEF CallsSee
<1>5. PICK a \in 0..Cardinality(Payments) :
        /\ a + Returned(s) = Cardinality(Paid(s.txs))
        /\ r = Msg("REFUND", "vendor", Serial("REFUND", "vendor"), a, EscrowRelease(s))
  BY <1>3 DEF RefundMessages
<1>6. /\ r.k = a /\ r.type = "REFUND" /\ r.by = "vendor" /\ r.n = Serial("REFUND", "vendor")
  BY <1>5 DEF Msg
<1>7. /\ Cardinality(Paid(s.txs)) \in Nat /\ Cardinality(Paid(o.txs)) \in Nat
      /\ Cardinality(Paid(s.txs)) <= Cardinality(Paid(o.txs))
  <2>1. o.txs \in SUBSET Tx
    BY <1>3 DEF Inv, TypeOK, Node, Order
  <2> QED BY <1>4, <2>1, PaidGrows
<1>8. Total(Refunds(o)) \in Nat
  <2>1. Refunds(o) \subseteq issued
    BY <1>3 DEF SentInv, Held, Refunds, Node
  <2>2. IsFiniteSet(Refunds(o))
    BY <1>1, <2>1, FS_Subset
  <2>3. \A m \in Refunds(o) : m.k \in Nat
    BY <2>1 DEF Inv, TypeOK, Message
  <2> QED BY <2>2, <2>3, UnitsFinite
<1>9. PICK x, y, z : x = Total(Refunds(o)) /\ y = Cardinality(Paid(s.txs)) /\ z = Cardinality(Paid(o.txs))
  OBVIOUS
<1>10. a + x = y
  BY <1>4, <1>5, <1>9 DEF Returned
<1>11. x + a <= z
  BY <1>7, <1>8, <1>9, <1>10
<1> QED BY <1>2, <1>3, <1>4, <1>6, <1>9, <1>11 DEF Covered

\* A step that only moves the transaction in progress.
LEMMA DraftStep ==
  ASSUME VendorBooks, CallsSee, UNCHANGED <<deal, order, issued>>, chain' = chain,
         DraftBooks(tx'), calls' \subseteq calls,
         \A c \in calls' : c.node = "vendor" => \A m \in tx'.out : m.type # "REFUND"
  PROVE  RefundInv'
<1>1. VendorBooks'
  BY DEF VendorBooks, Issued
<1>2. DraftBooks(tx)'
  BY DEF DraftBooks, Serial, Issued
<1>3. CallsSee'
  BY DEF CallsSee
<1> QED BY <1>1, <1>2, <1>3 DEF RefundInv

LEMMA PurchaseBooks ==
  ASSUME Inv, SentInv, RefundInv, Purchase
  PROVE  RefundInv'
<1> SUFFICES ASSUME deal.method = "DIRECT" PROVE RefundInv'
  BY DEF RefundInv, Purchase
<1>1. VendorBooks /\ CallsSee
  BY DEF RefundInv
<1> DEFINE m == Msg("ORDER_OPEN", "buyer", 1, 0, {})
<1>2. m \in Message /\ m.type = "ORDER_OPEN"
  BY MsgType DEF MessageType, Node
<1>3. /\ order["buyer"] = NoOrder /\ Enter("buyer", NoOrder, "buyer", m, {}, {m}, {})
      /\ UNCHANGED <<deal, order, issued, calls>>
  BY DEF Purchase
<1> HIDE DEF m
<1>4. IsFiniteSet({m})
  BY FS_Singleton
<1>5. Opens("buyer", NoOrder, "buyer", m, {}, {m}, {})
  BY <1>2, <1>3, <1>4 DEF Opens
<1>6. chain' = chain /\ DraftBooks(tx') /\ \A x \in tx'.out : x.type # "REFUND"
  BY <1>1, <1>2, <1>3, <1>5, EnterStart DEF Node
<1> QED BY <1>1, <1>3, <1>6, DraftStep

LEMMA DeliverBooks ==
  ASSUME Inv, SentInv, RefundInv, NEW m \in net, Deliver(m)
  PROVE  RefundInv'
<1> SUFFICES ASSUME deal.method = "DIRECT" PROVE RefundInv'
  BY DEF RefundInv, Deliver
<1>1. VendorBooks /\ CallsSee
  BY DEF RefundInv
<1>2. PICK node, peer, o : node = Other(m.by) /\ peer = m.by /\ o = order[node]
  OBVIOUS
<1>3. m \in Message /\ node \in Node /\ m \in issued
  BY <1>2 DEF Inv, TypeOK, SentInv, Other, Node
<1>4. Enter(node, o, peer, m, {}, {}, {}) /\ UNCHANGED <<deal, order, issued, calls>>
  BY <1>2 DEF Deliver
<1>5. m.type = "REFUND" => node # "vendor"
  BY <1>1, <1>2, <1>3 DEF VendorBooks, Other
<1>6. Opens(node, o, peer, m, {}, {}, {})
  BY <1>2, <1>5, FS_EmptySet DEF Opens
<1>7. chain' = chain /\ DraftBooks(tx') /\ \A x \in tx'.out : x.type # "REFUND"
  BY <1>1, <1>3, <1>4, <1>6, EnterStart
<1> QED BY <1>1, <1>4, <1>7, DraftStep

LEMMA ProcessNextBooks ==
  ASSUME Inv, SentInv, RefundInv, ProcessNext
  PROVE  RefundInv'
<1> SUFFICES ASSUME deal.method = "DIRECT" PROVE RefundInv'
  BY DEF RefundInv, ProcessNext
<1>1. VendorBooks /\ CallsSee /\ DraftBooks(tx)
  BY DEF RefundInv
<1>2. PICK m \in tx.next : Enter(tx.on, tx.work, tx.peer, m, tx.next \ {m}, tx.out, tx.spend)
  BY DEF ProcessNext
<1>3. PICK t : t = tx
  OBVIOUS
<1>4. PICK node, o, peer, next, out, spend :
        /\ node = tx.on /\ o = tx.work /\ peer = tx.peer
        /\ next = tx.next \ {m} /\ out = tx.out /\ spend = tx.spend
  OBVIOUS
<1>5. Given(t, node, o, peer, m, next, out, spend)
  BY <1>3, <1>4 DEF Given, ProcessNext
<1>6. Enter(node, o, peer, m, next, out, spend)
  BY <1>2, <1>4
<1>7. /\ t.on \in Node /\ Sound(t.work) /\ IsFiniteSet(t.out) /\ t.next \subseteq Message
      /\ Held(t.work) \subseteq issued \cup t.out /\ DraftBooks(t) /\ m \in t.next /\ m \in Message
  BY <1>1, <1>3 DEF Inv, TypeOK, TxState, SentInv, ProcessNext
<1>8. /\ chain' = chain /\ DraftBooks(tx')
      /\ \A x \in tx'.out : x.type = "REFUND" => x \in out
  <2> HIDE <1>2
  <2> HIDE <1>3
  <2> HIDE <1>4
  <2> QED BY <1>1, <1>5, <1>6, <1>7, EnterDraft
<1>9. UNCHANGED <<deal, order, issued, calls>>
  BY DEF ProcessNext
<1>10. \A c \in calls' : c.node = "vendor" => \A x \in tx'.out : x.type # "REFUND"
  BY <1>1, <1>4, <1>8, <1>9 DEF CallsSee
<1> QED BY <1>1, <1>8, <1>9, <1>10, DraftStep

LEMMA ReprocessBooks ==
  ASSUME Inv, SentInv, RefundInv, Reprocess
  PROVE  RefundInv'
<1> SUFFICES ASSUME deal.method = "DIRECT" PROVE RefundInv'
  BY DEF RefundInv, Reprocess
<1>1. VendorBooks /\ CallsSee /\ DraftBooks(tx)
  BY DEF RefundInv
<1>2. PICK c \in tx.todo, send \in SUBSET Message :
        /\ c[1] \in Message
        /\ tx'.on = tx.on /\ tx'.peer = tx.peer /\ tx'.next = tx.next /\ tx'.spend = tx.spend
        /\ tx'.out = tx.out \cup send /\ tx'.todo \subseteq tx.todo
        /\ Leads(tx.work, c[1], tx'.work, send)
        /\ Sound(tx'.work) /\ Moves(tx.work, tx'.work)
        /\ chain \subseteq chain' /\ (deal.method # "MODERATED" => chain' = chain)
  BY ReprocessEffect
<1>3. UNCHANGED <<deal, order, issued, calls>>
  BY DEF Reprocess
<1>4. PICK t, u, m : t = tx /\ u = tx' /\ m = c[1]
  OBVIOUS
<1>5. /\ t.on \in Node /\ IsFiniteSet(t.out) /\ t.next \subseteq Message /\ Sound(t.work)
      /\ DraftBooks(t)
  <2>1. tx # Idle
    BY DEF Idle
  <2> QED BY <1>1, <1>4, <2>1 DEF Inv, TypeOK, TxState
<1>6. t.on = "vendor" => m.type # "REFUND"
  BY <1>1, <1>2, <1>4 DEF DraftBooks
<1>7. DraftBooks(u)
  BY <1>2, <1>4, <1>5, <1>6, DraftOther
<1>8. \A d \in calls' : d.node = "vendor" => \A x \in tx'.out : x.type # "REFUND"
  BY <1>1, <1>2, <1>3 DEF CallsSee, Leads, Automatic
<1> QED BY <1>1, <1>2, <1>3, <1>4, <1>7, <1>8, DraftStep

LEMMA RunCallBooks ==
  ASSUME Inv, SentInv, RefundInv, NEW c \in calls, RunCall(c)
  PROVE  RefundInv'
<1> SUFFICES ASSUME deal.method = "DIRECT" PROVE RefundInv'
  BY DEF RefundInv, RunCall
<1>1. VendorBooks /\ CallsSee /\ DraftBooks(tx)
  BY DEF RefundInv
<1>2. PICK node, o : node = c.node /\ o = order[node]
  OBVIOUS
<1>3. c \in Call /\ node \in Node /\ c.op \in OpsOf(node) /\ c.op \in Op
  BY <1>1, <1>2 DEF Inv, TypeOK, Call, CallsSee
<1>4. /\ UNCHANGED <<deal, order, issued>> /\ calls' = calls \ {c} /\ tx = Idle
  BY DEF RunCall
<1>5. node = "vendor" => \A d \in calls' : d.node # "vendor"
  BY <1>1, <1>2, <1>4 DEF CallsSee
<1>6. c.op \in {"refund", "reject"} => node = "vendor"
  BY <1>3 DEF OpsOf, Node
<1>7. CASE UNCHANGED <<tx, chain>>
  BY <1>1, <1>4, <1>7, DraftStep, IdleDraft DEF Idle
<1>8. ASSUME NEW m \in Message, NEW next, NEW out, NEW spend,
             Opens(node, o, node, m, next, out, spend), Enter(node, o, node, m, next, out, spend)
      PROVE  RefundInv'
  <2>1. /\ chain' = chain /\ DraftBooks(tx')
        /\ \A x \in tx'.out : x.type = "REFUND" => x \in out
    BY <1>1, <1>3, <1>8, EnterStart
  <2>2. node # "vendor" => \A x \in tx'.out : x.type # "REFUND"
    BY <1>8, <2>1 DEF Opens
  <2> QED BY <1>1, <1>4, <1>5, <2>1, <2>2, DraftStep
<1>9. ASSUME NEW m \in CallMessages(c)
      PROVE  /\ m \in Message /\ m.type = OpType[c.op] /\ m.type # "ORDER_CANCEL"
             /\ m.type = "REFUND" => node = "vendor" /\ Covered(m)
             /\ CallSpends(m) = IF m.type = "REFUND" THEN {TxOf(m)} ELSE {}
  <2>1. m \in Message /\ m.type = OpType[c.op]
    BY <1>3, CallMessagesType, CallMessagesBuilt DEF Inv
  <2>2. c.op # "cancel"
    BY DEF CallMessages, CancelMessages, CancelableRelease
  <2>3. m.type = "REFUND" => c.op = "refund"
    BY <1>3, <2>1 DEF Op, OpType
  <2>4. c.op = "refund" => node = "vendor" /\ m \in RefundMessages(c.seen)
    BY <1>6 DEF CallMessages
  <2>5. m.type # "ORDER_CANCEL"
    BY <1>3, <2>1, <2>2 DEF Op, OpType
  <2>6. m.type = "REFUND" => node = "vendor" /\ Covered(m)
    BY <1>1, <1>2, <2>3, <2>4, RefundCovered
  <2>7. CallSpends(m) = IF m.type = "REFUND" THEN {TxOf(m)} ELSE {}
    BY DEF CallSpends
  <2> QED BY <2>1, <2>5, <2>6, <2>7
<1>10. ASSUME NEW m \in CallMessages(c),
             Enter(c.node, order[c.node], c.node, m, {}, {m}, CallSpends(m))
      PROVE  RefundInv'
  <2>1. PICK spend, out : spend = CallSpends(m) /\ out = {m}
    OBVIOUS
  <2>2. Enter(node, o, node, m, {}, out, spend) /\ IsFiniteSet(out)
    BY <1>2, <1>10, <2>1, FS_Singleton
  <2>3. Opens(node, o, node, m, {}, out, spend)
    BY <1>2, <1>9, <2>1, <2>2 DEF Opens
  <2> QED BY <1>8, <1>9, <2>2, <2>3
<1>11. ASSUME NEW m \in CallMessages(c), NEW r \in RefundMessages(c.seen), c.op = "reject",
              Enter(c.node, order[c.node], c.node, m, {r}, {m, r}, CallSpends(r))
       PROVE  RefundInv'
  <2>1. node = "vendor" /\ Covered(r)
    <3>1. c.node = "vendor"
      BY <1>2, <1>11, <1>6
    <3> QED BY <1>1, <1>2, <3>1, RefundCovered
  <2>2. m.type = "ORDER_REJECT" /\ r.type = "REFUND"
    BY <1>9, <1>11, <2>1 DEF Covered, OpType
  <2>3. PICK spend, out, next : spend = CallSpends(r) /\ out = {m, r} /\ next = {r}
    OBVIOUS
  <2>4. Enter(node, o, node, m, next, out, spend) /\ IsFiniteSet(out)
    <3>1. IsFiniteSet({m}) /\ IsFiniteSet({r})
      BY FS_Singleton
    <3>2. out = {m} \cup {r}
      BY <2>3
    <3> QED BY <1>2, <1>11, <2>3, <3>1, <3>2, FS_Union
  <2>5. spend = {TxOf(r)}
    BY <2>2, <2>3 DEF CallSpends
  <2>6. Opens(node, o, node, m, next, out, spend)
    <3>1. {x \in out : x.type = "REFUND"} = {r}
      BY <2>2, <2>3
    <3> QED BY <1>2, <2>1, <2>2, <2>3, <2>4, <2>5, <3>1 DEF Opens
  <2> QED BY <1>8, <1>9, <2>4, <2>6
<1> QED BY <1>7, <1>10, <1>11 DEF RunCall, AlsoRefunds

LEMMA PayBooks ==
  ASSUME RefundInv, NEW p \in Payments, Pay(p)
  PROVE  RefundInv'
<1>1. /\ UNCHANGED <<deal, order, tx, calls, issued>>
      /\ chain' = chain \cup {PaymentTx(p)} /\ PaymentTx(p).kind = "pay"
  BY DEF Pay, PaymentTx
<1> SUFFICES ASSUME deal.method = "DIRECT" PROVE RefundInv'
  BY <1>1 DEF RefundInv
<1>2. VendorBooks'
  BY <1>1 DEF RefundInv, VendorBooks, Issued
<1>3. DraftBooks(tx)'
  BY <1>1 DEF RefundInv, DraftBooks, Serial, Issued
<1>4. CallsSee'
  BY <1>1 DEF RefundInv, CallsSee
<1> QED BY <1>2, <1>3, <1>4 DEF RefundInv

\* With one call in flight at a node, the call that starts is the only one.
LEMMA StartCallBooks ==
  ASSUME MaxCalls <= 1, Inv, RefundInv, NEW node \in Node, NEW op \in Op, StartCall(node, op)
  PROVE  RefundInv'
<1>1. /\ UNCHANGED <<deal, order, tx, issued, chain>> /\ tx = Idle
      /\ op \in OpsOf(node) /\ order[node].open
  BY DEF StartCall, CanCall
<1> SUFFICES ASSUME deal.method = "DIRECT" PROVE RefundInv'
  BY <1>1 DEF RefundInv
<1>2. PICK id \in 1..MaxCalls :
        /\ \A c \in calls : c.node = node => c.id # id
        /\ calls' = calls \cup {[node |-> node, op |-> op, id |-> id, seen |-> order[node]]}
  BY DEF StartCall
<1>3. \A c \in calls : c.node # node
  <2>1. \A c \in calls : c.id \in 1..MaxCalls
    BY DEF Inv, TypeOK, Call
  <2> QED BY <1>2, <2>1, BoundsAssumption
<1>4. CallsSee'
  <2>1. tx'.out = {}
    BY <1>1 DEF Idle
  <2>2. \A c, d \in calls' : c.node = d.node => c = d
    BY <1>2, <1>3 DEF RefundInv, CallsSee
  <2>3. ASSUME NEW c \in calls'
        PROVE  /\ c.op \in OpsOf(c.node) /\ order[c.node].open
               /\ c.node = "vendor" => /\ Refunds(c.seen) = Refunds(order["vendor"])
                                       /\ c.seen.txs \subseteq order["vendor"].txs
    BY <1>1, <1>2 DEF RefundInv, CallsSee
  <2> QED BY <1>1, <2>1, <2>2, <2>3 DEF CallsSee
<1>5. VendorBooks'
  BY <1>1 DEF RefundInv, VendorBooks, Issued
<1>6. DraftBooks(tx)'
  BY <1>1 DEF RefundInv, DraftBooks, Serial, Issued
<1> QED BY <1>4, <1>5, <1>6 DEF RefundInv

LEMMA AbortBooks ==
  ASSUME RefundInv, Abort
  PROVE  RefundInv'
<1>1. UNCHANGED <<deal, order, calls, issued, chain>> /\ tx' = Idle
  BY DEF Abort
<1> SUFFICES ASSUME deal.method = "DIRECT" PROVE RefundInv'
  BY <1>1 DEF RefundInv
<1> QED BY <1>1, DraftStep, IdleDraft DEF RefundInv, Idle

LEMMA WalletTransactionBooks ==
  ASSUME Inv, SentInv, RefundInv, NEW node \in Node, NEW t \in chain, WalletTransaction(node, t)
  PROVE  RefundInv'
<1>1. PICK p, send, m :
        /\ order' = [order EXCEPT ![node] = p]
        /\ net' = net \cup send /\ issued' = issued \cup send
        /\ m \in order[node].msgs /\ m.type = "ORDER_OPEN"
        /\ Leads(order[node], m, p, send) /\ Sound(p) /\ Moves(order[node], p)
        /\ tx = Idle /\ UNCHANGED <<deal, tx, calls, redeliveries, chain>>
  BY WalletTransactionEffect
<1> SUFFICES ASSUME deal.method = "DIRECT" PROVE RefundInv'
  BY <1>1 DEF RefundInv
<1>2. VendorBooks /\ CallsSee
  BY DEF RefundInv
<1>3. PICK o : o = order[node] /\ Sound(o)
  BY DEF Inv
<1>4. Refunds(p) = Refunds(o) /\ (o.open => p.open)
  <2>1. m.type # "REFUND" /\ Leads(o, m, p, send) /\ Sound(p) /\ Moves(o, p)
    BY <1>1, <1>3
  <2> QED BY <1>3, <2>1, LeadsFacts
<1>5. \A n \in Node : order'[n] = IF n = node THEN p ELSE order[n]
  BY <1>1 DEF Inv, TypeOK
<1>6. /\ o.txs \subseteq p.txs /\ p.txs \subseteq chain
      /\ (\A c \in o.parked : c[1].type # "REFUND") => \A c \in p.parked : c[1].type # "REFUND"
  BY <1>1, <1>2, <1>3 DEF VendorBooks, Leads
<1>7. \A x \in send : x.type \notin {"REFUND", "ORDER_CANCEL"}
  BY <1>1 DEF Leads, Automatic
<1>8. Issued("REFUND", "vendor")' = Issued("REFUND", "vendor")
  BY <1>1, <1>7 DEF Issued
<1>9. Total(Refunds(order'["vendor"])) <= Cardinality(Paid(order'["vendor"].txs))
  <2>1. CASE node = "vendor"
    <3>1. order'["vendor"] = p
      BY <1>5, <2>1 DEF Node
    <3>2. Total(Refunds(o)) <= Cardinality(Paid(o.txs))
      BY <1>2, <1>3, <2>1 DEF VendorBooks
    <3>3. /\ Cardinality(Paid(o.txs)) \in Nat /\ Cardinality(Paid(p.txs)) \in Nat
          /\ Cardinality(Paid(o.txs)) <= Cardinality(Paid(p.txs))
      <4>1. p.txs \in SUBSET Tx
        BY <1>1 DEF Sound, Order
      <4> QED BY <1>6, <4>1, PaidGrows
    <3>4. Total(Refunds(o)) \in Nat
      <4>1. Refunds(o) \subseteq issued /\ IsFiniteSet(issued)
        BY <1>3, <2>1 DEF SentInv, Held, Refunds, Node, Inv
      <4>2. IsFiniteSet(Refunds(o)) /\ \A x \in Refunds(o) : x.k \in Nat
        BY <4>1, FS_Subset DEF Inv, TypeOK, Message
      <4> QED BY <4>2, UnitsFinite
    <3>5. PICK a, b, c : /\ a = Total(Refunds(o)) /\ b = Cardinality(Paid(o.txs))
                        /\ c = Cardinality(Paid(p.txs))
      OBVIOUS
    <3>6. a <= c
      BY <3>2, <3>3, <3>4, <3>5
    <3> QED BY <1>4, <3>1, <3>5, <3>6
  <2>2. CASE node # "vendor"
    BY <1>2, <1>5, <2>2 DEF VendorBooks, Node
  <2> QED BY <2>1, <2>2
<1>10. /\ \A c \in order'["vendor"].parked : c[1].type # "REFUND"
       /\ Refunds(order'["vendor"]) = Refunds(order["vendor"])
       /\ order["vendor"].txs \subseteq order'["vendor"].txs
       /\ \A n \in Node : order'[n].txs \subseteq chain /\ (order[n].open => order'[n].open)
  <2>1. order'["vendor"] = IF node = "vendor" THEN p ELSE order["vendor"]
    BY <1>5 DEF Node
  <2> QED BY <1>2, <1>3, <1>4, <1>5, <1>6, <2>1 DEF VendorBooks
<1>11. VendorBooks'
  <2>1. \A m2 \in issued' :
          /\ m2.type # "ORDER_CANCEL"
          /\ m2.type = "REFUND" => m2 \in issued
    BY <1>1, <1>2, <1>7 DEF VendorBooks
  <2> QED BY <1>1, <1>2, <1>8, <1>9, <1>10, <2>1 DEF VendorBooks
<1>12. DraftBooks(tx)'
  BY <1>1 DEF DraftBooks, Idle, NoOrder, Refunds, Node
<1>13. CallsSee'
  <2>1. \A c \in calls : c.node \in Node
    BY DEF Inv, TypeOK, Call
  <2>2. \A c \in calls : c.node = "vendor" => c.seen.txs \subseteq order'["vendor"].txs
    BY <1>2, <1>10 DEF CallsSee
  <2> QED BY <1>1, <1>2, <1>10, <2>1, <2>2 DEF CallsSee
<1> QED BY <1>11, <1>12, <1>13 DEF RefundInv

\* The refund that is committed is the next one.
LEMMA CommitNumbers ==
  ASSUME Inv, VendorBooks, DraftBooks(tx), issued' = issued \cup tx.out,
         NEW m \in issued', m.type = "REFUND"
  PROVE  m.by = "vendor" /\ m.n <= Cardinality(Issued("REFUND", "vendor")')
<1> DEFINE old == Issued("REFUND", "vendor")
           new == Issued("REFUND", "vendor")'
<1>1. IsFiniteSet(old) /\ IsFiniteSet(new) /\ old \subseteq new
  <2>1. IsFiniteSet(issued) /\ IsFiniteSet(issued')
    BY FS_Union DEF Inv
  <2>2. old \subseteq issued /\ new \subseteq issued' /\ old \subseteq new
    BY DEF Issued
  <2> HIDE DEF old, new
  <2> QED BY <2>1, <2>2, FS_Subset
<1>2. /\ Cardinality(old) \in Nat /\ Cardinality(new) \in Nat
      /\ Cardinality(old) <= Cardinality(new)
  <2> HIDE DEF old, new
  <2> QED BY <1>1, FS_Subset, FS_CardinalityType
<1>3. m.n \in Nat
  BY DEF Inv, TypeOK, TxState, Message
<1>4. CASE m \in issued
  <2>1. m.by = "vendor" /\ m.n <= Cardinality(old)
    BY <1>4 DEF VendorBooks
  <2> HIDE DEF old, new
  <2>2. PICK a, b : a = Cardinality(old) /\ b = Cardinality(new)
    OBVIOUS
  <2>3. m.n <= b
    BY <1>2, <1>3, <2>1, <2>2
  <2> QED BY <2>1, <2>2, <2>3 DEF new
<1>5. CASE m \notin issued
  <2>1. m.by = "vendor" /\ m.n = 1 + Cardinality(old)
    BY <1>5 DEF DraftBooks, Serial
  <2>2. m \in new /\ m \notin old
    BY <1>5, <2>1 DEF Issued
  <2>3. old \cup {m} \subseteq new
    BY <1>1, <2>2
  <2> HIDE DEF old, new
  <2>4. Cardinality(old \cup {m}) = Cardinality(old) + 1
    BY <1>1, <2>2, FS_AddElement
  <2>5. Cardinality(old \cup {m}) <= Cardinality(new)
    BY <1>1, <2>3, FS_Subset
  <2>6. PICK a, b : a = Cardinality(old) /\ b = Cardinality(new)
    OBVIOUS
  <2>7. m.n <= b
    BY <1>2, <2>1, <2>4, <2>5, <2>6
  <2> QED BY <2>1, <2>6, <2>7 DEF new
<1> QED BY <1>4, <1>5

LEMMA CommitBooks ==
  ASSUME Inv, RefundInv, Commit
  PROVE  RefundInv'
<1>1. tx.on \in Node /\ order \in [Node -> Order]
  BY DEF Inv, TypeOK, TxState, Commit
<1>2. /\ order' = [order EXCEPT ![tx.on] = tx.work]
      /\ issued' = issued \cup tx.out /\ tx.next = {}
      /\ chain' = Broadcast(tx.spend) /\ tx' = Idle /\ UNCHANGED <<deal, calls>>
  BY DEF Commit
<1> SUFFICES ASSUME deal.method = "DIRECT" PROVE RefundInv'
  BY <1>2 DEF RefundInv
<1>3. VendorBooks /\ DraftBooks(tx) /\ CallsSee
  BY DEF RefundInv
<1>4. \A n \in Node : order'[n] = IF n = tx.on THEN tx.work ELSE order[n]
  BY <1>1, <1>2
<1>5. order'["vendor"] = IF tx.on = "vendor" THEN tx.work ELSE order["vendor"]
  BY <1>4 DEF Node
<1>6. chain \subseteq chain' /\ chain' \subseteq chain \cup tx.spend
  BY <1>2 DEF Broadcast
<1>7. Refunds(order["vendor"]) \subseteq Refunds(order'["vendor"])
  BY <1>3, <1>5 DEF DraftBooks
<1>8. \A t \in chain' : t.kind = "REFUND" => \E m \in Refunds(order'["vendor"]) : t = TxOf(m)
  <2>1. ASSUME NEW t \in tx.spend PROVE \E m \in Refunds(order'["vendor"]) : t = TxOf(m)
    BY <1>2, <1>3, <1>5, <2>1 DEF DraftBooks
  <2>2. \A t \in chain : t.kind = "REFUND" => \E m \in Refunds(order["vendor"]) : t = TxOf(m)
    BY <1>3 DEF VendorBooks
  <2> QED BY <1>6, <1>7, <2>1, <2>2
<1>9. VendorBooks'
  <2>1. \A m \in issued' :
          /\ m.type # "ORDER_CANCEL"
          /\ m.type = "REFUND" => /\ m.by = "vendor"
                                  /\ m.n <= Cardinality(Issued("REFUND", "vendor")')
    <3>1. \A m \in issued' : m.type # "ORDER_CANCEL"
      BY <1>2, <1>3 DEF VendorBooks, DraftBooks
    <3> QED BY <1>2, <1>3, <3>1, CommitNumbers
  <2>2. \A n \in Node : order'[n].txs \subseteq chain'
    BY <1>3, <1>4, <1>6 DEF VendorBooks, DraftBooks
  <2>3. /\ \A c \in order'["vendor"].parked : c[1].type # "REFUND"
        /\ Total(Refunds(order'["vendor"])) <= Cardinality(Paid(order'["vendor"].txs))
    BY <1>3, <1>5 DEF VendorBooks, DraftBooks
  <2> QED BY <1>8, <2>1, <2>2, <2>3 DEF VendorBooks
<1>10. DraftBooks(tx)'
  BY <1>2 DEF DraftBooks, Idle, NoOrder, Refunds, Node
<1>11. CallsSee'
  <2>1. \A n \in Node : order[n].open => order'[n].open
    BY <1>1, <1>3, <1>4 DEF DraftBooks
  <2>2. \A c \in calls : c.node \in Node
    BY DEF Inv, TypeOK, Call
  <2>3. order["vendor"].txs \subseteq order'["vendor"].txs
    BY <1>1, <1>3, <1>5 DEF DraftBooks
  <2>4. ASSUME NEW c \in calls, c.node = "vendor"
        PROVE  Refunds(c.seen) = Refunds(order'["vendor"])
    <3>1. \A m \in tx.out : m.type # "REFUND"
      BY <1>3, <2>4 DEF CallsSee
    <3>2. Refunds(order'["vendor"]) \subseteq Refunds(order["vendor"])
      BY <1>3, <1>5, <3>1 DEF DraftBooks, Refunds
    <3> QED BY <1>3, <1>7, <2>4, <3>2 DEF CallsSee
  <2>5. tx'.out = {}
    BY <1>2 DEF Idle
  <2> QED BY <1>2, <1>3, <2>1, <2>2, <2>3, <2>4, <2>5 DEF CallsSee
<1> QED BY <1>9, <1>10, <1>11 DEF RefundInv

LEMMA RefundInvariance ==
  ASSUME MaxCalls <= 1
  PROVE  Spec => []RefundInv
<1>1. Init => RefundInv
  <2>1. SUFFICES ASSUME Init PROVE RefundInv
    OBVIOUS
  <2>2. Refunds(NoOrder) = {} /\ NoOrder.txs = {} /\ NoOrder.parked = {}
    BY DEF NoOrder, Refunds
  <2>3. Total({}) = 0 /\ Cardinality(Paid({})) = 0
    <3>1. Units({}) = {} /\ Paid({}) = {}
      BY DEF Units, Paid
    <3> QED BY <3>1, FS_EmptySet DEF Total
  <2>4. order["vendor"] = NoOrder /\ \A n \in Node : order[n] = NoOrder
    BY <2>1 DEF Init, Node
  <2>5. VendorBooks
    BY <2>1, <2>2, <2>3, <2>4 DEF Init, VendorBooks
  <2>6. DraftBooks(tx) /\ CallsSee
    BY <2>1, IdleDraft DEF Init, CallsSee
  <2> QED BY <2>5, <2>6 DEF RefundInv
<1>2. Inv /\ SentInv /\ RefundInv /\ [Next]_vars => RefundInv'
  <2> SUFFICES ASSUME Inv, SentInv, RefundInv, [Next]_vars PROVE RefundInv'
    OBVIOUS
  <2>1. CASE UNCHANGED vars
    BY <2>1 DEF vars, RefundInv, VendorBooks, DraftBooks, CallsSee, Issued, Serial
  <2>2. CASE Next
    BY <2>2, PurchaseBooks, PayBooks, StartCallBooks, RunCallBooks, DeliverBooks,
       WalletTransactionBooks, ReprocessBooks, ProcessNextBooks, CommitBooks, AbortBooks DEF Next
  <2> QED BY <2>1, <2>2
<1> QED BY Invariance, SentInvariance, <1>1, <1>2, PTL DEF Spec

\* RefundOrder and RejectOrder, in a direct sale whose vendor calls them one at a
\* time: however often they are called, and whatever else happens in between, the
\* refunds that reach the chain return no more than the buyer paid.
THEOREM RefundsAreCovered ==
  ASSUME MaxCalls <= 1
  PROVE  Spec => []RefundsNeverExceedPayments
<1>1. Inv /\ SentInv /\ RefundInv => RefundsNeverExceedPayments
  <2> SUFFICES ASSUME Inv, SentInv, RefundInv, deal.method = "DIRECT"
               PROVE  ReturnedOnChain <= Cardinality(Paid(chain))
    BY DEF RefundsNeverExceedPayments
  <2>1. PICK o : o = order["vendor"]
    OBVIOUS
  <2>2. VendorBooks
    BY DEF RefundInv
  <2>3. IsFiniteSet(Refunds(o)) /\ \A m \in Refunds(o) : m.k \in Nat
    <3>1. Refunds(o) \subseteq issued /\ IsFiniteSet(issued)
      BY <2>1 DEF SentInv, Held, Refunds, Node, Inv
    <3> QED BY <3>1, FS_Subset DEF Inv, TypeOK, Message
  <2>4. PICK txs : txs = {t \in chain : t.kind = "REFUND"}
    OBVIOUS
  <2>5. \A t \in txs : \E m \in Refunds(o) : t = TxOf(m)
    BY <2>1, <2>2, <2>4 DEF VendorBooks
  <2>6. Total(txs) \in Nat /\ Total(txs) <= Total(Refunds(o))
    BY <2>3, <2>5, TotalNamed
  <2>7. Total(Refunds(o)) \in Nat
    BY <2>3, UnitsFinite
  <2>8. /\ Cardinality(Paid(o.txs)) \in Nat /\ Cardinality(Paid(chain)) \in Nat
        /\ Cardinality(Paid(o.txs)) <= Cardinality(Paid(chain))
    <3>1. chain \in SUBSET Tx /\ o.txs \subseteq chain
      BY <2>1, <2>2 DEF Inv, TypeOK, VendorBooks, Node
    <3> QED BY <3>1, PaidGrows
  <2>9. Total(Refunds(o)) <= Cardinality(Paid(o.txs))
    BY <2>1, <2>2 DEF VendorBooks
  <2>10. PICK a, b, c, d : /\ a = Total(txs) /\ b = Total(Refunds(o))
                          /\ c = Cardinality(Paid(o.txs)) /\ d = Cardinality(Paid(chain))
    OBVIOUS
  <2>11. a <= d
    BY <2>6, <2>7, <2>8, <2>9, <2>10
  <2> QED BY <2>4, <2>10, <2>11 DEF ReturnedOnChain
<1> QED BY Invariance, SentInvariance, RefundInvariance, <1>1, PTL

-----------------------------------------------------------------------------
(* Escrow: what completions and refunds make of a moderated order *)

Spent(txs) == Spends(txs) # {}

\* One payment, one item.
Single == (\A p, q \in Payments : p = q) /\ (\A i, j \in Items : i = j)

\* A message of a moderated order releases the money, unless it is spent. A completion
\* follows a fulfillment, a refund an order.
Fine(m) ==
  /\ m.type # "ORDER_CANCEL"
  /\ m.type \in {"ORDER_FULFILLMENT", "ORDER_COMPLETE", "REFUND"} => m.from # {} \/ Spent(chain)
  /\ m.type \in {"ORDER_FULFILLMENT", "ORDER_COMPLETE"} => m.k \in Items
  /\ m.type = "ORDER_COMPLETE" => m.by = "buyer" /\ Has(order["vendor"], "ORDER_FULFILLMENT")
  /\ m.type = "REFUND" => m.by = "vendor" /\ order["buyer"].open

\* Who has stored the message that pays has paid.
Settling(node, o, txs) ==
  /\ node = "buyer" /\ Has(o, "REFUND") => Spent(txs)
  /\ node = "vendor" /\ Has(o, "ORDER_COMPLETE") => Spent(txs) \/ Has(o, "DISPUTE_OPEN")

\* A record forgets nothing but rating signatures.
Carries(o, p) == \A x \in o.msgs : x.type # "RATING_SIGNATURES" => x \in p.msgs

FineRecord(o) == ~Has(o, "ORDER_CANCEL") /\ \A f \in o.first : Fine(f)

LEMMA MovesCarry ==
  ASSUME NEW o, NEW p, Moves(o, p)
  PROVE  Carries(o, p)
BY DEF Carries, Moves, Grows, BuyerRecord!Grows

LEMMA SpendsStay ==
  ASSUME NEW spend, Spent(chain)
  PROVE  Spent(Broadcast(spend))
BY BroadcastGrows, SpendsGrow DEF Spent

\* A transaction that spends something leaves the payment spent, by itself or by the
\* one that came before it.
LEMMA BroadcastSpends ==
  ASSUME NEW m, m.type # "pay", m.from # {}
  PROVE  Spent(Broadcast({TxOf(m)}))
<1>1. TxOf(m).kind # "pay" /\ TxOf(m).from # {}
  BY DEF TxOf
<1>2. CASE TxOf(m).from \cap Spends(chain) = {}
  <2>1. TxOf(m) \in Broadcast({TxOf(m)})
    BY <1>1, <1>2 DEF Broadcast
  <2> QED BY <1>1, <2>1 DEF Spends, Spent
<1>3. CASE TxOf(m).from \cap Spends(chain) # {}
  BY <1>3, SpendsStay DEF Spent
<1> QED BY <1>2, <1>3

\* The buyer's node broadcasts the refund it stores.
LEMMA RefundPays ==
  ASSUME NEW o, Sound(o), FineRecord(o), NEW m \in Message, m.type = "REFUND", Fine(m),
         deal.method = "MODERATED", Has(o, "REFUND") => Spent(chain)
  PROVE  /\ Has(Refund("buyer", o, m).o, "REFUND") => Spent(Broadcast(Refund("buyer", o, m).spend))
         /\ o.open => Spent(Broadcast(Refund("buyer", o, m).spend))
<1> DEFINE r == Refund("buyer", o, m)
<1>1. CASE Spent(chain)
  BY <1>1, SpendsStay
<1>2. CASE ~Spent(chain)
  <2>1. ~Has(o, "REFUND") /\ m.from # {} /\ ~Has(o, "ORDER_CANCEL")
    BY <1>2 DEF Fine, FineRecord
  <2>2. ~IsRepeat(deal.method, o, m)
    BY <2>1 DEF IsRepeat, Repeats, Has
  <2>3. CASE ~o.open
    <3>1. r.o = Park(o, m)
      BY <2>1, <2>3 DEF Refund, Receive, ListType, Done
    <3>2. Park(o, m).msgs = o.msgs
      BY DEF Park, Sound, Order
    <3> QED BY <2>1, <2>3, <3>1, <3>2 DEF Has
  <2>4. CASE o.open
    <3>1. r.spend = {TxOf(m)}
      BY <2>1, <2>2, <2>4 DEF Refund, Receive, ListType, Done
    <3> QED BY <2>1, <3>1, BroadcastSpends
  <2> QED BY <2>3, <2>4
<1> QED BY <1>1, <1>2

\* The vendor's node broadcasts the completion it stores, unless the order is disputed.
LEMMA CompletePays ==
  ASSUME NEW o, Sound(o), FineRecord(o), NEW m \in Message, m.type = "ORDER_COMPLETE", Fine(m),
         Single, deal.method = "MODERATED",
         Has(o, "ORDER_COMPLETE") => Spent(chain) \/ Has(o, "DISPUTE_OPEN")
  PROVE  LET r == OrderComplete("vendor", o, m)
         IN  /\ Has(r.o, "ORDER_COMPLETE") => Spent(Broadcast(r.spend)) \/ Has(o, "DISPUTE_OPEN")
             /\ Has(o, "ORDER_FULFILLMENT") => Spent(Broadcast(r.spend)) \/ Has(o, "DISPUTE_OPEN")
<1> DEFINE r == OrderComplete("vendor", o, m)
<1>1. CASE Spent(chain)
  BY <1>1, SpendsStay
<1>2. CASE Has(o, "DISPUTE_OPEN")
  BY <1>2
<1>3. CASE ~Spent(chain) /\ ~Has(o, "DISPUTE_OPEN")
  <2>1. ~Has(o, "ORDER_COMPLETE") /\ m.from # {} /\ ~Has(o, "ORDER_CANCEL") /\ m \notin o.msgs
    BY <1>3 DEF Fine, FineRecord, Has
  <2>2. CASE ~o.open
    <3>1. r.o = Park(o, m)
      BY <2>1, <2>2 DEF OrderComplete, Receive, ListType, Done
    <3>2. Park(o, m).msgs = o.msgs
      BY DEF Park, Sound, Order
    <3>3. ~Has(o, "ORDER_FULFILLMENT")
      BY <2>2, SoundFacts DEF Has
    <3> QED BY <2>1, <3>1, <3>2, <3>3 DEF Has
  <2>3. CASE o.open /\ o.first = {}
    <3>1. r = Fail(o)
      BY <1>3, <2>1, <2>3 DEF OrderComplete, Receive, ListType
    <3>2. r.o = o
      BY <3>1 DEF Fail, Done
    <3> QED BY <2>1, <2>3, <3>2 DEF Sound, FirstStored
  <2>4. CASE o.open /\ o.first # {}
    <3>1. PICK f \in o.first : f.from # {} /\ f.k \in Items /\ f \in Message
      BY <1>3, <2>4 DEF FineRecord, Fine, Sound, FirstStored, Order
    <3>2. f.from = m.from /\ f.k = m.k
      BY <2>1, <3>1 DEF Single, Message, Fine
    <3>3. r.spend = {TxOf(m)}
      BY <1>3, <2>1, <2>4, <3>2 DEF OrderComplete, Receive, ListType, Done
    <3> QED BY <2>1, <3>3, BroadcastSpends
  <2> QED BY <2>2, <2>3, <2>4
<1> QED BY <1>1, <1>2, <1>3

\* A message is stored only when it is processed.
LEMMA StoredByLeads ==
  ASSUME NEW o, NEW m, NEW p, NEW send, Leads(o, m, p, send),
         NEW type \in {"REFUND", "ORDER_COMPLETE", "ORDER_CANCEL", "ORDER_OPEN"}, Has(p, type)
  PROVE  Has(o, type) \/ m.type = type
BY DEF Leads, Automatic, Has

\* The order p that processing m leaves is paid for, and so is a message that was due.
SettlesTo(node, o, peer, m, p, txs) ==
  /\ Settling(node, p, txs)
  /\ peer = m.by /\ o.open =>
       /\ node = "buyer" /\ m.type = "REFUND" => Spent(txs)
       /\ node = "vendor" /\ m.type = "ORDER_COMPLETE" /\ Has(o, "ORDER_FULFILLMENT") =>
            Spent(txs) \/ Has(o, "DISPUTE_OPEN")

LEMMA ProcessSettles ==
  ASSUME NEW node \in Node, NEW o, Sound(o), FineRecord(o), Settling(node, o, chain),
         NEW peer, NEW m \in Message, Fine(m), Single, deal.method = "MODERATED", chain \subseteq Tx
  PROVE  SettlesTo(node, o, peer, m, Process(node, o, peer, m).o, Broadcast(Process(node, o, peer, m).spend))
<1> DEFINE r == Process(node, o, peer, m)
<1> SUFFICES SettlesTo(node, o, peer, m, r.o, Broadcast(r.spend))
  OBVIOUS
<1>1. /\ Spent(chain) => Spent(Broadcast(r.spend))
      /\ \A type : type # "RATING_SIGNATURES" /\ Has(o, type) => Has(r.o, type)
      /\ \A type \in {"REFUND", "ORDER_COMPLETE"} : Has(r.o, type) => Has(o, type) \/ m.type = type
  <2>1. Effect(o, m, r) /\ Good(o, r)
    BY ProcessEffect, ProcessGood DEF Sound
  <2> HIDE DEF r
  <2>2. Leads(o, m, r.o, r.send) /\ Carries(o, r.o)
    BY <2>1, MovesCarry DEF Effect, Good
  <2>3. \A type : type # "RATING_SIGNATURES" /\ Has(o, type) => Has(r.o, type)
    BY <2>2 DEF Carries, Has
  <2> QED BY <2>2, <2>3, StoredByLeads, SpendsStay
<1>2. CASE peer = m.by /\ node = "buyer" /\ m.type = "REFUND"
  <2>1. r = Refund(node, o, m)
    BY <1>2 DEF Process
  <2>2. Has(o, "REFUND") => Spent(chain)
    BY <1>2 DEF Settling
  <2>3. /\ Has(r.o, "REFUND") => Spent(Broadcast(r.spend))
        /\ o.open => Spent(Broadcast(r.spend))
    BY <1>2, <2>1, <2>2, RefundPays
  <2> HIDE DEF r
  <2> QED BY <1>2, <2>3 DEF Settling, SettlesTo
<1>3. CASE peer = m.by /\ node = "vendor" /\ m.type = "ORDER_COMPLETE"
  <2>1. r = OrderComplete(node, o, m)
    BY <1>3 DEF Process
  <2>2. Has(o, "ORDER_COMPLETE") => Spent(chain) \/ Has(o, "DISPUTE_OPEN")
    BY <1>3 DEF Settling
  <2>3. /\ Has(r.o, "ORDER_COMPLETE") => Spent(Broadcast(r.spend)) \/ Has(o, "DISPUTE_OPEN")
        /\ Has(o, "ORDER_FULFILLMENT") => Spent(Broadcast(r.spend)) \/ Has(o, "DISPUTE_OPEN")
    BY <1>3, <2>1, <2>2, CompletePays
  <2> HIDE DEF r
  <2> QED BY <1>1, <1>3, <2>3 DEF Settling, SettlesTo
<1>4. CASE peer # m.by
  <2>1. r.o = o
    BY <1>4 DEF Process, Fail, Done
  <2> HIDE DEF r
  <2> QED BY <1>1, <1>4, <2>1 DEF Settling, SettlesTo
<1>5. CASE ~(node = "buyer" /\ m.type = "REFUND") /\ ~(node = "vendor" /\ m.type = "ORDER_COMPLETE")
  <2> HIDE DEF r
  <2> QED BY <1>1, <1>5 DEF Settling, SettlesTo
<1> QED BY <1>2, <1>3, <1>4, <1>5

-----------------------------------------------------------------------------
(* The inductive invariant about the escrow of a moderated order *)

EscrowDraft(t) ==
  /\ t.spend = {} /\ t.work.txs \subseteq chain
  /\ \A m \in t.out :
       /\ Fine(m)
       /\ m.type = "ORDER_OPEN" => t.on = "buyer" /\ t.work.open
       /\ m.type = "ORDER_FULFILLMENT" => t.on = "vendor" /\ Has(t.work, "ORDER_FULFILLMENT")
  /\ t.on \in Node => Carries(order[t.on], t.work) /\ Settling(t.on, t.work, chain)

\* A refund that was delivered has paid, and so has a completion, unless the vendor
\* knew of a dispute when it came.
EscrowBooks ==
  /\ \A m \in issued :
       /\ Fine(m)
       /\ m.type = "ORDER_OPEN" => order["buyer"].open
       /\ m.type = "ORDER_FULFILLMENT" => Has(order["vendor"], "ORDER_FULFILLMENT")
  /\ \A t \in chain : t.kind # "pay" => t.from # {}
  /\ \A n \in Node : order[n].txs \subseteq chain /\ Settling(n, order[n], chain)
  /\ \A m \in issued \ net :
       /\ m.type = "REFUND" => Spent(chain)
       /\ m.type = "ORDER_COMPLETE" => Spent(chain) \/ Has(order["vendor"], "DISPUTE_OPEN")

\* What a call has read is still so.
EscrowCalls ==
  \A c \in calls :
    /\ c.op \in OpsOf(c.node) /\ order[c.node].open /\ c.seen.txs \subseteq chain
    /\ \A f \in c.seen.first : f \in issued /\ f.type = "ORDER_FULFILLMENT"
    /\ c.op = "fulfill" => Has(order["vendor"], "ORDER_CONFIRMATION")

EscrowInv == deal.method = "MODERATED" => EscrowBooks /\ EscrowDraft(tx) /\ EscrowCalls

\* What a node holds is fine.
LEMMA HeldFine ==
  ASSUME NEW o, Sound(o), NEW out, Held(o) \subseteq issued \cup out, \A m \in issued \cup out : Fine(m)
  PROVE  FineRecord(o)
BY DEF FineRecord, Held, Sound, FirstStored, Has, Fine

\* What is fine stays so, as the records and the chain grow.
LEMMA FineStays ==
  ASSUME NEW m, Fine(m), Spent(chain) => Spent(chain'),
         Has(order["vendor"], "ORDER_FULFILLMENT") => Has(order'["vendor"], "ORDER_FULFILLMENT"),
         order["buyer"].open => order'["buyer"].open
  PROVE  Fine(m)'
BY DEF Fine, Has

\* A message that a handler sends, and a transaction it broadcasts.
LEMMA AutomaticFine ==
  ASSUME NEW m, m.type \in Automatic
  PROVE  Fine(m) /\ m.type \notin {"ORDER_OPEN", "ORDER_FULFILLMENT"}
BY DEF Fine, Automatic

LEMMA BroadcastPays ==
  ASSUME NEW spend, deal.method = "MODERATED", \A t \in chain : t.kind # "pay" => t.from # {}
  PROVE  \A t \in Broadcast(spend) : t.kind # "pay" => t.from # {}
BY DEF Broadcast

-----------------------------------------------------------------------------
(* Each step keeps EscrowInv *)

\* ProcessMessage pays what it stores.
LEMMA EnterSettles ==
  ASSUME NEW node \in Node, NEW o, Sound(o), FineRecord(o), Settling(node, o, chain),
         NEW peer, NEW m \in Message, Fine(m), Single, deal.method = "MODERATED", chain \subseteq Tx,
         \A t \in chain : t.kind # "pay" => t.from # {},
         NEW next, NEW out, NEW spend, Enter(node, o, peer, m, next, out, spend)
  PROVE  /\ SettlesTo(node, o, peer, m, tx'.work, chain')
         /\ \A t \in chain' : t.kind # "pay" => t.from # {}
<1>1. CASE o = NoOrder /\ m.type # "ORDER_OPEN"
  <2>1. tx'.work = Park(o, m) /\ chain' = Broadcast({})
    BY <1>1 DEF Enter, Done
  <2>2. Park(o, m).msgs = {} /\ ~o.open
    BY <1>1 DEF Park, NoOrder
  <2> QED BY <2>1, <2>2, BroadcastPays DEF SettlesTo, Settling, Has
<1>2. CASE ~(o = NoOrder /\ m.type # "ORDER_OPEN")
  <2>1. PICK r : r = Process(node, o, peer, m)
    OBVIOUS
  <2>2. tx'.work = r.o /\ chain' = Broadcast(r.spend)
    BY <1>2, <2>1 DEF Enter
  <2>3. SettlesTo(node, o, peer, m, r.o, Broadcast(r.spend))
    BY <2>1, ProcessSettles
  <2> QED BY <2>2, <2>3, BroadcastPays
<1> QED BY <1>1, <1>2

\* What a draft may send: an order or a fulfillment only if the draft has stored it.
Backed(out, node, p) ==
  \A m \in out :
    /\ m.type = "ORDER_OPEN" => node = "buyer" /\ p.open
    /\ m.type = "ORDER_FULFILLMENT" => node = "vendor" /\ Has(p, "ORDER_FULFILLMENT")

\* An idle node, or one in a transaction, processes m.
EscrowEnters(node, o, m, out, spend) ==
  /\ Sound(o) /\ Carries(order[node], o) /\ Settling(node, o, chain) /\ o.txs \subseteq chain
  /\ Held(o) \subseteq issued \cup out
  /\ m \in issued \cup out
  /\ \A x \in out : Fine(x)
  /\ spend = {}

LEMMA CarriesTwice ==
  ASSUME NEW o, NEW p, NEW q, Carries(o, p), Carries(p, q)
  PROVE  Carries(o, q)
BY DEF Carries

\* The draft that processing m leaves.
LEMMA DraftEscrow ==
  ASSUME EscrowBooks, UNCHANGED order, NEW node \in Node, NEW o, NEW m, NEW out, NEW send, NEW spend, NEW p,
         EscrowEnters(node, o, m, out, spend), Backed(out, node, p), Leads(o, m, p, send), Moves(o, p),
         tx'.on = node, tx'.work = p, tx'.out = out \cup send, tx'.spend = spend,
         chain \subseteq chain', Settling(node, p, chain')
  PROVE  EscrowDraft(tx)'
<1>1. Carries(order[node], p) /\ p.txs \subseteq chain'
  BY MovesCarry, CarriesTwice DEF EscrowEnters, Leads
<1>2. \A x \in tx'.out :
        /\ Fine(x)'
        /\ x.type \in {"ORDER_OPEN", "ORDER_FULFILLMENT"} => x \in out
  <2>1. Spent(chain) => Spent(chain')
    BY SpendsGrow DEF Spent
  <2>2. \A x : Fine(x) => Fine(x)'
    BY <2>1, FineStays
  <2>3. \A x \in send : Fine(x) /\ x.type \notin {"ORDER_OPEN", "ORDER_FULFILLMENT"}
    BY AutomaticFine DEF Leads
  <2> QED BY <2>2, <2>3 DEF EscrowEnters
<1>3. /\ tx'.spend = {} /\ tx'.work.txs \subseteq chain' /\ tx'.on = node
      /\ Carries(order'[tx'.on], tx'.work) /\ Settling(tx'.on, tx'.work, chain')
  BY <1>1 DEF EscrowEnters
<1>4. \A x \in tx'.out :
        /\ Fine(x)'
        /\ x.type = "ORDER_OPEN" => tx'.on = "buyer" /\ tx'.work.open
        /\ x.type = "ORDER_FULFILLMENT" => tx'.on = "vendor" /\ Has(tx'.work, "ORDER_FULFILLMENT")
  BY <1>2 DEF Backed
<1> QED BY <1>3, <1>4 DEF EscrowDraft

LEMMA EnterEscrow ==
  ASSUME Inv, EscrowBooks, Single, deal.method = "MODERATED", UNCHANGED order,
         NEW node \in Node, NEW o, NEW peer, NEW m \in Message, NEW next, NEW out, NEW spend,
         EscrowEnters(node, o, m, out, spend), Backed(out, node, tx'.work),
         Enter(node, o, peer, m, next, out, spend)
  PROVE  /\ EscrowDraft(tx)'
         /\ chain \subseteq chain'
         /\ \A t \in chain' : t.kind # "pay" => t.from # {}
         /\ SettlesTo(node, o, peer, m, tx'.work, chain')
<1>1. /\ chain \subseteq Tx /\ Sound(o) /\ Settling(node, o, chain)
      /\ \A x \in issued \cup out : Fine(x)
      /\ \A t \in chain : t.kind # "pay" => t.from # {}
  BY DEF Inv, TypeOK, EscrowEnters, EscrowBooks
<1>2. FineRecord(o) /\ Fine(m)
  BY <1>1, HeldFine DEF EscrowEnters
<1>3. PICK send :
        /\ tx'.on = node /\ tx'.peer = peer /\ tx'.next = next /\ tx'.spend = spend
        /\ tx'.out = out \cup send /\ tx'.todo \subseteq tx'.work.parked
        /\ Leads(o, m, tx'.work, send) /\ Sound(tx'.work) /\ Moves(o, tx'.work)
        /\ chain \subseteq chain' /\ (deal.method # "MODERATED" => chain' = chain)
  BY <1>1, EnterEffect
<1>4. /\ SettlesTo(node, o, peer, m, tx'.work, chain')
      /\ \A t \in chain' : t.kind # "pay" => t.from # {}
  BY <1>1, <1>2, EnterSettles
<1>5. PICK p : p = tx'.work
  OBVIOUS
<1>6. EscrowDraft(tx)'
  BY <1>3, <1>4, <1>5, DraftEscrow DEF SettlesTo
<1> QED BY <1>3, <1>4, <1>6

\* A step that moves the transaction in progress, and pays for what is delivered.
LEMMA EscrowStep ==
  ASSUME EscrowBooks, EscrowCalls, EscrowDraft(tx)', UNCHANGED <<deal, order, issued>>,
         net' \subseteq net, calls' \subseteq calls, chain \subseteq chain',
         \A t \in chain' : t.kind # "pay" => t.from # {},
         \A m \in (issued \cap net) \ net' :
           /\ m.type = "REFUND" => Spent(chain')
           /\ m.type = "ORDER_COMPLETE" => Spent(chain') \/ Has(order["vendor"], "DISPUTE_OPEN")
  PROVE  EscrowInv'
<1>1. Spent(chain) => Spent(chain')
  BY SpendsGrow DEF Spent
<1>2. \A x \in issued : Fine(x)'
  BY <1>1, FineStays DEF EscrowBooks
<1>3. \A n \in Node : order'[n].txs \subseteq chain' /\ Settling(n, order'[n], chain')
  BY <1>1 DEF EscrowBooks, Settling
<1>4. \A m \in issued' \ net' :
        /\ m.type = "REFUND" => Spent(chain')
        /\ m.type = "ORDER_COMPLETE" => Spent(chain') \/ Has(order'["vendor"], "DISPUTE_OPEN")
  BY <1>1 DEF EscrowBooks
<1>5. EscrowBooks'
  <2>1. \A m \in issued' :
          /\ m.type = "ORDER_OPEN" => order'["buyer"].open
          /\ m.type = "ORDER_FULFILLMENT" => Has(order'["vendor"], "ORDER_FULFILLMENT")
    BY DEF EscrowBooks
  <2> QED BY <1>2, <1>3, <1>4, <2>1 DEF EscrowBooks, Settling, Spent, Has
<1>6. EscrowCalls'
  BY DEF EscrowCalls, Has
<1> QED BY <1>5, <1>6 DEF EscrowInv

LEMMA PurchaseEscrow ==
  ASSUME Inv, EscrowInv, Single, Purchase
  PROVE  EscrowInv'
<1> SUFFICES ASSUME deal.method = "MODERATED" PROVE EscrowInv'
  BY DEF EscrowInv, Purchase
<1>1. EscrowBooks /\ EscrowCalls
  BY DEF EscrowInv
<1> DEFINE m == Msg("ORDER_OPEN", "buyer", 1, 0, {})
<1>2. m \in Message /\ m.type = "ORDER_OPEN" /\ m.by = "buyer"
  BY MsgType DEF MessageType, Node, Msg
<1>3. /\ order["buyer"] = NoOrder /\ Enter("buyer", NoOrder, "buyer", m, {}, {m}, {})
      /\ UNCHANGED <<deal, order, calls, net, issued>>
  BY DEF Purchase
<1> HIDE DEF m
<1>4. Backed({m}, "buyer", tx'.work)
  <2>1. Process("buyer", NoOrder, "buyer", m) = Done(Put(NoOrder, m))
    BY <1>2 DEF Process, OrderOpen, Validates, NoOrder, Has
  <2>2. Done(Put(NoOrder, m)).o.open
    BY <1>2 DEF Done, Put, NoOrder
  <2>3. tx'.work = Process("buyer", NoOrder, "buyer", m).o
    BY <1>2, <1>3 DEF Enter
  <2> QED BY <1>2, <2>1, <2>2, <2>3 DEF Backed
<1>5. EscrowEnters("buyer", NoOrder, m, {m}, {})
  <2>1. Fine(m)
    BY <1>2 DEF Fine
  <2>2. /\ Carries(order["buyer"], NoOrder) /\ Settling("buyer", NoOrder, chain)
        /\ NoOrder.txs \subseteq chain /\ Held(NoOrder) = {}
    BY <1>3 DEF Carries, Settling, NoOrder, Has, Held
  <2> QED BY <2>1, <2>2, NoOrderSound DEF EscrowEnters
<1>6. /\ EscrowDraft(tx)' /\ chain \subseteq chain'
      /\ \A t \in chain' : t.kind # "pay" => t.from # {}
  BY <1>1, <1>2, <1>3, <1>4, <1>5, EnterEscrow DEF Node
<1> QED BY <1>1, <1>3, <1>6, EscrowStep

LEMMA DeliverEscrow ==
  ASSUME Inv, SentInv, EscrowInv, Single, NEW m \in net, Deliver(m)
  PROVE  EscrowInv'
<1> SUFFICES ASSUME deal.method = "MODERATED" PROVE EscrowInv'
  BY DEF EscrowInv, Deliver
<1>1. EscrowBooks /\ EscrowCalls
  BY DEF EscrowInv
<1>2. PICK node, peer, o : node = Other(m.by) /\ peer = m.by /\ o = order[node]
  OBVIOUS
<1>3. m \in Message /\ node \in Node /\ m \in issued
  BY <1>2 DEF Inv, TypeOK, SentInv, Other, Node
<1>4. /\ Enter(node, o, peer, m, {}, {}, {}) /\ UNCHANGED <<deal, order, issued, calls>>
      /\ net' = net \ {m} \/ net' = net
  BY <1>2 DEF Deliver
<1>5. EscrowEnters(node, o, m, {}, {})
  BY <1>1, <1>2, <1>3 DEF EscrowEnters, Inv, EscrowBooks, SentInv, Carries
<1>6. /\ EscrowDraft(tx)' /\ chain \subseteq chain'
      /\ \A t \in chain' : t.kind # "pay" => t.from # {}
      /\ SettlesTo(node, o, peer, m, tx'.work, chain')
  <2>1. Backed({}, node, tx'.work)
    BY DEF Backed
  <2> QED BY <1>1, <1>3, <1>4, <1>5, <2>1, EnterEscrow
<1>7. /\ m.type = "REFUND" => Spent(chain')
      /\ m.type = "ORDER_COMPLETE" => Spent(chain') \/ Has(order["vendor"], "DISPUTE_OPEN")
  <2>1. Fine(m)
    BY <1>1, <1>3 DEF EscrowBooks
  <2>2. m.type = "REFUND" => node = "buyer" /\ peer = m.by /\ o.open
    BY <1>2, <2>1 DEF Fine, Other
  <2>3. m.type = "ORDER_COMPLETE" =>
          node = "vendor" /\ peer = m.by /\ Has(o, "ORDER_FULFILLMENT") /\ o = order["vendor"]
    BY <1>2, <2>1 DEF Fine, Other
  <2>4. Has(o, "ORDER_FULFILLMENT") => o.open
    BY <1>5, SoundFacts DEF EscrowEnters, Has
  <2> QED BY <1>6, <2>2, <2>3, <2>4 DEF SettlesTo
<1>8. \A x \in (issued \cap net) \ net' :
        /\ x.type = "REFUND" => Spent(chain')
        /\ x.type = "ORDER_COMPLETE" => Spent(chain') \/ Has(order["vendor"], "DISPUTE_OPEN")
  BY <1>4, <1>7
<1> QED BY <1>1, <1>4, <1>6, <1>8, EscrowStep

LEMMA BackedStays ==
  ASSUME NEW out, NEW node, NEW o, NEW p, Backed(out, node, o), Sound(o), Sound(p), Moves(o, p)
  PROVE  Backed(out, node, p)
<1>1. Carries(o, p)
  BY MovesCarry
<1> QED BY <1>1 DEF Backed, Carries, Sound, Has

LEMMA DraftEnters ==
  ASSUME Inv, SentInv, EscrowDraft(tx), tx # Idle, NEW m \in issued \cup tx.out
  PROVE  /\ tx.on \in Node
         /\ EscrowEnters(tx.on, tx.work, m, tx.out, tx.spend) /\ Backed(tx.out, tx.on, tx.work)
<1>1. tx.on \in Node
  BY DEF Inv, TypeOK, TxState
<1> QED BY <1>1 DEF EscrowDraft, EscrowEnters, Backed, Inv, SentInv

LEMMA ProcessNextEscrow ==
  ASSUME Inv, SentInv, EscrowInv, Single, ProcessNext
  PROVE  EscrowInv'
<1> SUFFICES ASSUME deal.method = "MODERATED" PROVE EscrowInv'
  BY DEF EscrowInv, ProcessNext
<1>1. EscrowBooks /\ EscrowCalls /\ EscrowDraft(tx)
  BY DEF EscrowInv
<1>2. PICK m \in tx.next : Enter(tx.on, tx.work, tx.peer, m, tx.next \ {m}, tx.out, tx.spend)
  BY DEF ProcessNext
<1>3. UNCHANGED <<deal, order, calls, net, issued>> /\ tx # Idle
  BY DEF ProcessNext, Idle
<1>4. m \in tx.out /\ m \in Message
  BY DEF SentInv, Inv, TypeOK, TxState
<1>5. PICK node, o, peer, next, out, spend :
        /\ node = tx.on /\ o = tx.work /\ peer = tx.peer
        /\ next = tx.next \ {m} /\ out = tx.out /\ spend = tx.spend
  OBVIOUS
<1>6. /\ node \in Node /\ EscrowEnters(node, o, m, out, spend) /\ Backed(out, node, o)
      /\ Enter(node, o, peer, m, next, out, spend)
  BY <1>1, <1>2, <1>3, <1>4, <1>5, DraftEnters
<1>7. Backed(out, node, tx'.work)
  <2>1. Sound(tx'.work) /\ Moves(o, tx'.work)
    <3>1. Sound(o) /\ chain \subseteq Tx
      BY <1>6 DEF EscrowEnters, Inv, TypeOK
    <3> HIDE <1>5
    <3> QED BY <1>4, <1>6, <3>1, EnterEffect
  <2>2. PICK p : p = tx'.work
    OBVIOUS
  <2> QED BY <1>6, <2>1, <2>2, BackedStays DEF EscrowEnters
<1>8. /\ EscrowDraft(tx)' /\ chain \subseteq chain'
      /\ \A t \in chain' : t.kind # "pay" => t.from # {}
  BY <1>1, <1>3, <1>4, <1>6, <1>7, EnterEscrow
<1> QED BY <1>1, <1>3, <1>8, EscrowStep

\* What a parked message pays when its turn comes.
LEMMA ReprocessSettles ==
  ASSUME Inv, SentInv, EscrowBooks, EscrowDraft(tx), Single, deal.method = "MODERATED", Reprocess
  PROVE  /\ Settling(tx.on, tx'.work, chain')
         /\ \A t \in chain' : t.kind # "pay" => t.from # {}
<1>1. PICK c \in tx.todo :
        LET r == Process(tx.on, tx.work, tx.peer, c[1])
        IN  /\ tx' = [tx EXCEPT !.work = IF r.ok THEN r.o ELSE PutErrors(r.o, tx.trigger),
                                !.todo = @ \ {c}, !.out = @ \cup r.send]
            /\ chain' = Broadcast(r.spend)
  BY DEF Reprocess
<1>2. PICK node, o, peer, m : node = tx.on /\ o = tx.work /\ peer = tx.peer /\ m = c[1]
  OBVIOUS
<1>3. /\ chain \subseteq Tx /\ m \in Message /\ tx \in TxState /\ m \in issued \cup tx.out
  BY <1>2 DEF Inv, TypeOK, TxState, Parked, SentInv
<1>4. node \in Node /\ Sound(o) /\ Settling(node, o, chain) /\ Held(o) \subseteq issued \cup tx.out
  <2>1. tx # Idle
    BY <1>1 DEF Idle
  <2> QED BY <1>2, <2>1, <1>3, DraftEnters DEF EscrowEnters
<1>5. \A x \in issued \cup tx.out : Fine(x)
  BY DEF EscrowBooks, EscrowDraft
<1>6. FineRecord(o) /\ Fine(m)
  <2>1. PICK out : out = tx.out
    OBVIOUS
  <2> QED BY <1>3, <1>4, <1>5, <2>1, HeldFine
<1>7. PICK r : r = Process(node, o, peer, m)
  OBVIOUS
<1>8. Settling(node, r.o, Broadcast(r.spend))
  <2>1. SettlesTo(node, o, peer, m, Process(node, o, peer, m).o, Broadcast(Process(node, o, peer, m).spend))
    BY <1>3, <1>4, <1>6, ProcessSettles
  <2> QED BY <1>7, <2>1 DEF SettlesTo
<1>9. /\ tx' = [tx EXCEPT !.work = IF r.ok THEN r.o ELSE PutErrors(r.o, tx.trigger),
                          !.todo = @ \ {c}, !.out = @ \cup r.send]
      /\ chain' = Broadcast(r.spend)
  BY <1>1, <1>2, <1>7
<1>10. tx'.work.msgs = r.o.msgs
  <2>1. Sound(r.o)
    BY <1>3, <1>4, <1>7, ProcessGood DEF Good
  <2>2. PutErrors(r.o, tx.trigger).msgs = r.o.msgs
    BY <2>1 DEF Sound, Order, PutErrors
  <2>3. tx'.work = IF r.ok THEN r.o ELSE PutErrors(r.o, tx.trigger)
    BY <1>3, <1>9 DEF TxState
  <2> QED BY <2>2, <2>3
<1>11. Settling(node, tx'.work, chain')
  BY <1>8, <1>9, <1>10 DEF Settling, Has
<1>12. \A t \in chain' : t.kind # "pay" => t.from # {}
  BY <1>9, BroadcastPays DEF EscrowBooks
<1> QED BY <1>2, <1>11, <1>12

LEMMA ReprocessEscrow ==
  ASSUME Inv, SentInv, EscrowInv, Single, Reprocess
  PROVE  EscrowInv'
<1> SUFFICES ASSUME deal.method = "MODERATED" PROVE EscrowInv'
  BY DEF EscrowInv, Reprocess
<1>1. EscrowBooks /\ EscrowCalls /\ EscrowDraft(tx)
  BY DEF EscrowInv
<1>2. PICK c \in tx.todo, send \in SUBSET Message :
        /\ c[1] \in Message
        /\ tx'.on = tx.on /\ tx'.peer = tx.peer /\ tx'.next = tx.next /\ tx'.spend = tx.spend
        /\ tx'.out = tx.out \cup send /\ tx'.todo \subseteq tx.todo
        /\ Leads(tx.work, c[1], tx'.work, send)
        /\ Sound(tx'.work) /\ Moves(tx.work, tx'.work)
        /\ chain \subseteq chain' /\ (deal.method # "MODERATED" => chain' = chain)
  BY ReprocessEffect
<1>3. UNCHANGED <<deal, order, net, issued, calls>>
  BY DEF Reprocess
<1>4. PICK node, o, p, m, out, spend :
        /\ node = tx.on /\ o = tx.work /\ p = tx'.work /\ m = c[1]
        /\ out = tx.out /\ spend = tx.spend
  OBVIOUS
<1>5. node \in Node /\ EscrowEnters(node, o, m, out, spend) /\ Backed(out, node, o)
  <2>1. tx # Idle /\ m \in issued \cup tx.out
    BY <1>2, <1>4 DEF Idle, SentInv
  <2> QED BY <1>1, <1>4, <2>1, DraftEnters
<1>6. Leads(o, m, p, send) /\ Moves(o, p) /\ Sound(p)
  BY <1>2, <1>4
<1>7. Backed(out, node, p)
  BY <1>5, <1>6, BackedStays DEF EscrowEnters
<1>8. Settling(node, p, chain') /\ \A t \in chain' : t.kind # "pay" => t.from # {}
  BY <1>1, <1>4, ReprocessSettles
<1>9. /\ tx'.on = node /\ tx'.work = p /\ tx'.out = out \cup send /\ tx'.spend = spend
      /\ chain \subseteq chain'
  BY <1>2, <1>4
<1>10. EscrowDraft(tx)'
  <2> HIDE <1>4
  <2> QED BY <1>1, <1>3, <1>5, <1>6, <1>7, <1>8, <1>9, DraftEscrow
<1> QED BY <1>1, <1>3, <1>8, <1>9, <1>10, EscrowStep

\* An idle node has nothing to pay for.
LEMMA IdleEscrow ==
  ASSUME tx' = Idle
  PROVE  EscrowDraft(tx)'
BY DEF EscrowDraft, Idle, NoOrder, Node

LEMMA AbortEscrow ==
  ASSUME EscrowInv, Abort
  PROVE  EscrowInv'
<1> SUFFICES ASSUME deal.method = "MODERATED" PROVE EscrowInv'
  BY DEF EscrowInv, Abort
<1>1. tx' = Idle /\ UNCHANGED <<deal, order, calls, net, issued, chain>>
  BY DEF Abort
<1>2. \A t \in chain' : t.kind # "pay" => t.from # {}
  BY <1>1 DEF EscrowInv, EscrowBooks
<1> QED BY <1>1, <1>2, IdleEscrow, EscrowStep DEF EscrowInv

LEMMA PayEscrow ==
  ASSUME EscrowInv, NEW p \in Payments, Pay(p)
  PROVE  EscrowInv'
<1> SUFFICES ASSUME deal.method = "MODERATED" PROVE EscrowInv'
  BY DEF EscrowInv, Pay
<1>1. /\ chain' = chain \cup {PaymentTx(p)} /\ PaymentTx(p).kind = "pay"
      /\ UNCHANGED <<deal, order, tx, calls, net, issued>>
  BY DEF Pay, PaymentTx
<1>2. EscrowBooks /\ EscrowCalls /\ EscrowDraft(tx)
  BY DEF EscrowInv
<1>3. Spent(chain) => Spent(chain')
  BY <1>1, SpendsGrow DEF Spent
<1>4. EscrowDraft(tx)'
  <2>1. \A x : Fine(x) => Fine(x)'
    BY <1>1, <1>3, FineStays
  <2>2. tx'.on \in Node => Carries(order'[tx'.on], tx'.work) /\ Settling(tx'.on, tx'.work, chain')
    BY <1>1, <1>2, <1>3 DEF EscrowDraft, Settling
  <2>3. \A m \in tx'.out :
          /\ Fine(m)'
          /\ m.type = "ORDER_OPEN" => tx'.on = "buyer" /\ tx'.work.open
          /\ m.type = "ORDER_FULFILLMENT" => tx'.on = "vendor" /\ Has(tx'.work, "ORDER_FULFILLMENT")
    BY <1>1, <1>2, <2>1 DEF EscrowDraft
  <2> QED BY <1>1, <1>2, <2>2, <2>3 DEF EscrowDraft
<1>5. \A t \in chain' : t.kind # "pay" => t.from # {}
  BY <1>1, <1>2 DEF EscrowBooks
<1> QED BY <1>1, <1>2, <1>4, <1>5, EscrowStep

LEMMA StartCallEscrow ==
  ASSUME Inv, SentInv, EscrowInv, NEW node \in Node, NEW op \in Op, StartCall(node, op)
  PROVE  EscrowInv'
<1> SUFFICES ASSUME deal.method = "MODERATED" PROVE EscrowInv'
  BY DEF EscrowInv, StartCall
<1>1. EscrowBooks /\ EscrowCalls /\ EscrowDraft(tx)
  BY DEF EscrowInv
<1>2. UNCHANGED <<deal, order, tx, net, redeliveries, issued, chain>>
  BY DEF StartCall
<1>3. PICK id \in 1..MaxCalls :
        calls' = calls \cup {[node |-> node, op |-> op, id |-> id, seen |-> order[node]]}
  BY DEF StartCall
<1>4. /\ op \in OpsOf(node) /\ order[node].open
      /\ op = "fulfill" => node = "vendor" /\ Has(order["vendor"], "ORDER_CONFIRMATION")
  BY DEF StartCall, CanCall, CanFulfill, OpsOf, Node
<1>5. \A f \in order[node].first : f \in issued /\ f.type = "ORDER_FULFILLMENT"
  BY DEF Inv, Sound, FirstStored, SentInv, Held
<1>6. EscrowCalls'
  BY <1>1, <1>2, <1>3, <1>4, <1>5 DEF EscrowCalls, EscrowBooks, Has
<1>7. EscrowBooks' /\ EscrowDraft(tx)'
  BY <1>1, <1>2 DEF EscrowBooks, EscrowDraft, Fine, Settling, Carries, Spent, Has
<1> QED BY <1>6, <1>7 DEF EscrowInv

\* An order is saved and its messages are sent.
LEMMA SaveEscrow ==
  ASSUME Inv, EscrowBooks, EscrowCalls, UNCHANGED <<deal, calls, chain>>, tx' = Idle,
         NEW node \in Node, NEW p, NEW send,
         order' = [order EXCEPT ![node] = p], net' = net \cup send, issued' = issued \cup send,
         Sound(p), Carries(order[node], p), Settling(node, p, chain), p.txs \subseteq chain,
         \A x \in send : Fine(x), Backed(send, node, p)
  PROVE  EscrowInv'
<1>1. \A n \in Node : order'[n] = IF n = node THEN p ELSE order[n]
  BY DEF Inv, TypeOK
<1>2. \A n \in Node : \A type :
        type # "RATING_SIGNATURES" /\ Has(order[n], type) => Has(order'[n], type)
  BY <1>1 DEF Carries, Has
<1>3. \A n \in Node : order[n].open => order'[n].open
  <2>1. \A n \in Node : Sound(order[n]) /\ Sound(order'[n])
    BY <1>1 DEF Inv
  <2> QED BY <1>2, <2>1 DEF Sound
<1>4. "buyer" \in Node /\ "vendor" \in Node
  BY DEF Node
<1>5. \A x \in issued' : Fine(x)'
  <2>1. \A x : Fine(x) => Fine(x)'
    BY <1>2, <1>3, <1>4, FineStays
  <2> QED BY <2>1 DEF EscrowBooks
<1>6. \A m \in issued' :
        /\ m.type = "ORDER_OPEN" => order'["buyer"].open
        /\ m.type = "ORDER_FULFILLMENT" => Has(order'["vendor"], "ORDER_FULFILLMENT")
  BY <1>1, <1>2, <1>3, <1>4 DEF EscrowBooks, Backed
<1>7. \A n \in Node : order'[n].txs \subseteq chain' /\ Settling(n, order'[n], chain')
  BY <1>1 DEF EscrowBooks
<1>8. \A m \in issued' \ net' :
        /\ m.type = "REFUND" => Spent(chain')
        /\ m.type = "ORDER_COMPLETE" => Spent(chain') \/ Has(order'["vendor"], "DISPUTE_OPEN")
  BY <1>2, <1>4 DEF EscrowBooks
<1>9. EscrowBooks'
  <2>1. \A t \in chain' : t.kind # "pay" => t.from # {}
    BY DEF EscrowBooks
  <2> QED BY <1>5, <1>6, <1>7, <1>8, <2>1 DEF EscrowBooks
<1>10. EscrowCalls'
  <2>1. \A c \in calls : c.node \in Node
    BY DEF Inv, TypeOK, Call
  <2> QED BY <1>2, <1>3, <1>4, <2>1 DEF EscrowCalls
<1> QED BY <1>9, <1>10, IdleEscrow DEF EscrowInv

LEMMA CommitEscrow ==
  ASSUME Inv, EscrowInv, Commit
  PROVE  EscrowInv'
<1> SUFFICES ASSUME deal.method = "MODERATED" PROVE EscrowInv'
  BY DEF EscrowInv, Commit
<1>1. EscrowBooks /\ EscrowCalls /\ EscrowDraft(tx)
  BY DEF EscrowInv
<1>2. PICK node, p, send, spend : node = tx.on /\ p = tx.work /\ send = tx.out /\ spend = tx.spend
  OBVIOUS
<1>3. node \in Node /\ Sound(p)
  BY <1>2 DEF Inv, TypeOK, TxState, Commit
<1>4. spend = {}
  BY <1>1, <1>2 DEF EscrowDraft
<1>5. Broadcast(spend) = chain
  BY <1>4, BroadcastGrows
<1>6. /\ order' = [order EXCEPT ![node] = p] /\ net' = net \cup send /\ issued' = issued \cup send
      /\ UNCHANGED <<deal, calls, chain>> /\ tx' = Idle
  BY <1>2, <1>5 DEF Commit
<1>7. /\ Carries(order[node], p) /\ Settling(node, p, chain) /\ p.txs \subseteq chain
      /\ Backed(send, node, p) /\ \A x \in send : Fine(x)
  BY <1>1, <1>2, <1>3 DEF EscrowDraft, Backed
<1> HIDE <1>2
<1> HIDE <1>4
<1> QED BY <1>1, <1>3, <1>6, <1>7, SaveEscrow

LEMMA WalletTransactionEscrow ==
  ASSUME Inv, EscrowInv, NEW node \in Node, NEW t \in chain, WalletTransaction(node, t)
  PROVE  EscrowInv'
<1>1. PICK p, send, m :
        /\ order' = [order EXCEPT ![node] = p]
        /\ net' = net \cup send /\ issued' = issued \cup send
        /\ m \in order[node].msgs /\ m.type = "ORDER_OPEN"
        /\ Leads(order[node], m, p, send) /\ Sound(p) /\ Moves(order[node], p)
        /\ tx = Idle /\ UNCHANGED <<deal, tx, calls, redeliveries, chain>>
  BY WalletTransactionEffect
<1> SUFFICES ASSUME deal.method = "MODERATED" PROVE EscrowInv'
  BY <1>1 DEF EscrowInv
<1>2. EscrowBooks /\ EscrowCalls
  BY DEF EscrowInv
<1>3. PICK o : o = order[node] /\ Sound(o)
  BY DEF Inv
<1>4. Carries(o, p) /\ p.txs \subseteq chain /\ Settling(node, o, chain)
  BY <1>1, <1>2, <1>3, MovesCarry DEF Leads, EscrowBooks
<1>5. Settling(node, p, chain)
  <2>1. Leads(o, m, p, send)
    BY <1>1, <1>3
  <2>2. \A type \in {"REFUND", "ORDER_COMPLETE"} : Has(p, type) => Has(o, type)
    BY <1>1, <2>1, StoredByLeads
  <2>3. Has(o, "DISPUTE_OPEN") => Has(p, "DISPUTE_OPEN")
    BY <1>4 DEF Carries, Has
  <2> QED BY <1>4, <2>2, <2>3 DEF Settling
<1>6. \A x \in send : Fine(x) /\ x.type \notin {"ORDER_OPEN", "ORDER_FULFILLMENT"}
  BY <1>1, AutomaticFine DEF Leads
<1>7. Backed(send, node, p)
  BY <1>6 DEF Backed
<1>8. tx' = Idle /\ UNCHANGED <<deal, calls, chain>> /\ Carries(order[node], p)
  BY <1>1, <1>3, <1>4
<1> QED BY <1>1, <1>2, <1>4, <1>5, <1>6, <1>7, <1>8, SaveEscrow

\* An escrow release built from transactions of the chain spends something, unless all
\* of what it knows is spent.
LEMMA ReleaseFine ==
  ASSUME NEW s, s.txs \subseteq chain, chain \subseteq Tx, s.txs # {}, deal.method = "MODERATED",
         \A t \in chain : t.kind # "pay" => t.from # {}
  PROVE  EscrowRelease(s) # {} \/ Spent(chain)
<1>1. EscrowRelease(s) = Paid(s.txs) \ Spends(s.txs)
  BY DEF EscrowRelease, Unspent
<1>2. Spends(s.txs) \subseteq Spends(chain)
  BY SpendsGrow
<1>3. PICK t \in s.txs : TRUE
  OBVIOUS
<1>4. t.from # {}
  BY <1>3 DEF Tx, PaymentTx, SpendType
<1>5. t.from \subseteq Paid(s.txs) \/ t.from \subseteq Spends(s.txs)
  BY <1>3 DEF Paid, Spends
<1> QED BY <1>1, <1>2, <1>4, <1>5 DEF Spent

\* What the calls of a moderated order send is fine.
LEMMA RefundFine ==
  ASSUME Inv, SentInv, EscrowBooks, EscrowCalls, deal.method = "MODERATED",
         NEW c \in calls, c.node = "vendor", NEW r \in RefundMessages(c.seen)
  PROVE  Fine(r) /\ r.type = "REFUND"
<1>1. PICK s : s = c.seen
  OBVIOUS
<1>2. /\ s.txs \subseteq chain /\ chain \subseteq Tx
      /\ \A t \in chain : t.kind # "pay" => t.from # {}
  BY <1>1 DEF EscrowCalls, EscrowBooks, Inv, TypeOK
<1>3. s.txs # {}
  BY <1>1 DEF RefundMessages, Releasable
<1>4. EscrowRelease(s) # {} \/ Spent(chain)
  BY <1>2, <1>3, ReleaseFine
<1>5. order["buyer"].open
  <2>1. order["vendor"].open
    BY DEF EscrowCalls
  <2>2. PICK x \in order["vendor"].msgs : x.type = "ORDER_OPEN"
    BY <2>1 DEF Inv, Sound, Has, Node
  <2>3. x \in issued
    BY <2>2 DEF SentInv, Held, Node
  <2> QED BY <2>2, <2>3 DEF EscrowBooks
<1>6. r.type = "REFUND" /\ r.by = "vendor" /\ r.from = EscrowRelease(s)
  BY <1>1 DEF RefundMessages, Msg
<1> QED BY <1>4, <1>5, <1>6 DEF Fine

LEMMA CallFine ==
  ASSUME Inv, SentInv, EscrowBooks, EscrowCalls, deal.method = "MODERATED",
         NEW c \in calls, NEW m \in CallMessages(c)
  PROVE  /\ Fine(m) /\ m.type # "ORDER_OPEN" /\ m.type = OpType[c.op]
         /\ m.type = "ORDER_FULFILLMENT" => c.op = "fulfill" /\ c.node = "vendor" /\ m.by = "vendor"
<1>1. c \in Call /\ c.op \in Op /\ c.node \in Node /\ c.op \in OpsOf(c.node)
  BY DEF Inv, TypeOK, Call, EscrowCalls
<1>2. m.type = OpType[c.op] /\ (c.op = "refund" \/ m.by = c.node)
  BY <1>1, CallMessagesBuilt
<1>3. c.op # "cancel"
  BY DEF CallMessages, CancelMessages, CancelableRelease
<1>4. PICK s : s = c.seen
  OBVIOUS
<1>5. s.txs # {} => EscrowRelease(s) # {} \/ Spent(chain)
  <2>1. /\ s.txs \subseteq chain /\ chain \subseteq Tx
        /\ \A t \in chain : t.kind # "pay" => t.from # {}
    BY <1>4 DEF EscrowCalls, EscrowBooks, Inv, TypeOK
  <2> QED BY <2>1, ReleaseFine
<1>6. CASE c.op = "refund"
  <2>1. c.node = "vendor" /\ m \in RefundMessages(c.seen)
    BY <1>1, <1>6 DEF OpsOf, Node, CallMessages
  <2> QED BY <1>2, <1>6, <2>1, RefundFine DEF OpType
<1>7. CASE c.op = "fulfill"
  <2>1. c.node = "vendor"
    BY <1>1, <1>7 DEF OpsOf, Node
  <2>2. s.txs # {} /\ m.k \in Items /\ m.from = EscrowRelease(s)
    BY <1>4, <1>7 DEF CallMessages, FulfillMessages, Releasable, Answer, Msg
  <2> QED BY <1>2, <1>5, <1>7, <2>1, <2>2 DEF Fine, OpType
<1>8. CASE c.op = "complete"
  <2>1. c.node = "buyer"
    BY <1>1, <1>8 DEF OpsOf, Node
  <2>2. PICK f \in s.first : m.k = f.k /\ m.from = EscrowRelease(s) /\ s.txs # {}
    BY <1>4, <1>8 DEF CallMessages, CompleteMessages, Releasable, Answer, Msg
  <2>3. f \in issued /\ f.type = "ORDER_FULFILLMENT"
    BY <1>4, <2>2 DEF EscrowCalls
  <2>4. f.k \in Items /\ Has(order["vendor"], "ORDER_FULFILLMENT")
    BY <2>3 DEF EscrowBooks, Fine
  <2> QED BY <1>2, <1>5, <1>8, <2>1, <2>2, <2>4 DEF Fine, OpType
<1>9. CASE c.op \in {"confirm", "reject", "dispute"}
  BY <1>2, <1>9 DEF Fine, OpType
<1> QED BY <1>1, <1>3, <1>6, <1>7, <1>8, <1>9 DEF Op

\* The fulfillment of a confirmed order is stored, if it is not there already.
LEMMA FulfillStores ==
  ASSUME NEW o, Sound(o), o.open, Has(o, "ORDER_CONFIRMATION"), ~Has(o, "ORDER_REJECT"),
         NEW m \in Message, m.type = "ORDER_FULFILLMENT", NEW node, NEW peer, peer = m.by,
         NEW next, NEW out, NEW spend, Enter(node, o, peer, m, next, out, spend)
  PROVE  Has(tx'.work, "ORDER_FULFILLMENT")
<1>1. tx'.work = OrderFulfillment(o, m).o
  <2>1. o # NoOrder
    BY DEF NoOrder
  <2>2. Process(node, o, m.by, m) = OrderFulfillment(o, m)
    BY DEF Process
  <2> QED BY <2>1, <2>2 DEF Enter
<1>2. CASE IsRepeat(deal.method, o, m)
  <2>1. OrderFulfillment(o, m).o = o
    BY <1>2 DEF OrderFulfillment, Receive, ListType, Fail, Done
  <2> QED BY <1>1, <1>2, <2>1 DEF IsRepeat, Repeats, Has
<1>3. CASE ~IsRepeat(deal.method, o, m)
  <2>1. OrderFulfillment(o, m).o = Put(o, m)
    BY <1>3 DEF OrderFulfillment, Receive, ListType, Done
  <2>2. m \in Put(o, m).msgs
    BY PutFields DEF Sound
  <2> QED BY <1>1, <2>1, <2>2 DEF Has
<1> QED BY <1>2, <1>3

LEMMA RunCallEscrow ==
  ASSUME Inv, SentInv, NeverRejectedAndConfirmed, EscrowInv, Single, NEW c \in calls, RunCall(c)
  PROVE  EscrowInv'
<1> SUFFICES ASSUME deal.method = "MODERATED" PROVE EscrowInv'
  BY DEF EscrowInv, RunCall
<1>1. EscrowBooks /\ EscrowCalls
  BY DEF EscrowInv
<1>2. PICK node, o : node = c.node /\ o = order[node]
  OBVIOUS
<1>3. /\ c \in Call /\ node \in Node /\ Sound(o) /\ o.open /\ Held(o) \subseteq issued
      /\ Settling(node, o, chain) /\ o.txs \subseteq chain /\ Carries(order[node], o)
      /\ IsFiniteSet(issued) /\ c.op \in OpsOf(node) /\ c.seen \in Order
  BY <1>1, <1>2 DEF Inv, TypeOK, Call, SentInv, EscrowBooks, EscrowCalls, Carries
<1>4. UNCHANGED <<deal, order, net, issued>> /\ calls' \subseteq calls
  BY DEF RunCall
<1>5. CASE UNCHANGED <<tx, chain>>
  <2>1. tx' = Idle /\ \A t \in chain' : t.kind # "pay" => t.from # {}
    BY <1>1, <1>5 DEF RunCall, EscrowBooks
  <2> QED BY <1>1, <1>4, <1>5, <2>1, IdleEscrow, EscrowStep
<1>6. ASSUME NEW m \in Message, NEW next, NEW out, NEW spend, m \in out,
             EscrowEnters(node, o, m, out, spend), Enter(node, o, node, m, next, out, spend),
             \A x \in out : x.type # "ORDER_OPEN",
             \A x \in out : x.type = "ORDER_FULFILLMENT" =>
               x = m /\ node = "vendor" /\ m.by = "vendor" /\ c.op = "fulfill"
      PROVE  EscrowInv'
  <2>1. m.type = "ORDER_FULFILLMENT" => Has(tx'.work, "ORDER_FULFILLMENT")
    <3> SUFFICES ASSUME m.type = "ORDER_FULFILLMENT" PROVE Has(tx'.work, "ORDER_FULFILLMENT")
      OBVIOUS
    <3>1. node = "vendor" /\ m.by = "vendor" /\ c.op = "fulfill"
      BY <1>6
    <3>2. Has(o, "ORDER_CONFIRMATION")
      BY <1>1, <1>2, <3>1 DEF EscrowCalls
    <3>3. ~Has(o, "ORDER_REJECT")
      BY <1>2, <1>3, <3>2 DEF NeverRejectedAndConfirmed
    <3>4. PICK peer : peer = m.by
      OBVIOUS
    <3>5. Enter(node, o, peer, m, next, out, spend)
      BY <1>6, <3>1, <3>4
    <3> QED BY <1>3, <3>2, <3>3, <3>4, <3>5, FulfillStores
  <2>2. Backed(out, node, tx'.work)
    BY <1>6, <2>1 DEF Backed
  <2>3. /\ EscrowDraft(tx)' /\ chain \subseteq chain'
        /\ \A t \in chain' : t.kind # "pay" => t.from # {}
    BY <1>1, <1>3, <1>4, <1>6, <2>2, EnterEscrow
  <2> QED BY <1>1, <1>4, <2>3, EscrowStep
<1>7. ASSUME NEW m \in CallMessages(c)
      PROVE  m \in Message /\ CallSpends(m) = {}
  <2>1. m \in Message
    BY <1>3, CallMessagesType
  <2> QED BY <2>1 DEF CallSpends
<1>8. ASSUME NEW m \in CallMessages(c),
             Enter(c.node, order[c.node], c.node, m, {}, {m}, CallSpends(m))
      PROVE  EscrowInv'
  <2>1. PICK out, spend, next : out = {m} /\ spend = CallSpends(m) /\ next = {}
    OBVIOUS
  <2>2. Fine(m) /\ m.type # "ORDER_OPEN" /\ m \in Message /\ spend = {} /\ m \in out
    BY <1>1, <1>7, <2>1, CallFine
  <2>3. EscrowEnters(node, o, m, out, spend)
    BY <1>3, <2>1, <2>2 DEF EscrowEnters
  <2>4. Enter(node, o, node, m, next, out, spend)
    BY <1>2, <1>8, <2>1
  <2>5. \A x \in out : x.type = "ORDER_FULFILLMENT" =>
          x = m /\ node = "vendor" /\ m.by = "vendor" /\ c.op = "fulfill"
    BY <1>1, <1>2, <2>1, CallFine
  <2> QED BY <1>6, <2>1, <2>2, <2>3, <2>4, <2>5
<1>9. ASSUME NEW m \in CallMessages(c), NEW r \in RefundMessages(c.seen), c.op = "reject",
             Enter(c.node, order[c.node], c.node, m, {r}, {m, r}, CallSpends(r))
      PROVE  EscrowInv'
  <2>1. PICK out, spend, next : out = {m, r} /\ spend = CallSpends(r) /\ next = {r}
    OBVIOUS
  <2>2. c.node = "vendor"
    BY <1>2, <1>3, <1>9 DEF OpsOf, Node
  <2>3. Fine(r) /\ r.type = "REFUND"
    BY <1>1, <2>2, RefundFine
  <2>4. Fine(m) /\ m.type = "ORDER_REJECT" /\ m \in Message /\ m \in out
    BY <1>1, <1>7, <1>9, <2>1, CallFine DEF OpType
  <2>5. EscrowEnters(node, o, m, out, spend)
    BY <1>3, <2>1, <2>3, <2>4 DEF EscrowEnters, CallSpends
  <2>6. Enter(node, o, node, m, next, out, spend)
    BY <1>2, <1>9, <2>1
  <2>7. \A x \in out : x.type \notin {"ORDER_OPEN", "ORDER_FULFILLMENT"}
    BY <2>1, <2>3, <2>4
  <2> QED BY <1>6, <2>4, <2>5, <2>6, <2>7
<1> QED BY <1>5, <1>8, <1>9 DEF RunCall, AlsoRefunds

LEMMA EscrowInvariance ==
  ASSUME Single
  PROVE  Spec => []EscrowInv
<1>1. Init => EscrowInv
  BY DEF Init, EscrowInv, EscrowBooks, EscrowDraft, EscrowCalls, Idle, NoOrder, Settling, Has, Node
<1>2. Inv /\ SentInv /\ NeverRejectedAndConfirmed /\ EscrowInv /\ [Next]_vars => EscrowInv'
  <2> SUFFICES ASSUME Inv, SentInv, NeverRejectedAndConfirmed, EscrowInv, [Next]_vars
               PROVE  EscrowInv'
    OBVIOUS
  <2>1. CASE UNCHANGED vars
    BY <2>1 DEF vars, EscrowInv, EscrowBooks, EscrowDraft, EscrowCalls, Fine, Settling, Carries, Spent, Has
  <2>2. CASE Next
    BY <2>2, PurchaseEscrow, PayEscrow, StartCallEscrow, RunCallEscrow, DeliverEscrow,
       WalletTransactionEscrow, ReprocessEscrow, ProcessNextEscrow, CommitEscrow, AbortEscrow DEF Next
  <2> QED BY <2>1, <2>2
<1> QED BY Invariance, SentInvariance, RejectionExcludesConfirmation, <1>1, <1>2, PTL DEF Spec

\* CompleteOrder and RefundOrder, for a moderated order of one item that the buyer
\* pays at once: once it is completed or refunded and nobody disputes it, no money
\* is left in escrow, however the messages and calls of the two parties cross.
THEOREM ModeratedMoneyLeaves ==
  ASSUME \A p, q \in Payments : p = q, \A i, j \in Items : i = j
  PROVE  Spec => []ModeratedSettled
<1>1. Inv /\ SentInv /\ EscrowInv => ModeratedSettled
  <2> SUFFICES ASSUME Inv, SentInv, EscrowInv, Quiet, deal.method = "MODERATED", NEW node \in Node,
                      Has(order[node], "ORDER_COMPLETE") \/ Has(order[node], "REFUND"),
                      \A n \in Node : ~Has(order[n], "DISPUTE_OPEN")
               PROVE  Settled
    BY DEF ModeratedSettled
  <2>1. PICK m \in order[node].msgs : m.type \in {"ORDER_COMPLETE", "REFUND"}
    BY DEF Has
  <2>2. m \in issued \ net
    BY <2>1 DEF SentInv, Held, Quiet
  <2>3. Spent(chain)
    BY <2>1, <2>2 DEF EscrowInv, EscrowBooks, Node
  <2>4. Spends(chain) \subseteq Payments /\ Paid(chain) \subseteq Payments
    <3>1. \A t \in Tx : t.from \subseteq Payments
      BY DEF Tx, PaymentTx
    <3>2. chain \subseteq Tx
      BY DEF Inv, TypeOK
    <3> QED BY <3>1, <3>2 DEF Paid, Spends
  <2> QED BY <2>3, <2>4 DEF Settled, Spent
<1>2. Single
  BY DEF Single
<1> QED BY Invariance, SentInvariance, EscrowInvariance, <1>1, <1>2, PTL

-----------------------------------------------------------------------------
(* Agreement: every message sent is stored, or has its reason to wait *)

\* A message that is parked, and has reason to be.
Waiting(o, m) ==
  /\ \E c \in o.parked : c[1] = m
  /\ ~o.open \/ (m.type = "ORDER_FULFILLMENT" /\ ~Has(o, "ORDER_CONFIRMATION"))

Placed(o, m) == m \in o.msgs \/ Waiting(o, m)

Buyers == {"ORDER_OPEN", "ORDER_CANCEL", "ORDER_COMPLETE", "PAYMENT_SENT"}

\* Each party sends messages of its own kinds, and an answer follows what it answers.
Rightful(m) ==
  /\ m.type # "DISPUTE_UPDATE"
  /\ m.type # "DISPUTE_OPEN" => m.by = IF m.type \in Buyers THEN "buyer" ELSE "vendor"
  /\ m.type = "REFUND" => deal.method # "CANCELABLE"
  /\ m.type = "ORDER_CANCEL" => deal.method = "CANCELABLE"
  /\ m.type = "ORDER_FULFILLMENT" => \E x \in issued : x.type = "ORDER_CONFIRMATION"
  /\ m.type = "ORDER_COMPLETE" => \E x \in issued : x.type = "ORDER_FULFILLMENT"

\* What a handler at the node sends is its own, and stored.
Owns(node, r) ==
  \A x \in r.send : x.by = node /\ x.type \in Automatic /\ Rightful(x) /\ x \in r.o.msgs

\* What was parked stays so, and only a message that comes too early is added.
Parks(o, m, p) ==
  /\ o.parked \subseteq p.parked
  /\ p.parked # o.parked =>
       \/ ~o.open /\ m.type # "ORDER_OPEN"
       \/ m.type = "ORDER_FULFILLMENT" /\ ~Has(o, "ORDER_CONFIRMATION")

LEMMA DoneOwns ==
  ASSUME NEW node, NEW o
  PROVE  Owns(node, Done(o)) /\ Owns(node, Fail(o)) /\ Done(o).o = o /\ Fail(o).o = o
BY DEF Owns, Done, Fail

LEMMA PutParks ==
  ASSUME NEW o \in Order, NEW x
  PROVE  Put(o, x).parked = o.parked /\ x \in Put(o, x).msgs
BY DEF Put, Order

LEMMA ReceiveKeeps ==
  ASSUME NEW node, NEW o \in Order, NEW m, NEW after, NEW handle, m.type # "ORDER_OPEN",
         Owns(node, handle), Parks(o, m, handle.o)
  PROVE  LET r == Receive(o, m, after, handle) IN Owns(node, r) /\ Parks(o, m, r.o)
<1>1. Parks(o, m, o) /\ (~o.open => Parks(o, m, Park(o, m)))
  BY DEF Parks, Park, Order
<1> QED BY <1>1, DoneOwns DEF Receive

LEMMA IncomingPaymentKeeps ==
  ASSUME NEW node \in Node, NEW o \in Order, NEW p \in Payments
  PROVE  LET r == IncomingPayment(node, o, p)
         IN  Owns(node, r) /\ r.o.parked = o.parked
<1> DEFINE paid == PutTransaction(o, PaymentTx(p))
           type == IF node = "buyer" THEN "PAYMENT_SENT" ELSE "RATING_SIGNATURES"
           x == Msg(type, node, 1, 0, {p})
<1>1. PaymentTx(p) \in Tx BY DEF Tx
<1>2. paid \in Order /\ paid.parked = o.parked
  BY <1>1 DEF PutTransaction, Order
<1>3. x.type = type /\ x.by = node
  BY DEF Msg
<1>4. x.type \in Automatic /\ Rightful(x)
  BY <1>3 DEF Automatic, Rightful, Buyers, Node
<1>5. Owns(node, [Done(Put(paid, x)) EXCEPT !.send = {x}]) /\ Put(paid, x).parked = o.parked
  <2> HIDE DEF paid, x
  <2>1. Put(paid, x).parked = paid.parked /\ x \in Put(paid, x).msgs
    BY <1>2, PutParks
  <2> QED BY <1>2, <1>3, <1>4, <2>1 DEF Owns, Done
<1>6. [Done(Put(paid, x)) EXCEPT !.send = {x}].o = Put(paid, x)
  BY DEF Done
<1> QED BY <1>2, <1>5, <1>6, DoneOwns DEF IncomingPayment, RatingsFor

LEMMA OrderOpenKeeps ==
  ASSUME NEW node \in Node, NEW o \in Order, NEW m \in Message, m.type = "ORDER_OPEN"
  PROVE  LET r == OrderOpen(node, o, m) IN Owns(node, r) /\ Parks(o, m, r.o)
<1> DEFINE reject == Msg("ORDER_REJECT", node, 0, 0, {})
           q == Put(o, reject)
<1>1. reject \in Message /\ reject.type = "ORDER_REJECT" /\ reject.by = node
  BY MsgType DEF MessageType, Msg
<1>2. ~Validates(node) => node = "vendor"
  BY DEF Validates
<1>3. ~Validates(node) => reject.type \in Automatic /\ Rightful(reject)
  BY <1>1, <1>2 DEF Automatic, Rightful, Buyers
<1>4. q \in Order /\ q.parked = o.parked /\ reject \in q.msgs
  BY <1>1, PutFields, PutParks
<1> HIDE DEF reject, q
<1>5. /\ Put(q, m).msgs = {x \in q.msgs : m.type \in ListType \/ x.type # m.type} \cup {m}
      /\ Put(q, m).parked = q.parked
  BY <1>4, PutFields, PutParks
<1>6. ~Validates(node) => Owns(node, [Done(Put(q, m)) EXCEPT !.send = {reject}])
  BY <1>1, <1>3, <1>4, <1>5 DEF Owns, Done
<1>7. [Done(Put(q, m)) EXCEPT !.send = {reject}].o = Put(q, m)
  BY DEF Done
<1>8. Put(o, m).parked = o.parked
  BY PutParks
<1> QED BY <1>4, <1>5, <1>6, <1>7, <1>8, DoneOwns DEF OrderOpen, Parks, q, reject

LEMMA SpendKeeps ==
  ASSUME NEW o \in Order, NEW m, NEW method, chain \subseteq Tx
  PROVE  /\ RecordSpend(o, m, method) \in Order
         /\ RecordSpend(o, m, method).parked = o.parked
         /\ RecordSpend(o, m, method).msgs = o.msgs
BY DEF RecordSpend, PutTransaction, Order

LEMMA ProcessKeeps ==
  ASSUME NEW node \in Node, NEW o \in Order, NEW peer, NEW m \in Message, chain \subseteq Tx
  PROVE  LET r == Process(node, o, peer, m) IN Owns(node, r) /\ Parks(o, m, r.o)
<1>1. /\ Parks(o, m, o) /\ Parks(o, m, Put(o, m))
      /\ m.type = "ORDER_FULFILLMENT" /\ ~Has(o, "ORDER_CONFIRMATION") => Parks(o, m, Park(o, m))
      /\ Owns(node, Done(Put(o, m))) /\ Done(Put(o, m)).o = Put(o, m)
  BY PutParks, DoneOwns DEF Parks, Park, Order
<1>2. \A q : /\ Owns(node, Done(q)) /\ Owns(node, Fail(q)) /\ Done(q).o = q /\ Fail(q).o = q
             /\ \A s : /\ Owns(node, [Done(q) EXCEPT !.spend = s])
                       /\ [Done(q) EXCEPT !.spend = s].o = q
  BY DEF Owns, Done, Fail
<1>3. \A method : /\ Put(RecordSpend(o, m, method), m).parked = o.parked
                  /\ RecordSpend(Put(o, m), m, method).parked = o.parked
  BY SpendKeeps, PutParks, PutFields
<1>4. \A method : /\ Parks(o, m, Put(RecordSpend(o, m, method), m))
                  /\ Parks(o, m, RecordSpend(Put(o, m), m, method))
  BY <1>3 DEF Parks
<1>5. CASE m.type = "ORDER_REJECT"
  BY <1>1, <1>5, <1>2, ReceiveKeeps DEF OrderReject, Process
<1>6. CASE m.type = "ORDER_CANCEL"
  BY <1>1, <1>2, <1>4, <1>6, ReceiveKeeps DEF OrderCancel, Process
<1>7. CASE m.type = "ORDER_CONFIRMATION"
  BY <1>1, <1>2, <1>4, <1>7, ReceiveKeeps DEF OrderConfirmation, Process
<1>8. CASE m.type = "RATING_SIGNATURES"
  BY <1>1, <1>8, <1>2, ReceiveKeeps DEF RatingSignatures, Process
<1>9. CASE m.type = "ORDER_FULFILLMENT"
  BY <1>1, <1>9, <1>2, ReceiveKeeps DEF OrderFulfillment, Process
<1>10. CASE m.type = "ORDER_COMPLETE"
  <2> DEFINE release == node = "vendor" /\ deal.method = "MODERATED" /\ ~Has(o, "DISPUTE_OPEN")
             s == IF release /\ (\E f \in o.first : f.from = m.from /\ f.k = m.k)
                  THEN {TxOf(m)} ELSE {}
             handle == IF release /\ o.first = {} THEN Fail(o)
                       ELSE [Done(Put(o, m)) EXCEPT !.spend = s]
  <2>1. OrderComplete(node, o, m) = Receive(o, m, {"ORDER_CANCEL"}, handle)
    BY DEF OrderComplete
  <2> HIDE DEF release, s
  <2>2. Owns(node, handle) /\ Parks(o, m, handle.o)
    BY <1>1, <1>2
  <2> HIDE DEF handle
  <2> QED BY <1>10, <2>1, <2>2, DoneOwns, ReceiveKeeps, <1>1 DEF Process
<1>11. CASE m.type = "DISPUTE_OPEN"
  <2> DEFINE update == Msg("DISPUTE_UPDATE", node, 1, 0, {})
  <2>1. update \in Message
    BY MsgType DEF MessageType
  <2>2. Put(Put(o, update), m).parked = o.parked
    BY <2>1, PutParks, PutFields
  <2> HIDE DEF update
  <2>3. Parks(o, m, Put(Put(o, update), m))
    BY <2>2 DEF Parks
  <2> QED BY <1>1, <1>11, <1>2, <2>3, ReceiveKeeps DEF DisputeOpen, Process, update
<1>12. CASE m.type = "REFUND"
  <2> DEFINE s == IF node = "buyer" /\ deal.method = "MODERATED" THEN {TxOf(m)} ELSE {}
             q == RecordSpend(Put(o, m), m, "DIRECT")
             r == [Done(q) EXCEPT !.spend = s]
             handle == IF IsRepeat(deal.method, o, m) THEN Done(o) ELSE r
  <2>1. Refund(node, o, m) = Receive(o, m, {"ORDER_CANCEL"}, handle)
    BY DEF Refund
  <2>2. Parks(o, m, q)
    BY <1>4
  <2>3. Owns(node, r) /\ r.o = q
    BY <1>2
  <2> HIDE DEF s, q, r
  <2>4. Owns(node, handle) /\ Parks(o, m, handle.o)
    BY <1>1, <1>2, <2>2, <2>3
  <2> HIDE DEF handle
  <2> QED BY <1>12, <2>1, <2>4, DoneOwns, ReceiveKeeps, <1>1 DEF Process
<1>13. CASE m.type = "PAYMENT_SENT"
  <2> DEFINE p == CHOOSE q \in m.from : TRUE
  <2>1. ASSUME PaymentTx(p) \in chain
        PROVE  LET r == IncomingPayment(node, Put(o, m), p)
               IN  Owns(node, r) /\ Parks(o, m, r.o)
    <3>1. PaymentTx(p) \in Tx => \E q \in Payments : PaymentTx(p) = PaymentTx(q)
      BY DEF Tx, PaymentTx, SpendType
    <3>2. \A q : PaymentTx(q).from = {q}
      BY DEF PaymentTx
    <3>3. p \in Payments
      BY <2>1, <3>1, <3>2
    <3>4. Put(o, m) \in Order /\ Put(o, m).parked = o.parked
      BY PutFields, PutParks
    <3> HIDE DEF p
    <3> QED BY <3>3, <3>4, IncomingPaymentKeeps DEF Parks
  <2> HIDE DEF p
  <2> QED BY <1>1, <1>2, <1>13, <2>1, ReceiveKeeps DEF PaymentSent, Process, p
<1>14. CASE m.type = "ORDER_OPEN"
  BY <1>1, <1>2, <1>14, OrderOpenKeeps DEF Process
<1>15. CASE m.by # peer \/ m.type = "DISPUTE_UPDATE"
  BY <1>1, <1>2, <1>15 DEF Process
<1> QED BY <1>5, <1>6, <1>7, <1>8, <1>9, <1>10, <1>11, <1>12, <1>13, <1>14, <1>15
        DEF Message, MessageType

-----------------------------------------------------------------------------
(* A message that competes with no other is stored, or waits *)

LEMMA ParkWaits ==
  ASSUME NEW o \in Order, NEW m \in Message,
         ~o.open \/ (m.type = "ORDER_FULFILLMENT" /\ ~Has(o, "ORDER_CONFIRMATION"))
  PROVE  Placed(Park(o, m), m)
<1>1. <<m, 1>> \in Park(o, m).parked
  BY DEF Park, Order, ParkCap
<1>2. Park(o, m).open = o.open /\ Park(o, m).msgs = o.msgs
  BY DEF Park, Order
<1> QED BY <1>1, <1>2 DEF Placed, Waiting, Has

LEMMA ReceivePlaces ==
  ASSUME NEW o \in Order, NEW m \in Message, NEW after, NEW handle,
         \A x \in o.msgs : x.type = m.type => x = m \/ m.type \in ListType,
         \A type \in after : ~Has(o, type),
         o.open => Placed(handle.o, m)
  PROVE  Placed(Receive(o, m, after, handle).o, m)
<1>1. Done(o).o = o /\ Done(Park(o, m)).o = Park(o, m)
  BY DEF Done
<1>2. m \in o.msgs => Placed(o, m)
  BY DEF Placed
<1>3. m.type \notin ListType /\ Has(o, m.type) => m \in o.msgs
  BY DEF Has
<1> QED BY <1>1, <1>2, <1>3, ParkWaits DEF Receive

\* The order o is ready for m: m is one of the messages s, to which all that o holds
\* belongs, and in which none competes with another.
Ready(node, o, m, s) ==
  /\ Held(o) \cup {m} \cup issued \subseteq s
  /\ Orderly(s) /\ \A x \in s : Rightful(x)
  /\ m.type = "ORDER_COMPLETE" /\ node = "vendor" => Has(o, "ORDER_FULFILLMENT")

LEMMA ReadyFacts ==
  ASSUME NEW node, NEW o, NEW m \in Message, NEW s, Ready(node, o, m, s)
  PROVE  /\ m.type \notin {"DISPUTE_OPEN", "DISPUTE_UPDATE"}
         /\ \A x \in o.msgs : x.type = m.type => x = m \/ m.type \in ListType
         /\ m.type = "ORDER_REJECT" => ~Has(o, "ORDER_CONFIRMATION")
         /\ m.type \in {"ORDER_CONFIRMATION", "ORDER_FULFILLMENT"} => ~Has(o, "ORDER_REJECT")
         /\ m.type \in {"ORDER_COMPLETE", "REFUND"} => ~Has(o, "ORDER_CANCEL")
         /\ IsRepeat(deal.method, o, m) => m \in o.msgs
<1>1. /\ \A x \in o.msgs : x.type # "DISPUTE_UPDATE" => x \in s
      /\ m \in s /\ issued \subseteq s
  BY DEF Ready, Held
<1>2. m.type \notin {"DISPUTE_OPEN", "DISPUTE_UPDATE"}
  BY <1>1 DEF Ready, Orderly, Rightful
<1>3. \A x, y \in s : x # y => ~Competes(x, y)
  BY DEF Ready, Orderly
<1>4. ASSUME NEW x \in o.msgs, x.type = m.type PROVE x = m \/ m.type \in ListType
  BY <1>1, <1>2, <1>3, <1>4 DEF Competes
<1>5. ASSUME NEW x \in s, NEW y \in s
      PROVE  ~(x.type = "ORDER_REJECT" /\ y.type = "ORDER_CONFIRMATION")
  BY <1>3 DEF Competes
<1>6. ASSUME NEW x \in s, NEW y \in s
      PROVE  ~(x.type = "ORDER_CANCEL" /\ y.type = "ORDER_COMPLETE")
  BY <1>3 DEF Competes
<1>7. m.type = "ORDER_FULFILLMENT" => \E y \in s : y.type = "ORDER_CONFIRMATION"
  BY <1>1 DEF Ready, Rightful
<1>8. m.type = "REFUND" => ~Has(o, "ORDER_CANCEL")
  BY <1>1 DEF Ready, Rightful, Has
<1>9. IsRepeat(deal.method, o, m) => m \in o.msgs
  BY <1>1, <1>2, <1>3 DEF IsRepeat, Repeats, Competes
<1> QED BY <1>1, <1>2, <1>4, <1>5, <1>6, <1>7, <1>8, <1>9 DEF Has

LEMMA IncomingPaymentLeaves ==
  ASSUME NEW node \in Node, NEW o \in Order, NEW m \in o.msgs, m.type = "PAYMENT_SENT",
         NEW p \in Payments
  PROVE  m \in IncomingPayment(node, o, p).o.msgs
<1> DEFINE paid == PutTransaction(o, PaymentTx(p))
           x == Msg(IF node = "buyer" THEN "PAYMENT_SENT" ELSE "RATING_SIGNATURES", node, 1, 0, {p})
<1>1. PaymentTx(p) \in Tx BY DEF Tx
<1>2. paid \in Order /\ paid.msgs = o.msgs
  BY <1>1 DEF PutTransaction, Order
<1>3. x.type \in {"PAYMENT_SENT", "RATING_SIGNATURES"}
  BY DEF Msg
<1>4. m \in Put(paid, x).msgs
  <2> HIDE DEF paid, x
  <2> QED BY <1>2, <1>3 DEF Put, Order, ListType
<1>5. /\ [Done(Put(paid, x)) EXCEPT !.send = {x}].o = Put(paid, x)
      /\ Done(o).o = o /\ Done(paid).o = paid
  BY DEF Done
<1> QED BY <1>2, <1>4, <1>5 DEF IncomingPayment, RatingsFor

LEMMA OrderOpenPlaces ==
  ASSUME NEW node \in Node, NEW o \in Order, NEW m \in Message, m.type = "ORDER_OPEN",
         \A x \in o.msgs : x.type = m.type => x = m
  PROVE  Placed(OrderOpen(node, o, m).o, m)
<1> DEFINE reject == Msg("ORDER_REJECT", node, 0, 0, {})
           q == Put(o, reject)
<1>1. reject \in Message
  BY MsgType DEF MessageType
<1>2. q \in Order
  BY <1>1, PutFields
<1> HIDE DEF reject, q
<1>3. m \in Put(o, m).msgs /\ m \in Put(q, m).msgs
  BY <1>2, PutParks
<1>4. /\ [Done(Put(q, m)) EXCEPT !.send = {reject}].o = Put(q, m)
      /\ Done(o).o = o /\ Done(Put(o, m)).o = Put(o, m)
  BY DEF Done
<1>5. Has(o, m.type) => m \in o.msgs
  BY DEF Has
<1> QED BY <1>3, <1>4, <1>5 DEF OrderOpen, Placed, q, reject

LEMMA ProcessPlaces ==
  ASSUME NEW node \in Node, NEW o, Sound(o), NEW m \in Message, NEW s, Ready(node, o, m, s),
         chain \subseteq Tx
  PROVE  Placed(Process(node, o, m.by, m).o, m)
<1>1. /\ o \in Order /\ m.type \notin {"DISPUTE_OPEN", "DISPUTE_UPDATE"}
      /\ \A x \in o.msgs : x.type = m.type => x = m \/ m.type \in ListType
      /\ m.type = "ORDER_REJECT" => ~Has(o, "ORDER_CONFIRMATION")
      /\ m.type \in {"ORDER_CONFIRMATION", "ORDER_FULFILLMENT"} => ~Has(o, "ORDER_REJECT")
      /\ m.type \in {"ORDER_COMPLETE", "REFUND"} => ~Has(o, "ORDER_CANCEL")
      /\ IsRepeat(deal.method, o, m) => Placed(o, m)
  BY ReadyFacts DEF Sound, Placed
<1>2. \A q : /\ Done(q).o = q /\ Fail(q).o = q
             /\ \A spend : [Done(q) EXCEPT !.spend = spend].o = q
  BY DEF Done, Fail
<1>3. \A q \in Order : Placed(Put(q, m), m)
  BY PutParks DEF Placed
<1>4. \A method : /\ RecordSpend(o, m, method) \in Order
                  /\ Placed(RecordSpend(Put(o, m), m, method), m)
  BY <1>1, <1>3, SpendKeeps, PutFields, PutParks DEF Placed
<1>5. CASE m.type = "ORDER_REJECT"
  BY <1>1, <1>2, <1>3, <1>5, ReceivePlaces DEF OrderReject, Process
<1>6. CASE m.type = "ORDER_CANCEL"
  BY <1>1, <1>2, <1>3, <1>4, <1>6, ReceivePlaces DEF OrderCancel, Process
<1>7. CASE m.type = "ORDER_CONFIRMATION"
  BY <1>1, <1>2, <1>3, <1>4, <1>7, ReceivePlaces DEF OrderConfirmation, Process
<1>8. CASE m.type = "RATING_SIGNATURES"
  BY <1>1, <1>2, <1>3, <1>8, ReceivePlaces DEF RatingSignatures, Process
<1>9. CASE m.type = "ORDER_FULFILLMENT"
  BY <1>1, <1>2, <1>3, <1>9, ParkWaits, ReceivePlaces DEF OrderFulfillment, Process
<1>10. CASE m.type = "ORDER_COMPLETE"
  <2> DEFINE release == node = "vendor" /\ deal.method = "MODERATED" /\ ~Has(o, "DISPUTE_OPEN")
             spend == IF release /\ (\E f \in o.first : f.from = m.from /\ f.k = m.k)
                      THEN {TxOf(m)} ELSE {}
             r == [Done(Put(o, m)) EXCEPT !.spend = spend]
             handle == IF release /\ o.first = {} THEN Fail(o) ELSE r
  <2>1. OrderComplete(node, o, m) = Receive(o, m, {"ORDER_CANCEL"}, handle)
    BY DEF OrderComplete
  <2>2. ~(release /\ o.first = {})
    BY <1>10 DEF Sound, FirstStored, Ready
  <2>3. r.o = Put(o, m)
    BY <1>2
  <2> HIDE DEF release, r
  <2>4. Placed(handle.o, m)
    BY <1>1, <1>3, <2>2, <2>3
  <2> HIDE DEF handle
  <2> QED BY <1>10, <1>1, <2>1, <2>4, ReceivePlaces DEF Process
<1>11. CASE m.type = "REFUND"
  <2> DEFINE spend == IF node = "buyer" /\ deal.method = "MODERATED" THEN {TxOf(m)} ELSE {}
             q == RecordSpend(Put(o, m), m, "DIRECT")
             r == [Done(q) EXCEPT !.spend = spend]
             handle == IF IsRepeat(deal.method, o, m) THEN Done(o) ELSE r
  <2>1. Refund(node, o, m) = Receive(o, m, {"ORDER_CANCEL"}, handle)
    BY DEF Refund
  <2>2. r.o = q /\ Placed(q, m)
    BY <1>2, <1>4
  <2> HIDE DEF r, q
  <2>3. Placed(handle.o, m)
    BY <1>1, <1>2, <2>2
  <2> HIDE DEF handle
  <2> QED BY <1>11, <1>1, <2>1, <2>3, ReceivePlaces DEF Process
<1>12. CASE m.type = "PAYMENT_SENT"
  <2> DEFINE p == CHOOSE q \in m.from : TRUE
             handle == IF IsRepeat(deal.method, o, m) THEN Done(o)
                       ELSE IF PaymentTx(p) \notin chain THEN Done(Put(o, m))
                       ELSE IncomingPayment(node, Put(o, m), p)
  <2>1. PaymentSent(node, o, m) = Receive(o, m, {}, handle)
    BY DEF PaymentSent
  <2>2. PaymentTx(p) \in chain => p \in Payments
    <3>1. PaymentTx(p) \in Tx => \E q \in Payments : PaymentTx(p) = PaymentTx(q)
      BY DEF Tx, PaymentTx, SpendType
    <3>2. \A q : PaymentTx(q).from = {q}
      BY DEF PaymentTx
    <3> QED BY <3>1, <3>2
  <2> HIDE DEF p
  <2>3. PaymentTx(p) \in chain => Placed(IncomingPayment(node, Put(o, m), p).o, m)
    BY <1>1, <1>12, <2>2, PutFields, PutParks, IncomingPaymentLeaves DEF Placed
  <2>4. Placed(handle.o, m)
    BY <1>1, <1>2, <1>3, <2>3
  <2> HIDE DEF handle
  <2> QED BY <1>12, <1>1, <2>1, <2>4, ReceivePlaces DEF Process
<1>13. CASE m.type = "ORDER_OPEN"
  BY <1>1, <1>13, OrderOpenPlaces DEF Process, ListType
<1> QED BY <1>1, <1>5, <1>6, <1>7, <1>8, <1>9, <1>10, <1>11, <1>12, <1>13
        DEF Message, MessageType

-----------------------------------------------------------------------------
(* What a step leaves of what is stored and of what waits *)

\* Nothing that is stored is renewed as long as no two messages compete.
LEMMA StoredStays ==
  ASSUME NEW o, NEW p, Moves(o, p), NEW s, Held(o) \subseteq s, Held(p) \subseteq s, Orderly(s)
  PROVE  o.msgs \subseteq p.msgs
<1>1. SUFFICES ASSUME NEW x \in o.msgs, x \notin p.msgs PROVE FALSE
  OBVIOUS
<1>2. x.type = "RATING_SIGNATURES" /\ \E y \in p.msgs : y.type = x.type
  BY <1>1 DEF Moves, Grows, BuyerRecord!Grows
<1>3. PICK y \in p.msgs : y.type = x.type
  BY <1>2
<1>4. x \in s /\ y \in s /\ x # y
  BY <1>1, <1>2, <1>3 DEF Held
<1> QED BY <1>2, <1>3, <1>4 DEF Orderly, Competes, ListType

LEMMA WaitingStays ==
  ASSUME NEW o, Sound(o), NEW p, Sound(p), NEW m, NEW send, Leads(o, m, p, send),
         o.parked \subseteq p.parked,
         m.type \in {"ORDER_OPEN", "ORDER_CONFIRMATION"} => Has(o, m.type),
         NEW x, Waiting(o, x)
  PROVE  Waiting(p, x)
<1>1. ASSUME NEW type \in {"ORDER_OPEN", "ORDER_CONFIRMATION"}, Has(p, type)
      PROVE  Has(o, type)
  BY <1>1 DEF Has, Leads, Automatic
<1> QED BY <1>1 DEF Waiting, Sound

\* What is parked at a node comes from the other party, too early.
Early(node, o) ==
  \A c \in o.parked : /\ c[1].by = Other(node) /\ c[1].type # "ORDER_OPEN"
                      /\ node = "buyer" => c[1].type = "ORDER_FULFILLMENT"

\* ProcessMessage on the message m: what it sends, parks and stores.
LEMMA EnterKeeps ==
  ASSUME NEW node \in Node, NEW o, Sound(o), NEW peer, NEW m \in Message,
         NEW next, NEW out, NEW spend, chain \subseteq Tx,
         Enter(node, o, peer, m, next, out, spend)
  PROVE  \E send :
           /\ tx'.on = node /\ tx'.peer = peer /\ tx'.next = next /\ tx'.spend = spend
           /\ tx'.out = out \cup send /\ tx'.todo = {c \in tx'.work.parked : c[1] # m}
           /\ Leads(o, m, tx'.work, send) /\ Sound(tx'.work) /\ Moves(o, tx'.work)
           /\ Parks(o, m, tx'.work)
           /\ \A x \in send : x.by = node /\ Rightful(x) /\ x \in tx'.work.msgs
           /\ \A s : peer = m.by /\ Ready(node, o, m, s) => Placed(tx'.work, m)
<1> DEFINE early == o = NoOrder /\ m.type # "ORDER_OPEN"
           r == IF early THEN Done(Park(o, m)) ELSE Process(node, o, peer, m)
<1>1. Effect(o, m, r) /\ Good(o, r)
  BY ParkEffect, ProcessEffect, ParkGood, ProcessGood DEF Sound, NoOrder
<1>2. Owns(node, r) /\ Parks(o, m, r.o)
  <2>1. CASE early
    <3>1. Parks(o, m, Park(o, m))
      BY <2>1 DEF Parks, Park, NoOrder
    <3> QED BY <2>1, <3>1, DoneOwns
  <2>2. CASE ~early
    BY <2>2, ProcessKeeps DEF Sound
  <2> QED BY <2>1, <2>2
<1>3. ASSUME NEW s, peer = m.by, Ready(node, o, m, s)
      PROVE  Placed(r.o, m)
  <2>1. CASE early
    BY <2>1, DoneOwns, ParkWaits DEF Sound, NoOrder
  <2>2. CASE ~early
    BY <1>3, <2>2, ProcessPlaces
  <2> QED BY <2>1, <2>2
<1>4. tx' = [on |-> node, work |-> r.o, peer |-> peer, trigger |-> {m},
             todo |-> {c \in r.o.parked : c[1] # m}, next |-> next,
             out |-> out \cup r.send, spend |-> spend]
  BY DEF Enter
<1> HIDE DEF r
<1> WITNESS r.send
<1> QED BY <1>1, <1>2, <1>3, <1>4 DEF Effect, Good, Owns

\* The same for a parked message.
LEMMA ReprocessKeeps ==
  ASSUME Inv, Reprocess
  PROVE  \E c \in tx.todo, send \in SUBSET Message :
           /\ c[1] \in Message /\ tx.on \in Node
           /\ tx'.on = tx.on /\ tx'.peer = tx.peer /\ tx'.next = tx.next /\ tx'.spend = tx.spend
           /\ tx'.out = tx.out \cup send /\ tx'.todo = tx.todo \ {c}
           /\ Leads(tx.work, c[1], tx'.work, send)
           /\ Sound(tx'.work) /\ Moves(tx.work, tx'.work) /\ Parks(tx.work, c[1], tx'.work)
           /\ \A x \in send : x.by = tx.on /\ Rightful(x) /\ x \in tx'.work.msgs
           /\ \A s : tx.peer = c[1].by /\ Ready(tx.on, tx.work, c[1], s) => Placed(tx'.work, c[1])
<1>1. PICK c \in tx.todo :
        LET r == Process(tx.on, tx.work, tx.peer, c[1])
        IN  tx' = [tx EXCEPT !.work = IF r.ok THEN r.o ELSE PutErrors(r.o, tx.trigger),
                             !.todo = @ \ {c}, !.out = @ \cup r.send]
  BY DEF Reprocess
<1> DEFINE r == Process(tx.on, tx.work, tx.peer, c[1])
           w == IF r.ok THEN r.o ELSE PutErrors(r.o, tx.trigger)
<1>2. tx \in TxState /\ chain \subseteq Tx /\ Sound(tx.work)
  BY DEF Inv, TypeOK
<1>3. c[1] \in Message
  BY <1>2 DEF TxState, Parked
<1>4. tx.on \in Node
  <2>1. tx # Idle BY <1>1 DEF Idle
  <2> QED BY <1>2, <2>1 DEF Inv, TxState
<1>5. Good(tx.work, r) /\ Effect(tx.work, c[1], r)
  BY <1>2, <1>3, <1>4, ProcessGood, ProcessEffect DEF Sound
<1>6. Owns(tx.on, r) /\ Parks(tx.work, c[1], r.o)
  BY <1>2, <1>3, <1>4, ProcessKeeps DEF Sound
<1>7. \A s : tx.peer = c[1].by /\ Ready(tx.on, tx.work, c[1], s) => Placed(r.o, c[1])
  BY <1>2, <1>3, <1>4, ProcessPlaces
<1>8. tx' = [tx EXCEPT !.work = w, !.todo = @ \ {c}, !.out = @ \cup r.send]
  BY <1>1
<1> HIDE DEF r
<1>9. Sound(w) /\ w.msgs = r.o.msgs /\ w.txs = r.o.txs /\ w.parked = r.o.parked /\ w.open = r.o.open
  <2>1. r.o \in Order => PutErrors(r.o, tx.trigger).open = r.o.open
    BY DEF PutErrors, Order
  <2> QED BY <1>2, <1>5, <2>1, ErrorsGood, ErrorsFields DEF Good, Sound, TxState
<1> HIDE DEF w
<1>10. /\ tx'.on = tx.on /\ tx'.peer = tx.peer /\ tx'.next = tx.next
       /\ tx'.spend = tx.spend /\ tx'.todo = tx.todo \ {c}
       /\ tx'.work = w /\ tx'.out = tx.out \cup r.send
  BY <1>2, <1>8 DEF TxState
<1>11. Leads(tx.work, c[1], tx'.work, r.send) /\ Moves(tx.work, tx'.work)
  BY <1>5, <1>9, <1>10 DEF Effect, Leads, Good, Moves
<1>12. Parks(tx.work, c[1], tx'.work)
  BY <1>6, <1>9, <1>10 DEF Parks
<1>13. \A s : tx.peer = c[1].by /\ Ready(tx.on, tx.work, c[1], s) => Placed(tx'.work, c[1])
  BY <1>7, <1>9, <1>10 DEF Placed, Waiting, Has
<1>14. \A x \in r.send : x.by = tx.on /\ Rightful(x) /\ x \in tx'.work.msgs
  BY <1>6, <1>9, <1>10 DEF Owns
<1> QED BY <1>3, <1>4, <1>5, <1>9, <1>10, <1>11, <1>12, <1>13, <1>14 DEF Good

LEMMA WalletTransactionKeeps ==
  ASSUME Inv, NEW node \in Node, NEW t \in chain, WalletTransaction(node, t)
  PROVE  /\ order[node].open /\ order'[node].parked = order[node].parked
         /\ \A x \in issued' \ issued :
              x \in net' /\ x.by = node /\ Rightful(x) /\ x \in order'[node].msgs
<1>1. PICK o : o = order[node]
  OBVIOUS
<1> DEFINE r == IF t.kind = "pay"
                THEN IncomingPayment(node, o, CHOOSE p \in t.from : TRUE)
                ELSE OutgoingPayment(o, t)
<1>2. t \in Tx /\ o \in Order /\ o.open /\ order \in [Node -> Order]
  BY <1>1 DEF Inv, TypeOK, WalletTransaction, Unknown
<1>3. Owns(node, r) /\ r.o.parked = o.parked
  <2>1. CASE t.kind = "pay"
    <3>1. PICK p \in Payments : t = PaymentTx(p) /\ p = CHOOSE q \in t.from : TRUE
      BY <1>2, <2>1, PaymentOnChain
    <3>2. r = IncomingPayment(node, o, p)
      BY <2>1, <3>1
    <3> HIDE DEF r
    <3> QED BY <1>2, <3>2, IncomingPaymentKeeps
  <2>2. CASE t.kind # "pay"
    <3>1. r = Done(PutTransaction(o, t)) /\ PutTransaction(o, t).parked = o.parked
      BY <1>2, <2>2 DEF OutgoingPayment, PutTransaction, Order
    <3> HIDE DEF r
    <3> QED BY <3>1, DoneOwns
  <2> QED BY <2>1, <2>2
<1>4. /\ order' = [order EXCEPT ![node] = r.o]
      /\ net' = net \cup r.send /\ issued' = issued \cup r.send
  BY <1>1 DEF WalletTransaction, r
<1> HIDE DEF r
<1> QED BY <1>1, <1>2, <1>3, <1>4 DEF Owns

-----------------------------------------------------------------------------
(* The inductive invariant of the agreement, and the steps *)

\* Where what a transaction sends, parks and answers comes from.
TxOrigin(t) ==
  t.on # "none" =>
    /\ Carries(order[t.on], t.work) /\ Early(t.on, t.work) /\ t.todo \subseteq t.work.parked
    /\ \A m \in t.out : m.by = t.on /\ Rightful(m)
    /\ \A m \in t.next : m.type = "REFUND" /\ t.work.open
    /\ t.on = "buyer" => t.work.open
    /\ t.on = "vendor" => issued # {}
    /\ t.peer = t.on \/ (t.peer = Other(t.on) /\ t.next = {} /\ t.spend = {})

\* A call may be what its user is allowed, on an order of which nothing was lost since.
CallOrigin(c) ==
  /\ c.op \in OpsOf(c.node)
  /\ Sound(c.seen) /\ c.seen.open /\ Carries(c.seen, order[c.node])
  /\ c.op = "fulfill" => Has(c.seen, "ORDER_CONFIRMATION")
  /\ c.op = "refund" => deal.method # "CANCELABLE"

Origin ==
  /\ \A m \in issued : Rightful(m)
  /\ issued # {} => order["buyer"].open
  /\ \A node \in Node : Early(node, order[node])
  /\ TxOrigin(tx)
  /\ \A c \in calls : CallOrigin(c)

\* As long as no two messages compete, each that was sent is stored by its sender, and
\* is under way, stored, parked for a reason or being processed at the receiver.
Arrived(node, peer) ==
  Orderly(issued) => \A m \in issued :
    /\ m \in order[m.by].msgs
    /\ \/ m \in net \/ Placed(order[Other(m.by)], m)
       \/ node = Other(m.by) /\ peer = m.by

\* The same for the order as a transaction in progress has it.
Drafted(t) ==
  t.on # "none" /\ Orderly(issued \cup t.out) => \A m \in issued \cup t.out :
    IF m.by = t.on THEN m \in t.work.msgs \cup t.next
    ELSE m \in net \/ Placed(t.work, m) \/ (t.peer = m.by /\ \E c \in t.todo : c[1] = m)

AgreeInv == Origin /\ Arrived(tx.on, tx.peer) /\ Drafted(tx)

\* An answer stays one.
LEMMA RightfulStays ==
  ASSUME UNCHANGED deal, issued \subseteq issued', NEW m, Rightful(m)
  PROVE  Rightful(m)'
BY DEF Rightful

\* What a message is processed for: for a call of the node's own user, or because the
\* other party sent it.
Begins(node, o, peer, m, next, out, spend) ==
  /\ Held(o) \cup {m} \subseteq issued \cup out
  /\ Carries(order[node], o) /\ Early(node, o)
  /\ \A x \in out : x.by = node /\ Rightful(x)
  /\ \A x \in next : x.type = "REFUND"
  /\ m.by = peer
  /\ node = "vendor" => issued # {}
  /\ \/ /\ peer = node
        /\ o.open \/ (m.type = "ORDER_OPEN" /\ issued = {} /\ next = {})
        /\ m.type = "ORDER_FULFILLMENT" => Has(o, "ORDER_CONFIRMATION")
     \/ /\ peer = Other(node) /\ next = {} /\ spend = {}
        /\ node = "buyer" => o.open

\* What the order o has of the messages sent so far when m is about to be processed.
Keeps(node, o, m, next, out) ==
  Orderly(issued \cup out) => \A x \in issued \cup out :
    IF x.by = node THEN x \in o.msgs \cup next \cup {m}
    ELSE x \in net' \cup {m} \/ Placed(o, x)

\* ProcessMessage on a message that begins so.
LEMMA EnterOrigin ==
  ASSUME Inv, Origin, NEW node \in Node, NEW o, Sound(o), NEW peer, NEW m \in Message,
         NEW next, NEW out, NEW spend, Begins(node, o, peer, m, next, out, spend),
         Enter(node, o, peer, m, next, out, spend), node = "buyer" => tx'.work.open,
         UNCHANGED <<deal, order, issued>>, calls' \subseteq calls
  PROVE  Origin'
<1>1. PICK send :
        /\ tx'.on = node /\ tx'.peer = peer /\ tx'.next = next /\ tx'.spend = spend
        /\ tx'.out = out \cup send /\ tx'.todo = {c \in tx'.work.parked : c[1] # m}
        /\ Leads(o, m, tx'.work, send) /\ Sound(tx'.work) /\ Moves(o, tx'.work)
        /\ Parks(o, m, tx'.work)
        /\ \A x \in send : x.by = node /\ Rightful(x) /\ x \in tx'.work.msgs
        /\ \A s : peer = m.by /\ Ready(node, o, m, s) => Placed(tx'.work, m)
  <2>1. chain \subseteq Tx
    BY DEF Inv, TypeOK
  <2> QED BY <2>1, EnterKeeps
<1>2. PICK p : p = tx'.work
  OBVIOUS
<1>3. Carries(order[node], p)
  BY <1>1, <1>2, MovesCarry, CarriesTwice DEF Begins
<1>4. o.open => p.open
  BY <1>1, <1>2, LeadsFacts
<1>5. ASSUME NEW c \in p.parked, c \notin o.parked
      PROVE  /\ c[1].by = Other(node) /\ c[1].type # "ORDER_OPEN"
             /\ node = "buyer" => c[1].type = "ORDER_FULFILLMENT"
  <2>1. /\ c[1] = m /\ (o.open => m.type = "ORDER_FULFILLMENT")
        /\ \/ ~o.open /\ m.type # "ORDER_OPEN"
           \/ m.type = "ORDER_FULFILLMENT" /\ ~Has(o, "ORDER_CONFIRMATION")
    BY <1>1, <1>2, <1>5 DEF Leads, Parks
  <2>2. peer = Other(node) /\ m.by = peer /\ (node = "buyer" => o.open)
    BY <2>1 DEF Begins
  <2> QED BY <2>1, <2>2
<1>6. Early(node, p)
  BY <1>5 DEF Early, Begins
<1>7. \A x \in tx'.out : x.by = node /\ Rightful(x)
  BY <1>1 DEF Begins
<1>8. \A x \in tx'.next : x.type = "REFUND" /\ p.open
  BY <1>1, <1>4 DEF Begins
<1>9. \A x : Rightful(x) => Rightful(x)'
  BY RightfulStays
<1>10. TxOrigin(tx)'
  BY <1>1, <1>2, <1>3, <1>6, <1>7, <1>8, <1>9 DEF TxOrigin, Begins, Carries, Early, Other
<1>11. \A c \in calls' : CallOrigin(c)'
  BY DEF Origin, CallOrigin, Carries, Sound
<1> QED BY <1>9, <1>10, <1>11 DEF Origin, Early, Other

LEMMA EnterAgree ==
  ASSUME Inv, Origin, NEW node \in Node, NEW o, Sound(o), NEW peer, NEW m \in Message,
         NEW next, NEW out, NEW spend, Begins(node, o, peer, m, next, out, spend),
         Enter(node, o, peer, m, next, out, spend), node = "buyer" => tx'.work.open,
         Keeps(node, o, m, next, out),
         UNCHANGED <<deal, order, issued>>, net' \subseteq net, calls' \subseteq calls,
         Arrived(node, peer)'
  PROVE  AgreeInv'
<1>1. PICK send :
        /\ tx'.on = node /\ tx'.peer = peer /\ tx'.next = next /\ tx'.spend = spend
        /\ tx'.out = out \cup send /\ tx'.todo = {c \in tx'.work.parked : c[1] # m}
        /\ Leads(o, m, tx'.work, send) /\ Sound(tx'.work) /\ Moves(o, tx'.work)
        /\ Parks(o, m, tx'.work)
        /\ \A x \in send : x.by = node /\ Rightful(x) /\ x \in tx'.work.msgs
        /\ \A s : peer = m.by /\ Ready(node, o, m, s) => Placed(tx'.work, m)
  <2>1. chain \subseteq Tx
    BY DEF Inv, TypeOK
  <2> QED BY <2>1, EnterKeeps
<1>2. Origin'
  BY EnterOrigin
<1>3. PICK p : p = tx'.work
  OBVIOUS
<1>4. Early(node, p)
  BY <1>1, <1>2, <1>3 DEF Origin, TxOrigin, Early, Node, Other
<1> DEFINE s == issued \cup tx'.out
<1>5. ASSUME Orderly(s), NEW x \in s
      PROVE  IF x.by = node THEN x \in p.msgs \cup next
             ELSE x \in net' \/ Placed(p, x) \/ (peer = x.by /\ \E c \in tx'.todo : c[1] = x)
  <2>1. Orderly(issued \cup out) /\ \A y \in s : Rightful(y)
    BY <1>1, <1>5 DEF Orderly, Begins, Origin
  <2>2. Held(o) \cup {m} \cup issued \subseteq s /\ Held(p) \subseteq s
    <3>1. Held(p) \subseteq Held(o) \cup {m} \cup send
      BY <1>1, <1>3, LeadsFacts
    <3> QED BY <1>1, <3>1 DEF Begins
  <2>3. m.type = "ORDER_COMPLETE" /\ node = "vendor" => Has(o, "ORDER_FULFILLMENT")
    <3>1. SUFFICES ASSUME m.type = "ORDER_COMPLETE", node = "vendor"
                   PROVE  Has(o, "ORDER_FULFILLMENT")
      OBVIOUS
    <3>2. PICK f \in issued : f.type = "ORDER_FULFILLMENT"
      BY <2>1, <2>2, <3>1 DEF Rightful
    <3>3. f.by = "vendor"
      BY <3>2 DEF Origin, Rightful, Buyers
    <3>4. f \in o.msgs \cup next \cup {m}
      BY <2>1, <3>1, <3>2, <3>3 DEF Keeps
    <3> QED BY <3>1, <3>2, <3>4 DEF Begins, Has
  <2>4. Ready(node, o, m, s)
    BY <1>5, <2>1, <2>2, <2>3 DEF Ready
  <2>5. Placed(p, m) /\ m.by = peer
    BY <1>1, <1>3, <2>4 DEF Begins
  <2>6. o.msgs \subseteq p.msgs
    BY <1>1, <1>3, <1>5, <2>2, StoredStays
  <2>7. CASE x.by = node
    <3>1. x \in send \/ x \in o.msgs \cup next \cup {m}
      BY <1>1, <1>5, <2>1, <2>7 DEF Keeps
    <3>2. m.by = node => m \in p.msgs
      BY <1>4, <2>5 DEF Placed, Waiting, Early, Other, Node
    <3> QED BY <1>1, <1>3, <2>6, <2>7, <3>1, <3>2
  <2>8. CASE x.by # node
    <3>1. x \in net' \cup {m} \/ Placed(o, x)
      BY <1>1, <1>5, <2>1, <2>8 DEF Keeps
    <3>2. ASSUME Waiting(o, x), x # m
          PROVE  Placed(p, x) \/ (peer = x.by /\ \E c \in tx'.todo : c[1] = x)
      <4>1. PICK c \in o.parked : c[1] = x
        BY <3>2 DEF Waiting
      <4>2. c \in p.parked /\ x.by = Other(node)
        BY <1>1, <1>3, <4>1 DEF Parks, Begins, Early
      <4>3. CASE peer = Other(node)
        BY <1>1, <1>3, <3>2, <4>1, <4>2, <4>3
      <4>4. CASE peer = node
        <5>1. x \in issued
          BY <1>1, <1>5, <2>8 DEF Begins
        <5>2. o.open
          BY <4>4, <5>1 DEF Begins, Node, Other
        <5>3. m.type \notin {"ORDER_OPEN", "ORDER_CONFIRMATION"} \/ Has(o, m.type)
          <6>1. m.type = "ORDER_OPEN" => Has(o, m.type)
            BY <5>2 DEF Sound
          <6>2. m.type = "ORDER_CONFIRMATION" => m.by = "vendor"
            BY <2>1, <2>2 DEF Rightful, Buyers
          <6>3. x.type = "ORDER_FULFILLMENT" /\ x.by = "vendor"
            BY <1>5, <2>1, <3>2, <5>2 DEF Waiting, Rightful, Buyers
          <6> QED BY <2>5, <2>8, <4>4, <6>1, <6>2, <6>3
        <5> QED BY <1>1, <1>3, <3>2, <5>3, WaitingStays DEF Parks, Placed
      <4> QED BY <4>3, <4>4 DEF Begins
    <3> QED BY <2>5, <2>6, <2>8, <3>1, <3>2 DEF Placed
  <2> QED BY <2>7, <2>8
<1>6. Drafted(tx)'
  <2>1. Orderly(issued \cup tx.out)' => Orderly(s)
    BY DEF Orderly, Competes
  <2>2. \A x : Placed(p, x) => Placed(tx.work, x)'
    BY <1>3 DEF Placed, Waiting, Has
  <2> QED BY <1>1, <1>3, <1>5, <2>1, <2>2 DEF Drafted
<1> QED BY <1>1, <1>2, <1>6 DEF AgreeInv

LEMMA EnterOpens ==
  ASSUME Inv, NEW node \in Node, NEW o, Sound(o), o.open, NEW peer, NEW m \in Message,
         NEW next, NEW out, NEW spend, Enter(node, o, peer, m, next, out, spend)
  PROVE  tx'.work.open
<1>1. chain \subseteq Tx
  BY DEF Inv, TypeOK
<1>2. PICK send :
        /\ tx'.on = node /\ tx'.peer = peer /\ tx'.next = next /\ tx'.spend = spend
        /\ tx'.out = out \cup send /\ tx'.todo \subseteq tx'.work.parked
        /\ Leads(o, m, tx'.work, send) /\ Sound(tx'.work) /\ Moves(o, tx'.work)
        /\ chain \subseteq chain' /\ (deal.method # "MODERATED" => chain' = chain)
  BY <1>1, EnterEffect
<1>3. PICK p : p = tx'.work
  OBVIOUS
<1> QED BY <1>2, <1>3, LeadsFacts

LEMMA PurchaseAgree ==
  ASSUME Inv, SentInv, AgreeInv, Purchase
  PROVE  AgreeInv'
<1> DEFINE m == Msg("ORDER_OPEN", "buyer", 1, 0, {})
<1>1. /\ order["buyer"] = NoOrder /\ tx = Idle
      /\ Enter("buyer", NoOrder, "buyer", m, {}, {m}, {})
      /\ UNCHANGED <<deal, order, calls, net, redeliveries, issued>>
  BY DEF Purchase
<1>2. m \in Message /\ m.type = "ORDER_OPEN" /\ m.by = "buyer"
  BY MsgType DEF MessageType, Node, Msg
<1>3. issued = {}
  BY <1>1 DEF AgreeInv, Origin, NoOrder
<1> HIDE DEF m
<1>4. Held(NoOrder) = {} /\ Carries(NoOrder, NoOrder) /\ Early("buyer", NoOrder)
  BY DEF NoOrder, Held, Carries, Early
<1>5. Begins("buyer", NoOrder, "buyer", m, {}, {m}, {})
  BY <1>1, <1>2, <1>3, <1>4 DEF Begins, Rightful, Buyers
<1>6. tx'.work.open
  <2>1. Process("buyer", NoOrder, "buyer", m) = Done(Put(NoOrder, m))
    BY <1>2 DEF Process, OrderOpen, NoOrder, Has, Validates
  <2>2. tx'.work = Done(Put(NoOrder, m)).o
    BY <1>1, <1>2, <2>1 DEF Enter
  <2> QED BY <1>2, <2>2, NoOrderSound, PutFields DEF Done, Sound
<1>7. Keeps("buyer", NoOrder, m, {}, {m}) /\ Arrived("buyer", "buyer")'
  BY <1>1, <1>2, <1>3 DEF Keeps, Arrived
<1> QED BY <1>1, <1>2, <1>5, <1>6, <1>7, NoOrderSound, EnterAgree DEF AgreeInv, Node

LEMMA DeliverAgree ==
  ASSUME Inv, SentInv, AgreeInv, NEW m \in net, Deliver(m)
  PROVE  AgreeInv'
<1>1. PICK node, peer, o : node = Other(m.by) /\ peer = m.by /\ o = order[node]
  OBVIOUS
<1>2. /\ m \in Message /\ m \in issued /\ node \in Node /\ peer = Other(node)
      /\ Sound(o) /\ Held(o) \subseteq issued /\ issued \subseteq Message
  BY <1>1 DEF Inv, TypeOK, Message, Node, Other, SentInv
<1>3. /\ tx = Idle /\ Enter(node, o, peer, m, {}, {}, {})
      /\ net' \subseteq net /\ net \subseteq net' \cup {m}
      /\ UNCHANGED <<deal, order, calls, issued>>
  BY <1>1 DEF Deliver
<1>4. Origin /\ Arrived("none", "none")
  BY <1>3 DEF AgreeInv, Idle
<1>5. node = "buyer" => o.open
  BY <1>1, <1>2, <1>4 DEF Origin
<1>6. Begins(node, o, peer, m, {}, {}, {})
  BY <1>1, <1>2, <1>4, <1>5 DEF Begins, Carries, Origin
<1>7. node = "buyer" => tx'.work.open
  BY <1>2, <1>3, <1>5, EnterOpens
<1>8. \A x \in issued : x.by = node \/ x.by = peer
  BY <1>2 DEF Message, Node, Other
<1>9. Keeps(node, o, m, {}, {})
  <2>1. Orderly(issued) => \A x \in issued :
          x \in order[x.by].msgs /\ (x \in net \/ Placed(order[Other(x.by)], x))
    BY <1>4, <1>2 DEF Arrived, Node, Other, Message
  <2> QED BY <1>1, <1>2, <1>3, <1>8, <2>1 DEF Keeps
<1>10. Arrived(node, peer)'
  <2>1. \A x \in issued : x.by \in Node
    BY <1>2 DEF Message
  <2>2. Orderly(issued)' => Orderly(issued)
    BY <1>3 DEF Orderly, Competes
  <2>3. \A n, x : Placed(order[n], x)' <=> Placed(order[n], x)
    BY <1>3 DEF Placed, Waiting, Has
  <2> QED BY <1>1, <1>3, <1>4, <2>1, <2>2, <2>3 DEF Arrived, Other, Node
<1> QED BY <1>2, <1>3, <1>4, <1>6, <1>7, <1>9, <1>10, EnterAgree

LEMMA ProcessNextAgree ==
  ASSUME Inv, SentInv, AgreeInv, ProcessNext
  PROVE  AgreeInv'
<1>1. PICK m \in tx.next :
        Enter(tx.on, tx.work, tx.peer, m, tx.next \ {m}, tx.out, tx.spend)
  BY DEF ProcessNext
<1>2. PICK node, o, peer, next, out, spend :
        /\ node = tx.on /\ o = tx.work /\ peer = tx.peer
        /\ next = tx.next \ {m} /\ out = tx.out /\ spend = tx.spend
  OBVIOUS
<1>3. /\ node # "none" /\ tx.todo = {} /\ UNCHANGED <<deal, order, calls, net, redeliveries, issued>>
  BY <1>2 DEF ProcessNext
<1>4. /\ node \in Node /\ m \in Message /\ Sound(o) /\ m \in out
      /\ Held(o) \subseteq issued \cup out
  BY <1>1, <1>2, <1>3 DEF Inv, TypeOK, TxState, SentInv
<1>5. Origin /\ Arrived(node, peer) /\ Drafted(tx)
  BY <1>2 DEF AgreeInv
<1>6. /\ Carries(order[node], o) /\ Early(node, o) /\ o.open /\ peer = node
      /\ \A x \in out : x.by = node /\ Rightful(x)
      /\ \A x \in tx.next : x.type = "REFUND"
      /\ node = "vendor" => issued # {}
  BY <1>1, <1>2, <1>3, <1>5 DEF Origin, TxOrigin
<1>7. Begins(node, o, peer, m, next, out, spend)
  BY <1>1, <1>2, <1>4, <1>6 DEF Begins
<1>8. Keeps(node, o, m, next, out)
  BY <1>2, <1>3, <1>5 DEF Keeps, Drafted
<1>9. tx'.work.open
  BY <1>1, <1>2, <1>4, <1>6, EnterOpens
<1>10. Arrived(node, peer)'
  BY <1>3, <1>5 DEF Arrived, Orderly, Competes, Placed, Waiting, Has
<1> QED BY <1>1, <1>2, <1>3, <1>4, <1>5, <1>7, <1>8, <1>9, <1>10, EnterAgree

LEMMA ReprocessAgree ==
  ASSUME Inv, SentInv, AgreeInv, Reprocess
  PROVE  AgreeInv'
<1>1. PICK c \in tx.todo, send \in SUBSET Message :
        /\ c[1] \in Message /\ tx.on \in Node
        /\ tx'.on = tx.on /\ tx'.peer = tx.peer /\ tx'.next = tx.next /\ tx'.spend = tx.spend
        /\ tx'.out = tx.out \cup send /\ tx'.todo = tx.todo \ {c}
        /\ Leads(tx.work, c[1], tx'.work, send)
        /\ Sound(tx'.work) /\ Moves(tx.work, tx'.work) /\ Parks(tx.work, c[1], tx'.work)
        /\ \A x \in send : x.by = tx.on /\ Rightful(x) /\ x \in tx'.work.msgs
        /\ \A s : tx.peer = c[1].by /\ Ready(tx.on, tx.work, c[1], s) => Placed(tx'.work, c[1])
  BY ReprocessKeeps
<1>2. PICK node, peer, o, p, m :
        node = tx.on /\ peer = tx.peer /\ o = tx.work /\ p = tx'.work /\ m = c[1]
  OBVIOUS
<1>3. UNCHANGED <<deal, order, calls, net, redeliveries, issued>>
  BY DEF Reprocess
<1>4. /\ node \in Node /\ node # "none" /\ Sound(o) /\ Sound(p) /\ Moves(o, p) /\ Parks(o, m, p)
      /\ Leads(o, m, p, send)
  BY <1>1, <1>2 DEF Inv, Node
<1>5. Origin /\ TxOrigin(tx) /\ Drafted(tx)
  BY DEF AgreeInv, Origin
<1>6. m.by = Other(node) /\ m.type # "ORDER_OPEN" /\ (node = "buyer" => m.type = "ORDER_FULFILLMENT")
  BY <1>1, <1>2, <1>4, <1>5 DEF TxOrigin, Early
<1>7. /\ Carries(order[node], p) /\ (o.open => p.open)
      /\ p.parked \subseteq o.parked \cup {d \in p.parked : d[1] = m} /\ o.parked \subseteq p.parked
  <2>1. Carries(order[node], o)
    BY <1>2, <1>4, <1>5 DEF TxOrigin
  <2> QED BY <2>1, <1>4, MovesCarry, CarriesTwice, LeadsFacts DEF Leads, Parks
<1>8. \A x : Rightful(x) => Rightful(x)'
  BY <1>3, RightfulStays
<1>9. TxOrigin(tx)'
  <2>1. Early(node, p)
    BY <1>2, <1>4, <1>5, <1>6, <1>7 DEF TxOrigin, Early
  <2> QED BY <1>1, <1>2, <1>3, <1>4, <1>5, <1>7, <1>8, <2>1 DEF TxOrigin, Carries, Early, Other
<1>10. Origin'
  BY <1>3, <1>5, <1>8, <1>9 DEF Origin, Early, Other, CallOrigin, Carries, Sound
<1>11. Arrived(tx.on, tx.peer)'
  BY <1>1, <1>3 DEF AgreeInv, Arrived, Orderly, Competes, Placed, Waiting, Has
<1> DEFINE s == issued \cup tx'.out
<1>12. ASSUME Orderly(s), NEW x \in s
       PROVE  IF x.by = node THEN x \in p.msgs \cup tx.next
              ELSE x \in net \/ Placed(p, x) \/ (peer = x.by /\ \E d \in tx'.todo : d[1] = x)
  <2>1. Orderly(issued \cup tx.out) /\ \A y \in s : Rightful(y)
    BY <1>1, <1>2, <1>4, <1>5, <1>12 DEF Orderly, TxOrigin, Origin
  <2>2. m \in issued \cup tx.out /\ Held(o) \subseteq s /\ Held(p) \subseteq s
    <3>1. Held(p) \subseteq Held(o) \cup {m} \cup send
      BY <1>2, <1>4, LeadsFacts
    <3> QED BY <1>1, <1>2, <3>1 DEF SentInv
  <2>3. o.msgs \subseteq p.msgs
    BY <1>4, <1>12, <2>2, StoredStays
  <2>4. \A y \in issued \cup tx.out :
          IF y.by = node THEN y \in o.msgs \cup tx.next
          ELSE y \in net \/ Placed(o, y) \/ (peer = y.by /\ \E d \in tx.todo : d[1] = y)
    BY <1>2, <1>4, <1>5, <2>1 DEF Drafted
  <2>5. peer = m.by => Placed(p, m)
    <3>1. m.type = "ORDER_COMPLETE" /\ node = "vendor" => Has(o, "ORDER_FULFILLMENT")
      <4>1. SUFFICES ASSUME m.type = "ORDER_COMPLETE", node = "vendor"
                     PROVE  Has(o, "ORDER_FULFILLMENT")
        OBVIOUS
      <4>2. PICK f \in issued : f.type = "ORDER_FULFILLMENT"
        BY <1>1, <2>1, <2>2, <4>1 DEF Rightful
      <4>3. f.by = "vendor"
        BY <4>2, <2>1 DEF Rightful, Buyers
      <4>4. f \in o.msgs \cup tx.next
        BY <2>4, <4>1, <4>2, <4>3
      <4>5. \A r \in tx.next : r.type = "REFUND"
        BY <1>2, <1>4, <1>5 DEF TxOrigin
      <4> QED BY <4>2, <4>4, <4>5 DEF Has
    <3>2. Ready(node, o, m, s)
      BY <1>1, <1>12, <2>1, <2>2, <3>1 DEF Ready
    <3> QED BY <1>1, <1>2, <3>2
  <2>6. \A y : Waiting(o, y) => Waiting(p, y)
    <3>1. m.type \notin {"ORDER_OPEN", "ORDER_CONFIRMATION"}
      <4>1. Rightful(m)
        BY <1>1, <2>1, <2>2
      <4> QED BY <1>4, <1>6, <4>1 DEF Rightful, Buyers, Node, Other
    <3> QED BY <1>4, <1>7, <3>1, WaitingStays
  <2>7. CASE x \in send
    BY <1>1, <1>2, <2>7
  <2>8. CASE x \in issued \cup tx.out
    BY <1>1, <1>2, <2>3, <2>4, <2>5, <2>6, <2>8 DEF Placed
  <2> QED BY <1>1, <1>12, <2>7, <2>8
<1>13. Drafted(tx)'
  <2>1. Orderly(issued \cup tx.out)' => Orderly(s)
    BY <1>3 DEF Orderly, Competes
  <2>2. \A x : Placed(p, x) => Placed(tx.work, x)'
    BY <1>2 DEF Placed, Waiting, Has
  <2> QED BY <1>1, <1>2, <1>3, <1>12, <2>1, <2>2 DEF Drafted
<1> QED BY <1>1, <1>10, <1>11, <1>13 DEF AgreeInv

LEMMA AbortAgree ==
  ASSUME Inv, AgreeInv, Abort
  PROVE  AgreeInv'
<1>1. tx.on # "none" /\ tx.spend # {} /\ tx' = Idle
      /\ UNCHANGED <<deal, order, calls, net, redeliveries, issued, chain>>
  BY DEF Abort
<1>2. Origin /\ TxOrigin(tx) /\ Arrived(tx.on, tx.peer)
  BY DEF AgreeInv, Origin
<1>3. tx.peer = tx.on /\ tx.on \in Node
  BY <1>1, <1>2 DEF TxOrigin, Inv, TypeOK, TxState
<1>4. \A x : Rightful(x) => Rightful(x)'
  BY <1>1, RightfulStays
<1>5. TxOrigin(tx)' /\ Drafted(tx)'
  BY <1>1 DEF Idle, TxOrigin, Drafted
<1>6. Origin'
  BY <1>1, <1>2, <1>4, <1>5 DEF Origin, Early, Other, CallOrigin, Carries, Sound
<1>7. Arrived(tx.on, tx.peer)'
  BY <1>1, <1>2, <1>3 DEF Arrived, Orderly, Competes, Placed, Waiting, Has, Other, Node
<1> QED BY <1>5, <1>6, <1>7 DEF AgreeInv

\* A step that leaves the orders, the messages and the transaction alone.
LEMMA IdleAgree ==
  ASSUME AgreeInv, UNCHANGED <<deal, order, tx, net, issued>>,
         \A c \in calls' : CallOrigin(c)
  PROVE  AgreeInv'
<1>1. \A x : Rightful(x) => Rightful(x)'
  BY RightfulStays
<1>2. TxOrigin(tx)'
  BY <1>1 DEF AgreeInv, Origin, TxOrigin, Carries, Early, Other
<1>3. Origin'
  BY <1>1, <1>2 DEF AgreeInv, Origin, Early, Other, CallOrigin, Carries, Sound
<1>4. Arrived(tx.on, tx.peer)' /\ Drafted(tx)'
  BY DEF AgreeInv, Arrived, Drafted, Orderly, Competes, Placed, Waiting, Has
<1> QED BY <1>3, <1>4 DEF AgreeInv

LEMMA StartCallAgree ==
  ASSUME Inv, AgreeInv, NEW node \in Node, NEW op \in Op, StartCall(node, op)
  PROVE  AgreeInv'
<1>1. PICK id :
        calls' = calls \cup {[node |-> node, op |-> op, id |-> id, seen |-> order[node]]}
  BY DEF StartCall
<1>2. /\ op \in OpsOf(node) /\ CanCall(op, node, order[node])
      /\ UNCHANGED <<deal, order, tx, net, issued>>
  BY DEF StartCall
<1>3. Sound(order[node]) /\ Carries(order[node], order[node])
  BY DEF Inv, Carries
<1>4. /\ order[node].open
      /\ op = "fulfill" => Has(order[node], "ORDER_CONFIRMATION")
      /\ op = "refund" => deal.method # "CANCELABLE"
  BY <1>2 DEF CanCall, CanFulfill, CanRefund
<1>5. CallOrigin([node |-> node, op |-> op, id |-> id, seen |-> order[node]])
  BY <1>2, <1>3, <1>4 DEF CallOrigin
<1> QED BY <1>1, <1>2, <1>5, IdleAgree DEF AgreeInv, Origin

\* What a call sends is its user's own, and says what the order it has read allows.
LEMMA CallRightful ==
  ASSUME Inv, SentInv, Origin, NEW c \in calls, NEW m \in CallMessages(c)
  PROVE  /\ m \in Message /\ m.by = c.node /\ m.type = OpType[c.op] /\ Rightful(m)
         /\ m.type = "ORDER_FULFILLMENT" => Has(order[c.node], "ORDER_CONFIRMATION")
<1>1. c \in Call /\ CallOrigin(c) /\ IsFiniteSet(issued) /\ c.node \in Node /\ c.op \in Op
  BY DEF Inv, TypeOK, Call, Origin
<1>2. m \in Message /\ m.type = OpType[c.op] /\ (c.op = "refund" \/ m.by = c.node)
  BY <1>1, CallMessagesType, CallMessagesBuilt
<1>3. c.op = "refund" => m.by = "vendor" /\ c.node = "vendor"
  BY <1>1 DEF CallMessages, RefundMessages, Msg, CallOrigin, OpsOf, Node
<1>4. \A type : type # "RATING_SIGNATURES" /\ type # "DISPUTE_UPDATE" /\ Has(c.seen, type) =>
        Has(order[c.node], type) /\ \E x \in issued : x.type = type
  BY <1>1 DEF CallOrigin, Carries, Has, SentInv, Held
<1>5. CASE c.op = "cancel"
  <2>1. c.node = "buyer" /\ deal.method = "CANCELABLE"
    BY <1>1, <1>5 DEF CallOrigin, OpsOf, CallMessages, CancelMessages, CancelableRelease
  <2> QED BY <1>2, <1>5, <2>1 DEF OpType, Rightful, Buyers
<1>6. CASE c.op = "complete"
  <2>1. c.node = "buyer" /\ c.seen.first # {}
    BY <1>1, <1>6 DEF CallOrigin, OpsOf, CallMessages, CompleteMessages
  <2>2. Has(c.seen, "ORDER_FULFILLMENT")
    BY <1>1, <2>1 DEF CallOrigin, Sound, FirstStored, Has
  <2> QED BY <1>2, <1>4, <1>6, <2>1, <2>2 DEF OpType, Rightful, Buyers
<1>7. CASE c.op = "dispute"
  BY <1>2, <1>7 DEF OpType, Rightful
<1>8. CASE c.op \in {"confirm", "reject"}
  <2>1. c.node = "vendor"
    BY <1>1, <1>8 DEF CallOrigin, OpsOf, Node
  <2> QED BY <1>2, <1>8, <2>1 DEF OpType, Rightful, Buyers
<1>9. CASE c.op = "refund"
  BY <1>1, <1>2, <1>3, <1>9 DEF OpType, Rightful, Buyers, CallOrigin
<1>10. CASE c.op = "fulfill"
  <2>1. c.node = "vendor" /\ Has(c.seen, "ORDER_CONFIRMATION")
    BY <1>1, <1>10 DEF CallOrigin, OpsOf, Node
  <2> QED BY <1>2, <1>4, <1>10, <2>1 DEF OpType, Rightful, Buyers
<1> QED BY <1>1, <1>5, <1>6, <1>7, <1>8, <1>9, <1>10 DEF Op, OpType

LEMMA RunCallAgree ==
  ASSUME Inv, SentInv, AgreeInv, NEW c \in calls, RunCall(c)
  PROVE  AgreeInv'
<1>1. PICK node, o : node = c.node /\ o = order[node]
  OBVIOUS
<1>2. /\ tx = Idle /\ UNCHANGED <<deal, order, net, redeliveries, issued>> /\ calls' \subseteq calls
  BY DEF RunCall
<1>3. Origin /\ Arrived("none", "none") /\ CallOrigin(c)
  BY <1>2 DEF AgreeInv, Origin, Idle
<1>4. /\ c \in Call /\ node \in Node /\ Sound(o) /\ Sound(c.seen)
      /\ Held(o) \subseteq issued /\ issued \subseteq Message /\ IsFiniteSet(issued)
  BY <1>1, <1>3 DEF Inv, TypeOK, Call, SentInv, CallOrigin
<1>5. PICK x \in c.seen.msgs : x.type = "ORDER_OPEN"
  BY <1>3, <1>4 DEF CallOrigin, Sound, Has
<1>6. x \in o.msgs /\ x \in issued /\ o.open
  BY <1>1, <1>3, <1>4, <1>5 DEF CallOrigin, Carries, Held, Sound, Has
<1>7. ASSUME NEW m \in CallMessages(c), NEW next, NEW out, NEW spend,
             Enter(node, o, node, m, next, out, spend),
             out = {m} \cup next, \A r \in next : r.type = "REFUND" /\ r.by = node /\ Rightful(r)
      PROVE  AgreeInv'
  <2>1. /\ m \in Message /\ m.by = node /\ Rightful(m)
        /\ m.type = "ORDER_FULFILLMENT" => Has(o, "ORDER_CONFIRMATION")
    BY <1>1, <1>3, CallRightful
  <2>2. Early(node, o) /\ Carries(order[node], o)
    BY <1>1, <1>3, <1>4 DEF Origin, Carries
  <2>3. Begins(node, o, node, m, next, out, spend)
    BY <1>4, <1>6, <1>7, <2>1, <2>2 DEF Begins
  <2>4. Orderly(issued) => \A y \in issued :
          IF y.by = node THEN y \in o.msgs ELSE y \in net \/ Placed(o, y)
    BY <1>1, <1>3, <1>4 DEF Arrived, Node, Other, Message
  <2>5. Keeps(node, o, m, next, out)
    <3>1. Orderly(issued \cup out) => Orderly(issued)
      BY DEF Orderly
    <3> QED BY <1>2, <1>7, <2>1, <2>4, <3>1 DEF Keeps
  <2>6. Arrived(node, node)'
    <3>1. \A y \in issued : y.by \in Node
      BY <1>4 DEF Message
    <3> QED BY <1>2, <1>3, <3>1 DEF Arrived, Orderly, Competes, Placed, Waiting, Has, Node, Other
  <2>7. tx'.work.open
    BY <1>4, <1>6, <1>7, <2>1, EnterOpens
  <2> QED BY <1>2, <1>3, <1>4, <1>7, <2>1, <2>3, <2>5, <2>6, <2>7, EnterAgree
<1>8. CASE UNCHANGED tx
  BY <1>2, <1>3, <1>8, IdleAgree DEF Origin
<1>9. CASE \E m \in CallMessages(c) :
             Enter(c.node, order[c.node], c.node, m, {}, {m}, CallSpends(m))
  BY <1>1, <1>7, <1>9
<1>10. CASE /\ AlsoRefunds(c)
            /\ \E m \in CallMessages(c), r \in RefundMessages(c.seen) :
                 Enter(c.node, order[c.node], c.node, m, {r}, {m, r}, CallSpends(r))
  <2>1. \A r \in RefundMessages(c.seen) : r.type = "REFUND" /\ r.by = "vendor"
    BY DEF RefundMessages, Msg
  <2>2. node = "vendor" /\ deal.method # "CANCELABLE"
    BY <1>1, <1>3, <1>4, <1>10 DEF AlsoRefunds, CallOrigin, OpsOf, Node
  <2>3. \A r \in RefundMessages(c.seen) : Rightful(r)
    BY <2>1, <2>2 DEF Rightful, Buyers
  <2> QED BY <1>1, <1>7, <1>10, <2>1, <2>2, <2>3
<1> QED BY <1>8, <1>9, <1>10 DEF RunCall

\* The other node's order stays as it is while p becomes the order of this one.
LEMMA SaveOrigin ==
  ASSUME Inv, Origin, UNCHANGED deal, tx' = Idle, calls' = calls,
         NEW node \in Node, NEW p, order' = [order EXCEPT ![node] = p],
         issued \subseteq issued', Carries(order[node], p), Early(node, p),
         \A x \in issued' : Rightful(x),
         issued' # {} => order'["buyer"].open
  PROVE  Origin'
<1>1. /\ \A n \in Node : order'[n] = IF n = node THEN p ELSE order[n]
      /\ \A c \in calls : c.node \in Node
  BY DEF Inv, TypeOK, Call
<1>2. \A x : Rightful(x) => Rightful(x)'
  BY RightfulStays
<1>3. TxOrigin(tx)'
  BY DEF Idle, TxOrigin
<1>4. ASSUME NEW c \in calls PROVE CallOrigin(c)'
  <2>1. CallOrigin(c)
    BY DEF Origin
  <2>2. Carries(c.seen, order'[c.node])
    BY <1>1, <2>1, CarriesTwice DEF CallOrigin
  <2> QED BY <2>1, <2>2 DEF CallOrigin, Carries, Sound
<1>5. \A n \in Node : Early(n, order[n])'
  BY <1>1 DEF Origin, Early, Other
<1> QED BY <1>2, <1>3, <1>4, <1>5 DEF Origin

LEMMA CommitAgree ==
  ASSUME Inv, SentInv, AgreeInv, Commit
  PROVE  AgreeInv'
<1>1. PICK node, p : node = tx.on /\ p = tx.work
  OBVIOUS
<1>2. /\ node \in Node /\ node # "none" /\ tx.todo = {} /\ tx.next = {}
      /\ order \in [Node -> Order] /\ issued \subseteq Message
  BY <1>1 DEF Inv, TypeOK, TxState, Commit
<1>3. /\ order' = [order EXCEPT ![node] = p]
      /\ net' = net \cup tx.out /\ issued' = issued \cup tx.out
      /\ tx' = Idle /\ UNCHANGED <<deal, calls, redeliveries>>
  BY <1>1 DEF Commit
<1>4. Origin /\ TxOrigin(tx) /\ Arrived(tx.on, tx.peer) /\ Drafted(tx)
  BY DEF AgreeInv, Origin
<1>5. \A n \in Node : order'[n] = IF n = node THEN p ELSE order[n]
  BY <1>2, <1>3
<1>6. Origin'
  <2>1. issued' # {} => order'["buyer"].open
    BY <1>1, <1>2, <1>3, <1>4, <1>5 DEF TxOrigin, Origin, Node
  <2>2. Carries(order[node], p) /\ Early(node, p) /\ \A x \in issued' : Rightful(x)
    BY <1>1, <1>2, <1>3, <1>4 DEF TxOrigin, Origin
  <2> QED BY <1>2, <1>3, <1>4, <2>1, <2>2, SaveOrigin
<1>7. ASSUME Orderly(issued)', NEW x \in issued'
      PROVE  x \in order'[x.by].msgs /\ (x \in net' \/ Placed(order'[Other(x.by)], x))
  <2>1. Orderly(issued \cup tx.out) /\ Orderly(issued)
    BY <1>3, <1>7 DEF Orderly, Competes
  <2>2. x.by = node => x \in p.msgs
    BY <1>1, <1>2, <1>3, <1>4, <1>7, <2>1 DEF Drafted
  <2>3. x.by # node => x \in net \/ Placed(p, x)
    BY <1>1, <1>2, <1>3, <1>4, <1>7, <2>1 DEF Drafted, TxOrigin
  <2>4. x \in tx.out => x.by = node /\ x \in net'
    BY <1>1, <1>2, <1>3, <1>4 DEF TxOrigin
  <2>5. x \in issued => /\ x \in order[x.by].msgs
                        /\ x \in net \/ Placed(order[Other(x.by)], x) \/ node = Other(x.by)
    BY <1>1, <1>4, <2>1 DEF Arrived
  <2>6. x.by \in Node /\ Other(x.by) \in Node /\ Other(x.by) # x.by
        /\ \A n \in Node : n = x.by \/ n = Other(x.by)
    BY <1>2, <1>3, <1>7, <2>4 DEF Message, Node, Other
  <2> QED BY <1>3, <1>5, <1>7, <2>2, <2>3, <2>4, <2>5, <2>6
<1>8. Arrived(tx.on, tx.peer)'
  <2>1. \A n, x : Placed(order'[n], x) => Placed(order[n], x)'
    BY DEF Placed, Waiting, Has
  <2> QED BY <1>7, <2>1 DEF Arrived, Other
<1>9. Drafted(tx)'
  BY <1>3 DEF Idle, Drafted
<1> QED BY <1>6, <1>8, <1>9 DEF AgreeInv

LEMMA WalletTransactionAgree ==
  ASSUME Inv, SentInv, AgreeInv, NEW node \in Node, NEW t \in chain, WalletTransaction(node, t)
  PROVE  AgreeInv'
<1>1. PICK p, send, m :
        /\ order' = [order EXCEPT ![node] = p]
        /\ net' = net \cup send /\ issued' = issued \cup send
        /\ m \in order[node].msgs /\ m.type = "ORDER_OPEN"
        /\ Leads(order[node], m, p, send) /\ Sound(p) /\ Moves(order[node], p)
        /\ tx = Idle /\ UNCHANGED <<deal, tx, calls, redeliveries, chain>>
  BY WalletTransactionEffect
<1>2. PICK o : o = order[node]
  OBVIOUS
<1>3. /\ order \in [Node -> Order] /\ issued \subseteq Message /\ Sound(o)
      /\ \A n \in Node : order'[n] = IF n = node THEN p ELSE order[n]
  BY <1>1, <1>2 DEF Inv, TypeOK
<1>4. /\ o.open /\ p.parked = o.parked
      /\ \A x \in issued' \ issued : x \in net' /\ x.by = node /\ Rightful(x) /\ x \in p.msgs
  BY <1>2, <1>3, WalletTransactionKeeps
<1>5. Origin /\ Arrived("none", "none")
  BY <1>1 DEF AgreeInv, Idle
<1>6. /\ p.open /\ m \in issued /\ Carries(o, p)
      /\ Held(p) \subseteq issued' /\ Held(o) \subseteq issued'
  <2>1. Held(p) \subseteq Held(o) \cup {m} \cup send /\ (o.open => p.open)
    BY <1>1, <1>2, <1>3, LeadsFacts
  <2>2. Held(o) \subseteq issued
    BY <1>2 DEF SentInv
  <2>3. m \in Held(o)
    BY <1>1, <1>2 DEF Held
  <2> QED BY <1>1, <1>2, <1>4, <2>1, <2>2, <2>3, MovesCarry
<1>7. Origin'
  <2>1. issued' # {} => order'["buyer"].open
    BY <1>3, <1>5, <1>6 DEF Origin, Node
  <2>2. Early(node, p) /\ \A x \in issued' : Rightful(x)
    BY <1>2, <1>4, <1>5 DEF Origin, Early
  <2>3. tx' = Idle
    BY <1>1
  <2> QED BY <1>1, <1>2, <1>5, <1>6, <2>1, <2>2, <2>3, SaveOrigin
<1>8. ASSUME Orderly(issued'), NEW x \in issued'
      PROVE  x \in order'[x.by].msgs /\ (x \in net' \/ Placed(order'[Other(x.by)], x))
  <2>1. Orderly(issued) /\ o.msgs \subseteq p.msgs
    <3>1. Orderly(issued)
      BY <1>1, <1>8 DEF Orderly
    <3> QED BY <1>1, <1>2, <1>6, <1>8, <3>1, StoredStays
  <2>2. ASSUME Waiting(o, x) PROVE Waiting(p, x)
    <3>1. Has(o, "ORDER_OPEN") /\ m.type # "ORDER_CONFIRMATION"
      BY <1>1, <1>2 DEF Has
    <3> QED BY <1>1, <1>2, <1>3, <1>4, <2>2, <3>1, WaitingStays
  <2>3. x \in issued => /\ x \in order[x.by].msgs /\ x.by \in Node
                        /\ x \in net \/ Placed(order[Other(x.by)], x)
    BY <1>3, <1>5, <2>1 DEF Arrived, Message, Node, Other
  <2>4. x.by \in Node => Other(x.by) \in Node
    BY DEF Node, Other
  <2> QED BY <1>1, <1>2, <1>3, <1>4, <2>1, <2>2, <2>3, <2>4 DEF Placed
<1>9. Arrived(tx.on, tx.peer)'
  <2>1. \A n, x : Placed(order'[n], x) => Placed(order[n], x)'
    BY DEF Placed, Waiting, Has
  <2>2. Orderly(issued)' => Orderly(issued')
    BY <1>1 DEF Orderly, Competes
  <2> QED BY <1>8, <2>1, <2>2 DEF Arrived, Other
<1>10. Drafted(tx)'
  BY <1>1 DEF Idle, Drafted
<1> QED BY <1>7, <1>9, <1>10 DEF AgreeInv

LEMMA AgreeInvariance == Spec => []AgreeInv
<1>1. Init => AgreeInv
  BY DEF Init, AgreeInv, Origin, Early, TxOrigin, Arrived, Drafted, Idle, NoOrder, Node
<1>2. ASSUME Inv, SentInv, AgreeInv, [Next]_vars PROVE AgreeInv'
  <2>1. \A c \in calls : CallOrigin(c)
    BY <1>2 DEF AgreeInv, Origin
  <2>2. CASE UNCHANGED vars
    BY <1>2, <2>1, <2>2, IdleAgree DEF vars
  <2>3. ASSUME NEW p \in Payments, Pay(p) PROVE AgreeInv'
    BY <1>2, <2>1, <2>3, IdleAgree DEF Pay
  <2> QED BY <1>2, <2>2, <2>3, PurchaseAgree, StartCallAgree, RunCallAgree, DeliverAgree,
             WalletTransactionAgree, ReprocessAgree, ProcessNextAgree, CommitAgree, AbortAgree
          DEF Next
<1> QED BY <1>1, <1>2, Invariance, SentInvariance, PTL DEF Spec

\* ProcessMessage: however messages were parked, repeated or crossed on the way, when
\* the last one has been delivered the two parties hold the same.
THEOREM RecordsAgree == Spec => []AgreeWhenQuiet
<1>1. Inv /\ SentInv /\ AgreeInv => AgreeWhenQuiet
  <2> SUFFICES ASSUME Inv, SentInv, AgreeInv, Orderly(issued), Quiet
               PROVE  Agree
    BY DEF AgreeWhenQuiet, SameMessagesSameState
  <2>1. Origin /\ Arrived("none", "none") /\ net = {} /\ issued \subseteq Message
    BY DEF AgreeInv, Quiet, Idle, Inv, TypeOK
  <2>2. \A x \in issued : /\ x \in order[x.by].msgs /\ Placed(order[Other(x.by)], x)
                          /\ x.by \in Node /\ Rightful(x) /\ Other(x.by) \in Node
    BY <2>1 DEF Arrived, Origin, Message, Node, Other
  <2>3. \A n \in Node : Early(n, order[n]) /\ Sound(order[n]) /\ Shared(order[n]) \subseteq issued
    BY <2>1 DEF Origin, Inv, SentInv, Held, Shared
  <2>4. ASSUME NEW x \in issued, x.type \in {"ORDER_OPEN", "ORDER_CONFIRMATION"}
        PROVE  x \in order[Other(x.by)].msgs
    <3>1. ASSUME NEW c \in order[Other(x.by)].parked, c[1] = x PROVE FALSE
      BY <2>2, <2>3, <2>4, <3>1 DEF Early, Rightful, Buyers, Other, Node
    <3> QED BY <2>2, <3>1 DEF Placed, Waiting
  <2>5. ASSUME NEW x \in issued PROVE x \in order[Other(x.by)].msgs
    <3>1. SUFFICES ASSUME Waiting(order[Other(x.by)], x) PROVE FALSE
      BY <2>2 DEF Placed
    <3>2. PICK o \in order["buyer"].msgs : o.type = "ORDER_OPEN"
      BY <2>1, <2>3 DEF Origin, Sound, Has, Node
    <3>3. o \in issued /\ o.by = "buyer"
      BY <2>2, <2>3, <3>2 DEF Shared, Node, Rightful, Buyers
    <3>4. \A n \in Node : Has(order[n], "ORDER_OPEN") /\ order[n].open
      BY <2>3, <2>4, <3>2, <3>3 DEF Node, Other, Has, Sound
    <3>5. x.type = "ORDER_FULFILLMENT" /\ ~Has(order[Other(x.by)], "ORDER_CONFIRMATION")
      BY <2>2, <3>1, <3>4 DEF Waiting
    <3>6. PICK y \in issued : y.type = "ORDER_CONFIRMATION"
      BY <2>2, <3>5 DEF Rightful
    <3>7. x.by = y.by
      BY <2>2, <3>5, <3>6 DEF Rightful, Buyers
    <3> QED BY <2>4, <3>5, <3>6, <3>7 DEF Has
  <2>6. \A n \in Node : issued \subseteq Shared(order[n])
    <3>1. \A n \in Node, x \in issued : x \in order[n].msgs
      BY <2>2, <2>5 DEF Node, Other
    <3> QED BY <2>2, <3>1 DEF Shared, Rightful
  <2> QED BY <2>3, <2>6 DEF Agree, Node
<1> QED BY <1>1, Invariance, SentInvariance, AgreeInvariance, PTL

-----------------------------------------------------------------------------
(* Disputes.  The argument follows a DISPUTE_OPEN from the call that builds it to the  *)
(* moderator: the call finds the order open, the processing of its message leaves a    *)
(* draft with grounds, no handler sends a DISPUTE_OPEN of its own, and neither a draft *)
(* nor a record forgets what gives the grounds.  Then the DISPUTE_UPDATE: only the     *)
(* party that was told of the dispute sends one, and who has one in its record has     *)
(* sent it, so the second contract of a case is the other party's.                     *)

\* All that a record or its draft ever forgets are older rating signatures.
Kept(old, new) == \A x \in old : x.type # "RATING_SIGNATURES" => x \in new

Grounded(o) ==
  \E type \in {"DISPUTE_OPEN", "ORDER_COMPLETE", "ORDER_REJECT", "ORDER_CANCEL"} : Has(o, type)

LEMMA MovesKept ==
  ASSUME NEW o, NEW p, Moves(o, p)
  PROVE  Kept(o.msgs, p.msgs)
BY DEF Moves, Grows, BuyerRecord!Grows, Kept

LEMMA KeptGrounds ==
  ASSUME NEW o, NEW p, Kept(o.msgs, p.msgs)
  PROVE  /\ Grounded(o) => Grounded(p)
         /\ Has(o, "ORDER_OPEN") => Has(p, "ORDER_OPEN")
BY DEF Kept, Grounded, Has

\* The saved record is kept in the draft, and a step keeps both.
RecordsKept == \A n \in Node : Kept(order[n].msgs, Working(n).msgs)

LEMMA RecordsKeptStep ==
  ASSUME RecordsKept, \A n \in Node : RecordStep(n)
  PROVE  RecordsKept' /\ \A n \in Node : Kept(order[n].msgs, order'[n].msgs)
<1> SUFFICES ASSUME NEW n \in Node
             PROVE  /\ Kept(order'[n].msgs, Working(n)'.msgs)
                    /\ Kept(order[n].msgs, order'[n].msgs)
  BY DEF RecordsKept
<1>1. Kept(order[n].msgs, Working(n).msgs)
  BY DEF RecordsKept
<1>2. \A s, t, u : Kept(s, s) /\ (Kept(s, t) /\ Kept(t, u) => Kept(s, u))
  BY DEF Kept
<1>3. \A s, t : Grows(s, t) => Kept(s, t)
  BY DEF Grows, BuyerRecord!Grows, Kept
<1>4. RecordStep(n)
  OBVIOUS
<1> QED BY <1>1, <1>2, <1>3, <1>4 DEF RecordStep

-----------------------------------------------------------------------------
(* What the handlers send, and what a dispute leaves *)

LEMMA SendsNoDispute ==
  ASSUME NEW node, NEW o, NEW peer, NEW m
  PROVE  \A x \in Process(node, o, peer, m).send : x.type # "DISPUTE_OPEN"
<1> DEFINE Silent(r) == \A x \in r.send : x.type # "DISPUTE_OPEN"
<1>1. \A p : Silent(Done(p)) /\ Silent(Fail(p))
  BY DEF Done, Fail
<1>2. \A after, handle : Silent(handle) => Silent(Receive(o, m, after, handle))
  BY <1>1 DEF Receive
<1>3. \A p, q : Silent(IncomingPayment(node, q, p))
  BY DEF IncomingPayment, RatingsFor, Msg, Done
<1>4. Silent(OrderOpen(node, o, m))
  BY <1>1 DEF OrderOpen, Msg
<1>5. Silent(OrderComplete(node, o, m))
  BY DEF OrderComplete, Receive, Done, Fail
<1>6. Silent(Refund(node, o, m))
  BY DEF Refund, Receive, Done, Fail
<1>7. Silent(PaymentSent(node, o, m))
  BY <1>1, <1>3 DEF PaymentSent, Receive
<1>8. Silent(DisputeOpen(node, o, m))
  BY <1>1 DEF DisputeOpen, Receive
<1>9. /\ Silent(OrderReject(o, m)) /\ Silent(OrderCancel(o, m))
      /\ Silent(OrderConfirmation(o, m)) /\ Silent(RatingSignatures(o, m))
      /\ Silent(OrderFulfillment(o, m))
  BY <1>1 DEF OrderReject, OrderCancel, OrderConfirmation, RatingSignatures,
              OrderFulfillment, Receive
<1> HIDE DEF Silent
<1>10. Silent(Process(node, o, peer, m))
  BY <1>1, <1>4, <1>5, <1>6, <1>7, <1>8, <1>9 DEF Process
<1> QED BY <1>10 DEF Silent

LEMMA WalletSendsNoDispute ==
  ASSUME NEW node, NEW o, NEW p
  PROVE  \A x \in IncomingPayment(node, o, p).send : x.type # "DISPUTE_OPEN"
BY DEF IncomingPayment, RatingsFor, Msg, Done

\* A node that processes its own dispute of an open order ends with grounds.
LEMMA OwnDisputeGrounded ==
  ASSUME NEW node \in Node, NEW o, Sound(o), o.open, NEW m \in Message,
         m.type = "DISPUTE_OPEN", m.by = node, deal.method = "MODERATED"
  PROVE  Grounded(Process(node, o, node, m).o)
<1>1. Process(node, o, node, m) = DisputeOpen(node, o, m)
  BY DEF Process
<1>2. CASE m \in o.msgs \/ \E type \in {"ORDER_COMPLETE", "ORDER_REJECT", "ORDER_CANCEL",
                                       "DISPUTE_OPEN"} : Has(o, type)
  <2>1. Grounded(o)
    BY <1>2 DEF Grounded, Has
  <2>2. DisputeOpen(node, o, m).o = o
    BY <1>2 DEF DisputeOpen, Receive, Done, Fail, ListType
  <2> QED BY <1>1, <2>1, <2>2
<1>3. CASE ~(m \in o.msgs \/ \E type \in {"ORDER_COMPLETE", "ORDER_REJECT", "ORDER_CANCEL",
                                         "DISPUTE_OPEN"} : Has(o, type))
  <2>1. DisputeOpen(node, o, m).o = Put(o, m)
    BY <1>3 DEF DisputeOpen, Receive, Done, ListType
  <2>2. m \in Put(o, m).msgs
    BY PutFields DEF Sound
  <2> QED BY <1>1, <2>1, <2>2 DEF Grounded, Has
<1> QED BY <1>2, <1>3

-----------------------------------------------------------------------------
(* The inductive invariant about the disputes the parties send *)

Disputes(ms) == {m \in ms : m.type = "DISPUTE_OPEN"}

DisputeInv ==
  /\ RecordsKept
  /\ \A m \in Disputes(issued) : Grounded(order[m.by])
  /\ \A m \in Disputes(tx.out) : m.by = tx.on /\ Grounded(tx.work)
  /\ \A c \in calls : order[c.node].open
  /\ Disputes(tx.next) = {}

\* ProcessMessage adds no dispute to what the transaction sends.
LEMMA EnterDispute ==
  ASSUME NEW node \in Node, NEW o, Sound(o), NEW peer \in Node \cup {"none"},
         NEW m \in Message, NEW next, NEW out, NEW spend, chain \subseteq Tx,
         Enter(node, o, peer, m, next, out, spend)
  PROVE  /\ tx'.on = node /\ tx'.next = next
         /\ Disputes(tx'.out) = Disputes(out)
         /\ Kept(o.msgs, tx'.work.msgs)
         /\ o.open => tx'.work = Process(node, o, peer, m).o
<1> DEFINE r == IF o = NoOrder /\ m.type # "ORDER_OPEN"
                THEN Done(Park(o, m)) ELSE Process(node, o, peer, m)
<1>1. Good(o, r)
  BY ParkGood, ProcessGood
<1>2. \A x \in r.send : x.type # "DISPUTE_OPEN"
  BY SendsNoDispute DEF Done
<1>3. o.open => r = Process(node, o, peer, m)
  BY DEF NoOrder
<1>4. tx' = [on |-> node, work |-> r.o, peer |-> peer, trigger |-> {m},
             todo |-> {c \in r.o.parked : c[1] # m}, next |-> next,
             out |-> out \cup r.send, spend |-> spend]
  BY DEF Enter
<1> HIDE DEF r
<1> QED BY <1>1, <1>2, <1>3, <1>4, MovesKept DEF Good, Disputes

\* A step that leaves the saved records, the messages sent and the calls alone,
\* or forgets calls, keeps the invariant if it does so for the transaction.
LEMMA TxStep ==
  ASSUME Inv, DisputeInv, Inv', \A n \in Node : RecordStep(n),
         UNCHANGED <<order, issued>>, calls' \subseteq calls,
         \A m \in Disputes(tx'.out) : m.by = tx'.on /\ Grounded(tx'.work),
         Disputes(tx'.next) = {}
  PROVE  DisputeInv'
BY RecordsKeptStep DEF DisputeInv, Disputes

LEMMA CallStep ==
  ASSUME Inv, DisputeInv, Inv', \A n \in Node : RecordStep(n), NEW c \in calls, RunCall(c)
  PROVE  DisputeInv'
<1>1. /\ c \in Call /\ c.node \in Node /\ c.seen \in Order
      /\ tx = Idle /\ Working(c.node) = order[c.node] /\ Sound(order[c.node])
      /\ order[c.node].open /\ chain \subseteq Tx /\ IsFiniteSet(issued)
  BY DEF Inv, DisputeInv, TypeOK, Call, RunCall, Working, Idle, Node
<1>2. UNCHANGED <<order, issued>> /\ calls' \subseteq calls
  BY DEF RunCall
<1>3. CASE UNCHANGED tx
  BY <1>2, <1>3, TxStep DEF DisputeInv
<1>4. ASSUME NEW m \in CallMessages(c), NEW next, NEW out, NEW spend,
             Enter(c.node, order[c.node], c.node, m, next, out, spend),
             Disputes(next) = {}, Disputes(out) \subseteq {m}
      PROVE  DisputeInv'
  <2>1. m \in Message
    BY <1>1, CallMessagesType
  <2>2. /\ tx'.on = c.node /\ Disputes(tx'.next) = {} /\ Disputes(tx'.out) \subseteq {m}
        /\ tx'.work = Process(c.node, order[c.node], c.node, m).o
    BY <1>1, <1>4, <2>1, EnterDispute
  <2>3. m.type = "DISPUTE_OPEN" => m.by = c.node /\ deal.method = "MODERATED"
    <3>1. \A s : \A x \in RefundMessages(s) : x.type = "REFUND"
      BY DEF RefundMessages, Msg
    <3>2. \A k, from : /\ Answer(c, k, from).type = OpType[c.op]
                       /\ Answer(c, k, from).by = c.node
      BY DEF Answer, Msg
    <3>3. c.op = "refund" \/ (m.type = OpType[c.op] /\ m.by = c.node)
      BY <3>2 DEF CallMessages, ConfirmMessages, CancelMessages, RejectMessages,
                  FulfillMessages, CompleteMessages, DisputeMessages
    <3>4. c.op = "refund" => m.type = "REFUND"
      BY <3>1 DEF CallMessages
    <3>5. c.op = "dispute" => deal.method = "MODERATED"
      BY DEF CallMessages, DisputeMessages
    <3>6. c.op \in Op
      BY <1>1 DEF Call
    <3> QED BY <3>3, <3>4, <3>5, <3>6 DEF Op, OpType
  <2>4. m.type = "DISPUTE_OPEN" => Grounded(tx'.work)
    BY <1>1, <2>1, <2>2, <2>3, OwnDisputeGrounded
  <2> QED BY <1>2, <2>2, <2>3, <2>4, TxStep DEF Disputes
<1>5. CASE \E m \in CallMessages(c) :
             Enter(c.node, order[c.node], c.node, m, {}, {m}, CallSpends(m))
  BY <1>4, <1>5 DEF Disputes
<1>6. CASE \E m \in CallMessages(c), r \in RefundMessages(c.seen) :
             Enter(c.node, order[c.node], c.node, m, {r}, {m, r}, CallSpends(r))
  <2>1. \A r \in RefundMessages(c.seen) : r.type = "REFUND"
    BY DEF RefundMessages, Msg
  <2> QED BY <1>4, <1>6, <2>1 DEF Disputes
<1> QED BY <1>3, <1>5, <1>6 DEF RunCall

LEMMA NextDispute ==
  ASSUME Inv, DisputeInv, [Next]_vars
  PROVE  DisputeInv'
<1>1. Inv' /\ \A n \in Node : RecordStep(n)
  BY NextInv
<1>2. RecordsKept' /\ \A n \in Node : Kept(order[n].msgs, order'[n].msgs)
  BY <1>1, RecordsKeptStep DEF DisputeInv
<1>3. /\ order \in [Node -> Order] /\ tx \in TxState /\ calls \subseteq Call
      /\ net \subseteq Message /\ issued \subseteq Message /\ chain \subseteq Tx
      /\ \A n \in Node : Sound(order[n])
      /\ Sound(tx.work)
  BY DEF Inv, TypeOK
<1>4. CASE UNCHANGED vars
  BY <1>1, <1>4, TxStep DEF vars, DisputeInv
<1>5. CASE Purchase
  <2> DEFINE m == Msg("ORDER_OPEN", "buyer", 1, 0, {})
  <2>1. m \in Message /\ m.type = "ORDER_OPEN" /\ "buyer" \in Node /\ Disputes({m}) = {}
    BY MsgType DEF MessageType, Node, Disputes
  <2> HIDE DEF m
  <2>2. Enter("buyer", NoOrder, "buyer", m, {}, {m}, {})
    BY <1>5 DEF Purchase, m
  <2>3. Disputes(tx'.out) = {} /\ Disputes(tx'.next) = {}
    BY <1>3, <2>1, <2>2, NoOrderSound, EnterDispute DEF Disputes
  <2> QED BY <1>1, <1>5, <2>3, TxStep DEF Purchase
<1>6. ASSUME NEW p \in Payments, Pay(p) PROVE DisputeInv'
  BY <1>1, <1>6, TxStep DEF Pay, DisputeInv
<1>7. ASSUME NEW node \in Node, NEW op \in Op, StartCall(node, op) PROVE DisputeInv'
  <2>1. order[node].open /\ UNCHANGED <<order, tx, issued>>
    BY <1>7 DEF StartCall, CanCall
  <2>2. \A c \in calls' : c \in calls \/ c.node = node
    BY <1>7 DEF StartCall
  <2> QED BY <1>2, <2>1, <2>2 DEF DisputeInv
<1>8. ASSUME NEW c \in calls, RunCall(c) PROVE DisputeInv'
  BY <1>1, <1>8, CallStep
<1>9. ASSUME NEW m \in net, Deliver(m) PROVE DisputeInv'
  <2>1. Other(m.by) \in Node /\ m \in Message /\ m.by \in Node
    BY <1>3 DEF Other, Node, Message
  <2>2. Enter(Other(m.by), order[Other(m.by)], m.by, m, {}, {}, {})
    BY <1>9 DEF Deliver
  <2>3. Disputes(tx'.out) = {} /\ Disputes(tx'.next) = {}
    BY <1>3, <2>1, <2>2, EnterDispute DEF Disputes
  <2> QED BY <1>1, <1>9, <2>3, TxStep DEF Deliver
<1>10. ASSUME NEW node \in Node, NEW t \in chain, WalletTransaction(node, t) PROVE DisputeInv'
  <2>1. UNCHANGED <<tx, calls>>
    BY <1>10 DEF WalletTransaction
  <2>2. Disputes(issued') \subseteq Disputes(issued)
    BY <1>10, WalletSendsNoDispute DEF WalletTransaction, OutgoingPayment, Done, Disputes
  <2>3. \A n \in Node : /\ Grounded(order[n]) => Grounded(order'[n])
                        /\ order[n].open => order'[n].open
    BY <1>1, <1>2, <1>3, KeptGrounds DEF Inv, Sound
  <2>4. \A m \in issued : m.by \in Node
    BY <1>3 DEF Message
  <2>5. \A c \in calls : c.node \in Node
    BY <1>3 DEF Call
  <2>6. \A m \in Disputes(issued) : Grounded(order[m.by]) /\ m \in issued
    BY DEF DisputeInv, Disputes
  <2>7. \A m \in Disputes(issued') : Grounded(order'[m.by])
    BY <2>2, <2>3, <2>4, <2>6
  <2> QED BY <1>2, <2>1, <2>3, <2>5, <2>7 DEF DisputeInv, Grounded
<1>11. CASE Reprocess
  <2>1. PICK c \in tx.todo :
          LET r == Process(tx.on, tx.work, tx.peer, c[1])
          IN  tx' = [tx EXCEPT !.work = IF r.ok THEN r.o ELSE PutErrors(r.o, tx.trigger),
                               !.todo = @ \ {c}, !.out = @ \cup r.send]
    BY <1>11 DEF Reprocess
  <2> DEFINE r == Process(tx.on, tx.work, tx.peer, c[1])
             w == IF r.ok THEN r.o ELSE PutErrors(r.o, tx.trigger)
  <2>2. c[1] \in Message /\ tx.on \in Node \cup {"none"} /\ tx.trigger \subseteq Message
    BY <1>3 DEF TxState, Parked
  <2>3. tx.on \in Node
    BY <2>1, <2>2 DEF Inv, Idle
  <2>4. Good(tx.work, r)
    BY <1>3, <2>2, <2>3, ProcessGood
  <2>5. \A x \in r.send : x.type # "DISPUTE_OPEN"
    BY SendsNoDispute
  <2>6. tx' = [tx EXCEPT !.work = w, !.todo = @ \ {c}, !.out = @ \cup r.send]
    BY <2>1
  <2> HIDE DEF r
  <2>7. w.msgs = r.o.msgs
    BY <2>2, <2>4, ErrorsGood DEF Good
  <2> HIDE DEF w
  <2>8. tx'.work = w /\ tx'.out = tx.out \cup r.send /\ tx'.on = tx.on /\ tx'.next = tx.next
    BY <1>3, <2>6 DEF TxState
  <2>9. Grounded(tx.work) => Grounded(tx'.work)
    BY <2>4, <2>7, <2>8, MovesKept, KeptGrounds DEF Good
  <2>10. \A m \in Disputes(tx'.out) : m.by = tx'.on /\ Grounded(tx'.work)
    BY <2>5, <2>8, <2>9 DEF DisputeInv, Disputes
  <2> QED BY <1>1, <1>11, <2>8, <2>10, TxStep DEF Reprocess, DisputeInv
<1>12. CASE ProcessNext
  <2>1. PICK m \in tx.next : Enter(tx.on, tx.work, tx.peer, m, tx.next \ {m}, tx.out, tx.spend)
    BY <1>12 DEF ProcessNext
  <2>2. m \in Message /\ tx.on \in Node /\ tx.peer \in Node \cup {"none"}
    BY <1>3, <1>12 DEF TxState, ProcessNext
  <2> DEFINE node == tx.on
             o == tx.work
             peer == tx.peer
             next == tx.next \ {m}
             out == tx.out
             spend == tx.spend
  <2>3. /\ Enter(node, o, peer, m, next, out, spend)
        /\ node \in Node /\ Sound(o) /\ peer \in Node \cup {"none"}
    BY <1>3, <2>1, <2>2
  <2> HIDE DEF node, o, peer, next, out, spend
  <2>4. tx'.on = node /\ tx'.next = next
    BY <1>3, <2>2, <2>3, EnterDispute
  <2>5. Kept(o.msgs, tx'.work.msgs)
    BY <1>3, <2>2, <2>3, EnterDispute
  <2>6. Disputes(tx'.out) = Disputes(out)
    BY <1>3, <2>2, <2>3, EnterDispute
  <2>7. Disputes(tx'.next) = {}
    BY <2>4 DEF DisputeInv, Disputes, next
  <2>8. Grounded(tx.work) => Grounded(tx'.work)
    BY <2>5, KeptGrounds DEF o
  <2>9. \A x \in Disputes(tx'.out) : x.by = tx'.on /\ Grounded(tx'.work)
    BY <2>4, <2>6, <2>8 DEF DisputeInv, node, out
  <2> QED BY <1>1, <1>12, <2>7, <2>9, TxStep DEF ProcessNext
<1>13. CASE Commit
  <2>1. /\ issued' = issued \cup tx.out /\ tx' = Idle /\ calls' = calls
        /\ order' = [order EXCEPT ![tx.on] = tx.work] /\ tx.on # "none"
    BY <1>13 DEF Commit
  <2>2. tx.on \in Node /\ tx.out \subseteq Message
    BY <1>3, <2>1 DEF TxState
  <2>3. order'[tx.on] = tx.work
    BY <1>3, <2>1, <2>2
  <2>4. \A n \in Node : /\ Grounded(order[n]) => Grounded(order'[n])
                        /\ order[n].open => order'[n].open
    BY <1>1, <1>2, <1>3, KeptGrounds DEF Inv, Sound
  <2>5. \A m \in issued : m.by \in Node
    BY <1>3 DEF Message
  <2>6. \A c \in calls : c.node \in Node
    BY <1>3 DEF Call
  <2>7. \A m \in Disputes(issued) : Grounded(order[m.by]) /\ m \in issued
    BY DEF DisputeInv, Disputes
  <2>8. \A m \in Disputes(tx.out) : m.by = tx.on /\ Grounded(tx.work)
    BY DEF DisputeInv
  <2>9. \A m \in Disputes(issued') : m \in Disputes(issued) \/ m \in Disputes(tx.out)
    BY <2>1 DEF Disputes
  <2>10. \A m \in Disputes(issued') : Grounded(order'[m.by])
    BY <2>3, <2>4, <2>5, <2>7, <2>8, <2>9
  <2>11. Disputes(tx'.out) = {} /\ Disputes(tx'.next) = {}
    BY <2>1 DEF Disputes, Idle
  <2> QED BY <1>2, <2>1, <2>4, <2>6, <2>10, <2>11 DEF DisputeInv, Grounded
<1>14. CASE Abort
  BY <1>1, <1>14, TxStep DEF Abort, Idle, Disputes
<1> QED BY <1>4, <1>5, <1>6, <1>7, <1>8, <1>9, <1>10, <1>11, <1>12, <1>13, <1>14 DEF Next

-----------------------------------------------------------------------------
(* The theorems *)

\* The case belongs to a party that has sent its dispute, has its type, and the
\* moderator marks only what it was sent.
CaseInv ==
  /\ Inv /\ DisputeInv /\ CaseTypeOK
  /\ case.openedBy # "none" => \E m \in Disputes(issued) : m.by = case.openedBy

LEMMA InitCase == DInit => CaseInv
<1> SUFFICES ASSUME DInit PROVE CaseInv OBVIOUS
<1>1. Inv
  BY InitInv DEF DInit
<1>2. DisputeInv
  BY DEF DInit, Init, DisputeInv, RecordsKept, Kept, Working, Idle, NoOrder, Disputes
<1>3. CaseTypeOK /\ case.openedBy = "none"
  BY DEF DInit, CaseTypeOK, Case, NoCase, Copy
<1> QED BY <1>1, <1>2, <1>3 DEF CaseInv

\* What the parties sent stays sent.
LEMMA MailKept ==
  ASSUME Inv, DisputeInv, [Next]_vars
  PROVE  Mail \subseteq Mail' /\ issued \subseteq issued'
<1>1. \A n \in Node : Kept(order[n].msgs, order'[n].msgs)
  BY NextInv, RecordsKeptStep DEF DisputeInv
<1>2. issued \subseteq issued'
  BY DEF Next, vars, Purchase, Pay, StartCall, RunCall, Deliver, WalletTransaction,
         Reprocess, ProcessNext, Commit, Abort
<1> QED BY <1>1, <1>2 DEF Mail, Kept, Node

LEMMA HandleCase ==
  ASSUME CaseInv, NEW m \in Mail, HandleDispute(m), UNCHANGED vars
  PROVE  CaseInv'
<1>1. Inv' /\ DisputeInv' /\ Mail' = Mail /\ UNCHANGED issued
  BY DEF CaseInv, Inv, TypeOK, DisputeInv, RecordsKept, Working, vars, Mail
<1>2. m \in Message /\ m.by \in Node /\ Other(m.by) \in Node
  <2>1. m \in Message
    BY DEF CaseInv, Inv, TypeOK, Mail, Order, Node
  <2> QED BY <2>1 DEF Message, Other, Node
<1>3. case \in Case /\ handled \subseteq Mail
  BY DEF CaseInv, CaseTypeOK
<1>4. handled' \subseteq Mail
  BY <1>3 DEF HandleDispute
<1>5. CASE m.type = "DISPUTE_OPEN"
  <2>1. case' = case \/ \E flaws \in Flaws(m) : case' = [PutDisputeOpen(case, m) EXCEPT !.flawed = flaws]
    BY <1>5 DEF HandleDispute, ReceiveOpen
  <2>2. \A flaws \in Flaws(m) : flaws \subseteq Node
    BY <1>2 DEF Flaws
  <2>3. PutDisputeOpen(case, m) \in Case /\ PutDisputeOpen(case, m).openedBy = m.by
    BY <1>2, <1>3 DEF PutDisputeOpen, Case, Copy
  <2>4. case' \in Case /\ (case' = case \/ case'.openedBy = m.by)
    BY <1>3, <2>1, <2>2, <2>3 DEF Case
  <2>5. m \in Disputes(issued)
    BY <1>5 DEF Mail, Disputes, CaseInv, DisputeInv
  <2> QED BY <1>1, <1>4, <2>4, <2>5 DEF CaseInv, CaseTypeOK
<1>6. CASE m.type # "DISPUTE_OPEN"
  <2>1. case' = PutDisputeUpdate(case, m)
    BY <1>6 DEF HandleDispute
  <2>2. case' \in Case /\ case'.openedBy = case.openedBy
    BY <1>2, <1>3, <2>1 DEF PutDisputeUpdate, Case, Copy
  <2> QED BY <1>1, <1>4, <2>2 DEF CaseInv, CaseTypeOK
<1> QED BY <1>5, <1>6

LEMMA CaseInvariance == DSpec => []CaseInv
<1>1. CaseInv /\ [DNext]_<<vars, caseVars>> => CaseInv'
  <2> SUFFICES ASSUME CaseInv, [DNext]_<<vars, caseVars>> PROVE CaseInv' OBVIOUS
  <2>1. CASE [Next]_vars /\ UNCHANGED caseVars
    <3>1. Inv' /\ DisputeInv' /\ Mail \subseteq Mail' /\ issued \subseteq issued'
      BY <2>1, NextInv, NextDispute, MailKept DEF CaseInv
    <3> QED BY <2>1, <3>1 DEF CaseInv, CaseTypeOK, caseVars, Disputes
  <2>2. CASE \E m \in Mail : HandleDispute(m) /\ UNCHANGED vars
    BY <2>2, HandleCase
  <2> QED BY <2>1, <2>2 DEF DNext
<1> QED BY InitCase, <1>1, PTL DEF DSpec

\* The case keeps its type and only messages sent to the moderator are marked,
\* whatever the order in which they come and however often.
THEOREM CaseTypeCorrect == DSpec => []CaseTypeOK
<1>1. CaseInv => CaseTypeOK BY DEF CaseInv
<1> QED BY CaseInvariance, <1>1, PTL

\* A case is always about an order whose opener stores a dispute, or one of the
\* messages that exclude it: OpenDispute (core/disputes.go:105) cannot start a
\* case out of nothing, although it sends what its processor refused.
THEOREM CasesHaveGrounds == DSpec => []CaseHasGrounds
<1>1. CaseInv => CaseHasGrounds
  BY DEF CaseInv, DisputeInv, CaseHasGrounds, Grounded
<1> QED BY CaseInvariance, <1>1, PTL

-----------------------------------------------------------------------------
(* What the records say of disputes                                        *)
(*                                                                         *)
(* A node stores a dispute of the other party only while it has no grounds *)
(* of its own, so before it sent any; the two records therefore never hold *)
(* each the other's dispute, and only one party answers with an update.    *)

Update(n) == Msg("DISPUTE_UPDATE", n, 1, 0, {})

\* The messages s of node n include a dispute of the other party.
Foreign(n, s) == \E x \in s : x.type = "DISPUTE_OPEN" /\ x.by # n

\* The disputes that the order o of node n holds or has parked were sent, and it
\* holds its update exactly when it holds a dispute of the other party.
Traces(n, o, sent) ==
  /\ \A x \in o.msgs : x.type = "DISPUTE_OPEN" => x \in sent /\ deal.method = "MODERATED"
  /\ \A c \in o.parked : c[1].type = "DISPUTE_OPEN" => c[1] \in sent
  /\ Foreign(n, o.msgs) => Update(n) \in o.msgs
  /\ \A x \in o.msgs : x.type = "DISPUTE_UPDATE" => x = Update(n) /\ Foreign(n, o.msgs)

Traced ==
  /\ net \subseteq issued
  /\ \A n \in Node : Traces(n, order[n], issued)
  /\ Traces(tx.on, tx.work, issued \cup tx.out)
  /\ \A c \in tx.todo : c[1].type = "DISPUTE_OPEN" => c[1] \in issued \cup tx.out
  /\ ~(Foreign("buyer", Working("buyer").msgs) /\ Foreign("vendor", Working("vendor").msgs))

\* Whatever a handler adds to an order: a dispute only if it is the message and
\* the order has no grounds, an update only with the other party's dispute.
Adds(node, o, m, p) ==
  /\ \A x \in p.msgs \ o.msgs :
       /\ x.type = "DISPUTE_OPEN" => x = m /\ ~Grounded(o) /\ deal.method = "MODERATED"
       /\ x.type = "DISPUTE_UPDATE" => x = Update(node) /\ Foreign(node, p.msgs)
  /\ Foreign(node, p.msgs) => Foreign(node, o.msgs) \/ Update(node) \in p.msgs
  /\ \A c \in p.parked \ o.parked : c[1] = m

\* Most handlers touch neither disputes nor what is parked.
Plain(o, p) ==
  /\ p.parked = o.parked
  /\ \A x \in p.msgs \ o.msgs : x.type \notin {"DISPUTE_OPEN", "DISPUTE_UPDATE"}

LEMMA PlainAdds ==
  ASSUME NEW node, NEW o, NEW m, NEW p, Plain(o, p)
  PROVE  Adds(node, o, m, p)
BY DEF Adds, Plain, Foreign

LEMMA PutPlain ==
  ASSUME NEW o, NEW q \in Order, Plain(o, q),
         NEW x \in Message, x.type \notin {"DISPUTE_OPEN", "DISPUTE_UPDATE"}
  PROVE  Plain(o, Put(q, x))
<1>1. /\ Put(q, x).parked = q.parked
      /\ \A y \in Put(q, x).msgs : y \in q.msgs \/ y = x
  BY DEF Put, Order
<1> QED BY <1>1 DEF Plain

LEMMA RecordSpendPlain ==
  ASSUME NEW o, NEW q \in Order, Plain(o, q), NEW m, NEW method
  PROVE  Plain(o, RecordSpend(q, m, method))
<1>1. /\ RecordSpend(q, m, method).msgs = q.msgs
      /\ RecordSpend(q, m, method).parked = q.parked
  BY DEF RecordSpend, PutTransaction, Order
<1> QED BY <1>1 DEF Plain

LEMMA IncomingPaymentPlain ==
  ASSUME NEW node \in Node, NEW o, NEW q \in Order, Plain(o, q), NEW p \in Payments
  PROVE  Plain(o, IncomingPayment(node, q, p).o)
<1> DEFINE paid == PutTransaction(q, PaymentTx(p))
           m == IF node = "buyer" THEN Msg("PAYMENT_SENT", node, 1, 0, {p})
                ELSE RatingsFor(node, p)
<1>1. paid \in Order /\ Plain(o, paid)
  BY DEF PutTransaction, Order, Tx, Plain
<1>2. m \in Message /\ m.type \notin {"DISPUTE_OPEN", "DISPUTE_UPDATE"}
  BY MsgType DEF MessageType, RatingsFor
<1> HIDE DEF paid, m
<1>3. Plain(o, Put(paid, m))
  BY <1>1, <1>2, PutPlain
<1>4. \/ IncomingPayment(node, q, p).o = q
      \/ IncomingPayment(node, q, p).o = paid
      \/ IncomingPayment(node, q, p).o = Put(paid, m)
  BY DEF IncomingPayment, Done, paid, m
<1> QED BY <1>1, <1>3, <1>4

LEMMA ReceiveAdds ==
  ASSUME NEW node, NEW o \in Order, NEW m, NEW after, NEW handle,
         /\ m.type \in ListType \/ ~Has(o, m.type)
         /\ \A type \in after : ~Has(o, type)
         => Adds(node, o, m, handle.o)
  PROVE  Adds(node, o, m, Receive(o, m, after, handle).o)
<1>1. Done(o).o = o /\ Fail(o).o = o /\ Done(Park(o, m)).o = Park(o, m)
  BY DEF Done, Fail
<1>2. Adds(node, o, m, o)
  BY DEF Adds
<1>3. Park(o, m).msgs = o.msgs /\ \A c \in Park(o, m).parked \ o.parked : c[1] = m
  BY DEF Park, Order
<1>4. Adds(node, o, m, Park(o, m))
  BY <1>3 DEF Adds
<1> QED BY <1>1, <1>2, <1>4 DEF Receive

\* A dispute that is stored comes with the node's update if it is the other
\* party's.
LEMMA DisputeOpenAdds ==
  ASSUME NEW node \in Node, NEW o \in Order, NEW m \in Message, m.type = "DISPUTE_OPEN"
  PROVE  Adds(node, o, m, DisputeOpen(node, o, m).o)
<1> DEFINE after == {"ORDER_COMPLETE", "ORDER_REJECT", "ORDER_CANCEL"}
           handle == IF deal.method # "MODERATED" THEN Fail(o)
                     ELSE IF m.by = node THEN Done(Put(o, m))
                     ELSE IF ~CanMarshal(o) THEN Fail(o)
                     ELSE Done(Put(Put(o, Update(node)), m))
<1>1. ASSUME ~Has(o, m.type), \A type \in after : ~Has(o, type)
      PROVE  Adds(node, o, m, handle.o)
  <2>1. ~Grounded(o)
    BY <1>1 DEF Grounded
  <2>2. CASE handle.o = o
    BY <2>2 DEF Adds
  <2>3. CASE m.by = node /\ deal.method = "MODERATED" /\ handle.o = Put(o, m)
    <3>1. \A x \in Put(o, m).msgs : x \in o.msgs \/ x = m
      BY PutFields
    <3>2. Put(o, m).parked = o.parked
      BY DEF Put, Order
    <3> HIDE DEF handle
    <3> QED BY <2>1, <2>3, <3>1, <3>2 DEF Adds, Foreign
  <2>4. CASE m.by # node /\ deal.method = "MODERATED" /\ handle.o = Put(Put(o, Update(node)), m)
    <3> DEFINE u == Update(node)
               q == Put(o, u)
    <3>1. u \in Message /\ u.type = "DISPUTE_UPDATE"
      BY MsgType DEF MessageType, Update
    <3> HIDE DEF u
    <3>2. q \in Order /\ q.parked = o.parked /\ \A x \in q.msgs : x \in o.msgs \/ x = u
      BY <3>1, PutFields DEF Put, Order
    <3>3. u \in q.msgs
      BY <3>1, PutFields
    <3> HIDE DEF q
    <3>4. Put(q, m).msgs = {x \in q.msgs : x.type # m.type} \cup {m}
      BY <3>2, PutFields DEF ListType
    <3>5. Put(q, m).parked = q.parked
      BY <3>2 DEF Put, Order
    <3>6. u \in Put(q, m).msgs /\ m \in Put(q, m).msgs
      BY <3>1, <3>3, <3>4
    <3>7. handle.o = Put(q, m)
      BY <2>4 DEF u, q
    <3> HIDE DEF handle
    <3>8. Foreign(node, handle.o.msgs)
      BY <2>4, <3>6, <3>7 DEF Foreign
    <3> QED BY <2>1, <2>4, <3>1, <3>2, <3>4, <3>5, <3>6, <3>7, <3>8 DEF Adds, u
  <2>5. handle.o = o \/ handle.o = Put(o, m) \/ handle.o = Put(Put(o, Update(node)), m)
    BY DEF Done, Fail
  <2> QED BY <2>2, <2>3, <2>4 DEF Done, Fail
<1>2. Adds(node, o, m, Receive(o, m, after, handle).o)
  <2> HIDE DEF handle
  <2> QED BY <1>1, ReceiveAdds DEF ListType
<1> QED BY <1>2 DEF DisputeOpen, Update

LEMMA RefundAdds ==
  ASSUME NEW node \in Node, NEW o, Sound(o), NEW m \in Message, m.type = "REFUND"
  PROVE  Adds(node, o, m, Refund(node, o, m).o)
<1> DEFINE q == RecordSpend(Put(o, m), m, "DIRECT")
           handle == IF IsRepeat(deal.method, o, m) THEN Done(o)
                     ELSE [Done(q) EXCEPT
                             !.spend = IF node = "buyer" /\ deal.method = "MODERATED"
                                       THEN {TxOf(m)} ELSE {}]
<1>1. o \in Order /\ Plain(o, o) /\ Put(o, m) \in Order
  BY PutFields DEF Sound, Plain
<1>2. Plain(o, q)
  BY <1>1, PutPlain, RecordSpendPlain
<1>3. handle.o = o \/ handle.o = q
  BY DEF Done
<1> HIDE DEF q, handle
<1>4. Adds(node, o, m, Receive(o, m, {"ORDER_CANCEL"}, handle).o)
  BY <1>1, <1>2, <1>3, PlainAdds, ReceiveAdds
<1> QED BY <1>4 DEF Refund, q, handle

LEMMA PaymentSentAdds ==
  ASSUME NEW node \in Node, NEW o, Sound(o), NEW m \in Message, m.type = "PAYMENT_SENT",
         chain \subseteq Tx
  PROVE  Adds(node, o, m, PaymentSent(node, o, m).o)
<1> DEFINE p == CHOOSE q \in m.from : TRUE
           handle == IF IsRepeat(deal.method, o, m) THEN Done(o)
                     ELSE IF PaymentTx(p) \notin chain THEN Done(Put(o, m))
                     ELSE IncomingPayment(node, Put(o, m), p)
<1>1. o \in Order /\ Plain(o, o) /\ Put(o, m) \in Order
  BY PutFields DEF Sound, Plain
<1>2. PaymentTx(p) \in chain => p \in Payments
  <2>1. PaymentTx(p) \in Tx => \E q \in Payments : PaymentTx(p) = PaymentTx(q)
    BY DEF Tx, PaymentTx, SpendType
  <2>2. \A q : PaymentTx(q).from = {q}
    BY DEF PaymentTx
  <2> QED BY <2>1, <2>2
<1>3. Plain(o, Put(o, m))
  BY <1>1, PutPlain
<1>4. PaymentTx(p) \in chain => Plain(o, IncomingPayment(node, Put(o, m), p).o)
  BY <1>1, <1>2, <1>3, IncomingPaymentPlain
<1>5. \/ handle.o = o \/ handle.o = Put(o, m)
      \/ PaymentTx(p) \in chain /\ handle.o = IncomingPayment(node, Put(o, m), p).o
  BY DEF Done
<1>6. Plain(o, handle.o)
  BY <1>1, <1>3, <1>4, <1>5
<1> HIDE DEF handle
<1>7. Adds(node, o, m, Receive(o, m, {}, handle).o)
  BY <1>1, <1>6, PlainAdds, ReceiveAdds
<1> QED BY <1>7 DEF PaymentSent, handle

\* The handlers that end by putting the message.
LEMMA PutHandlersAdd ==
  ASSUME NEW node \in Node, NEW o, Sound(o), NEW m \in Message,
         m.type \notin {"DISPUTE_OPEN", "DISPUTE_UPDATE"}, chain \subseteq Tx
  PROVE  /\ Adds(node, o, m, OrderReject(o, m).o)
         /\ Adds(node, o, m, OrderCancel(o, m).o)
         /\ Adds(node, o, m, OrderConfirmation(o, m).o)
         /\ Adds(node, o, m, RatingSignatures(o, m).o)
         /\ Adds(node, o, m, OrderFulfillment(o, m).o)
         /\ Adds(node, o, m, OrderComplete(node, o, m).o)
<1>1. o \in Order /\ Plain(o, o)
  BY DEF Sound, Plain
<1>2. Adds(node, o, m, Put(o, m)) /\ Adds(node, o, m, o)
  BY <1>1, PutPlain, PlainAdds
<1>3. Done(o).o = o /\ Fail(o).o = o /\ Done(Put(o, m)).o = Put(o, m)
  BY DEF Done, Fail
<1>4. Adds(node, o, m, OrderReject(o, m).o) /\ Adds(node, o, m, RatingSignatures(o, m).o)
  BY <1>1, <1>2, <1>3, ReceiveAdds DEF OrderReject, RatingSignatures
<1>5. /\ Adds(node, o, m, OrderCancel(o, m).o)
      /\ Adds(node, o, m, OrderConfirmation(o, m).o)
  <2> DEFINE q == RecordSpend(o, m, "CANCELABLE")
  <2>1. q \in Order /\ Plain(o, q)
    BY <1>1, RecordSpendGood, RecordSpendPlain DEF Sound
  <2>2. Adds(node, o, m, Done(Put(q, m)).o)
    BY <2>1, PutPlain, PlainAdds DEF Done
  <2> HIDE DEF q
  <2> QED BY <1>1, <2>2, ReceiveAdds DEF OrderCancel, OrderConfirmation, q
<1>6. Adds(node, o, m, OrderFulfillment(o, m).o)
  <2> DEFINE handle == IF ~Has(o, "ORDER_CONFIRMATION") THEN Done(Park(o, m))
                       ELSE IF IsRepeat(deal.method, o, m) THEN Fail(o)
                       ELSE Done(Put(o, m))
  <2>1. Park(o, m).msgs = o.msgs /\ \A c \in Park(o, m).parked \ o.parked : c[1] = m
    BY <1>1 DEF Park, Order
  <2>2. Adds(node, o, m, Park(o, m)) /\ Done(Park(o, m)).o = Park(o, m)
    BY <2>1 DEF Adds, Done
  <2>3. Adds(node, o, m, handle.o)
    BY <1>2, <1>3, <2>2
  <2> HIDE DEF handle
  <2> QED BY <1>1, <2>3, ReceiveAdds DEF OrderFulfillment, handle
<1>7. Adds(node, o, m, OrderComplete(node, o, m).o)
  <2> DEFINE release == node = "vendor" /\ deal.method = "MODERATED" /\ ~Has(o, "DISPUTE_OPEN")
             signed == \E f \in o.first : f.from = m.from /\ f.k = m.k
             handle == IF release /\ o.first = {} THEN Fail(o)
                       ELSE [Done(Put(o, m)) EXCEPT
                               !.spend = IF release /\ signed THEN {TxOf(m)} ELSE {}]
  <2>1. handle.o = o \/ handle.o = Put(o, m)
    BY DEF Done, Fail
  <2> HIDE DEF handle
  <2> QED BY <1>1, <1>2, <2>1, ReceiveAdds DEF OrderComplete, handle
<1> QED BY <1>4, <1>5, <1>6, <1>7

LEMMA OrderOpenAdds ==
  ASSUME NEW node \in Node, NEW o, Sound(o), NEW m \in Message, m.type = "ORDER_OPEN"
  PROVE  Adds(node, o, m, OrderOpen(node, o, m).o)
<1> DEFINE reject == Msg("ORDER_REJECT", node, 0, 0, {})
<1>1. reject \in Message /\ reject.type = "ORDER_REJECT"
  BY MsgType DEF MessageType
<1> HIDE DEF reject
<1>2. o \in Order /\ Plain(o, o)
  BY DEF Sound, Plain
<1>3. Plain(o, Put(o, m)) /\ Plain(o, Put(o, reject)) /\ Put(o, reject) \in Order
  BY <1>1, <1>2, PutPlain, PutFields
<1>4. Plain(o, Put(Put(o, reject), m))
  BY <1>3, PutPlain
<1>5. OrderOpen(node, o, m).o \in {o, Put(o, m), Put(Put(o, reject), m)}
  BY DEF OrderOpen, Done, Fail, reject
<1> QED BY <1>2, <1>3, <1>4, <1>5, PlainAdds

LEMMA ProcessAdds ==
  ASSUME NEW node \in Node, NEW o, Sound(o), NEW peer, NEW m \in Message, chain \subseteq Tx
  PROVE  Adds(node, o, m, Process(node, o, peer, m).o)
<1>1. o \in Order /\ Fail(o).o = o /\ m.type \in MessageType
  BY DEF Sound, Fail, Done, Message
<1>2. Adds(node, o, m, Fail(o).o)
  BY <1>1 DEF Adds
<1>3. CASE m.type \in {"ORDER_REJECT", "ORDER_CANCEL", "ORDER_CONFIRMATION", "RATING_SIGNATURES",
                      "ORDER_FULFILLMENT", "ORDER_COMPLETE"}
  BY <1>2, <1>3, PutHandlersAdd DEF Process
<1>4. CASE m.type = "ORDER_OPEN"
  BY <1>2, <1>4, OrderOpenAdds DEF Process
<1>5. CASE m.type = "DISPUTE_OPEN"
  BY <1>1, <1>2, <1>5, DisputeOpenAdds DEF Process
<1>6. CASE m.type = "REFUND"
  BY <1>2, <1>6, RefundAdds DEF Process
<1>7. CASE m.type = "PAYMENT_SENT"
  BY <1>2, <1>7, PaymentSentAdds DEF Process
<1>8. CASE m.type = "DISPUTE_UPDATE"
  BY <1>2, <1>8 DEF Process
<1> QED BY <1>1, <1>3, <1>4, <1>5, <1>6, <1>7, <1>8 DEF MessageType

-----------------------------------------------------------------------------
(* Traced is inductive *)

LEMMA AddsTraces ==
  ASSUME NEW node, NEW o, NEW p, NEW m, NEW sent, Traces(node, o, sent),
         Kept(o.msgs, p.msgs), Adds(node, o, m, p), m.type = "DISPUTE_OPEN" => m \in sent
  PROVE  Traces(node, p, sent)
<1>1. Update(node).type = "DISPUTE_UPDATE"
  BY DEF Update, Msg
<1>2. Foreign(node, o.msgs) => Foreign(node, p.msgs) /\ Update(node) \in p.msgs
  BY <1>1 DEF Traces, Kept, Foreign
<1>3. \A x \in p.msgs : x.type = "DISPUTE_UPDATE" => x = Update(node) /\ Foreign(node, p.msgs)
  BY <1>2 DEF Traces, Adds
<1>4. \A x \in p.msgs : x.type = "DISPUTE_OPEN" => x \in sent /\ deal.method = "MODERATED"
  BY DEF Traces, Adds
<1>5. \A c \in p.parked : c[1].type = "DISPUTE_OPEN" => c[1] \in sent
  BY DEF Traces, Adds
<1> QED BY <1>2, <1>3, <1>4, <1>5 DEF Traces, Adds

\* What a node adds to its draft does not make the two records hold each the
\* other's dispute.
LEMMA AddsApart ==
  ASSUME Inv, DisputeInv, Traced, NEW node \in Node, tx = Idle \/ tx.on = node,
         NEW p, NEW m, Adds(node, Working(node), m, p)
  PROVE  ~(Foreign(node, p.msgs) /\ Foreign(Other(node), Working(Other(node)).msgs))
<1> DEFINE other == Other(node)
<1>1. other \in Node /\ other # node /\ {node, other} = {"buyer", "vendor"}
  BY DEF Other, Node
<1>2. Working(other) = order[other]
  BY <1>1 DEF Working, Idle, Node
<1> HIDE DEF other
<1> SUFFICES ASSUME Foreign(node, p.msgs), Foreign(other, order[other].msgs) PROVE FALSE
  BY <1>2 DEF other
<1>3. PICK x \in order[other].msgs : x.type = "DISPUTE_OPEN" /\ x.by # other
  BY DEF Foreign
<1>4. x \in issued
  BY <1>1, <1>3 DEF Traced, Traces
<1>5. x.by = node
  BY <1>1, <1>3, <1>4 DEF Inv, TypeOK, Message, Node
<1>6. Grounded(order[node])
  BY <1>3, <1>4, <1>5 DEF DisputeInv, Disputes
<1>7. Grounded(Working(node))
  BY <1>6, KeptGrounds DEF DisputeInv, RecordsKept
<1>8. Foreign(node, Working(node).msgs)
  BY <1>7 DEF Adds, Foreign
<1>9. ~(Foreign(node, Working(node).msgs) /\ Foreign(other, Working(other).msgs))
  BY <1>1 DEF Traced
<1> QED BY <1>2, <1>8, <1>9

\* A step that works on the draft of a node keeps Traced.
LEMMA DraftTraced ==
  ASSUME Inv, DisputeInv, Traced, NEW node \in Node, tx = Idle \/ tx.on = node,
         tx'.on = node, UNCHANGED <<deal, order, issued>>, net' \subseteq net,
         NEW m, m.type = "DISPUTE_OPEN" => m \in issued \cup tx'.out,
         tx.on = node => tx.out \subseteq tx'.out,
         Kept(Working(node).msgs, tx'.work.msgs), Adds(node, Working(node), m, tx'.work),
         \A c \in tx'.todo : c \in tx'.work.parked \/ c \in tx.todo
  PROVE  Traced'
<1> DEFINE sent == issued \cup tx'.out
           o == Working(node)
           p == tx'.work
<1>1. Traces(node, o, sent)
  <2>1. CASE tx.on = node
    BY <2>1 DEF Traced, Traces, Working
  <2>2. CASE tx.on # node
    BY <2>2 DEF Traced, Traces, Working
  <2> QED BY <2>1, <2>2
<1>2. Traces(node, p, sent)
  <2> HIDE DEF o, p, sent
  <2>1. Kept(o.msgs, p.msgs) /\ Adds(node, o, m, p) /\ (m.type = "DISPUTE_OPEN" => m \in sent)
    BY DEF o, p, sent
  <2> QED BY <1>1, <2>1, AddsTraces
<1>3. \A n \in Node : Traces(n, order[n], issued)'
  BY DEF Traced, Traces, Foreign, Update
<1>4. Traces(tx.on, tx.work, issued \cup tx.out)'
  BY <1>2 DEF Traces, Foreign, Update
<1>5. \A c \in tx.todo : c[1].type = "DISPUTE_OPEN" => c[1] \in sent
  BY DEF Traced, Idle
<1>6. \A c \in tx'.todo : c[1].type = "DISPUTE_OPEN" => c[1] \in sent
  BY <1>2, <1>5 DEF Traces
<1>7. ~(Foreign("buyer", Working("buyer").msgs) /\ Foreign("vendor", Working("vendor").msgs))'
  <2>1. ~(Foreign(node, p.msgs) /\ Foreign(Other(node), Working(Other(node)).msgs))
    BY AddsApart
  <2>2. Working(node)' = p /\ Working(Other(node))' = Working(Other(node))
    BY DEF Working, Other, Node, Idle
  <2> HIDE DEF p
  <2>3. ~(Foreign(node, Working(node)'.msgs) /\ Foreign(Other(node), Working(Other(node))'.msgs))
    BY <2>1, <2>2
  <2> QED BY <2>3 DEF Other, Node, Foreign
<1> QED BY <1>3, <1>4, <1>6, <1>7 DEF Traced

\* ProcessMessage on the working copy.
LEMMA EnterTraced ==
  ASSUME Inv, DisputeInv, Traced, NEW node \in Node, tx = Idle \/ tx.on = node,
         NEW peer \in Node \cup {"none"}, NEW m \in Message, NEW next, NEW out, NEW spend,
         Enter(node, Working(node), peer, m, next, out, spend),
         UNCHANGED <<deal, order, issued>>, net' \subseteq net,
         m.type = "DISPUTE_OPEN" => m \in issued \cup out,
         tx.on = node => tx.out \subseteq out
  PROVE  Traced'
<1> DEFINE o == Working(node)
           r == IF o = NoOrder /\ m.type # "ORDER_OPEN"
                THEN Done(Park(o, m)) ELSE Process(node, o, peer, m)
<1>1. Sound(o) /\ chain \subseteq Tx
  BY DEF Inv, Working, TypeOK
<1>2. Good(o, r)
  BY <1>1, ParkGood, ProcessGood
<1>3. Adds(node, o, m, Done(Park(o, m)).o)
  <2>1. Park(o, m).msgs = o.msgs /\ \A c \in Park(o, m).parked \ o.parked : c[1] = m
    BY <1>1 DEF Park, Order, Sound
  <2>2. Done(Park(o, m)).o = Park(o, m)
    BY DEF Done
  <2> QED BY <2>1, <2>2 DEF Adds
<1>4. Adds(node, o, m, r.o)
  BY <1>1, <1>3, ProcessAdds
<1>5. /\ tx'.on = node /\ tx'.work = r.o /\ tx'.out = out \cup r.send
      /\ tx'.todo = {c \in r.o.parked : c[1] # m}
  BY DEF Enter
<1> HIDE DEF r
<1>6. Kept(o.msgs, tx'.work.msgs)
  BY <1>2, <1>5, MovesKept DEF Good
<1>7. \A c \in tx'.todo : c \in tx'.work.parked
  BY <1>5
<1>8. Adds(node, o, m, tx'.work)
  BY <1>4, <1>5
<1> QED BY <1>5, <1>6, <1>7, <1>8, DraftTraced

LEMMA SentGrows ==
  ASSUME NEW node, NEW o, NEW sent, NEW more, sent \subseteq more, Traces(node, o, sent)
  PROVE  Traces(node, o, more)
BY DEF Traces

LEMMA ReprocessTraced ==
  ASSUME Inv, DisputeInv, Traced, Reprocess
  PROVE  Traced'
<1>1. PICK c \in tx.todo :
        LET r == Process(tx.on, tx.work, tx.peer, c[1])
        IN  tx' = [tx EXCEPT !.work = IF r.ok THEN r.o ELSE PutErrors(r.o, tx.trigger),
                             !.todo = @ \ {c}, !.out = @ \cup r.send]
  BY DEF Reprocess
<1> DEFINE r == Process(tx.on, tx.work, tx.peer, c[1])
           w == IF r.ok THEN r.o ELSE PutErrors(r.o, tx.trigger)
           m == c[1]
<1>2. tx \in TxState /\ chain \subseteq Tx /\ m \in Message /\ Sound(tx.work)
  BY DEF Inv, TypeOK, TxState, Parked
<1>3. tx.on \in Node
  BY <1>1, <1>2 DEF Inv, Idle, TxState
<1>4. Good(tx.work, r)
  BY <1>2, <1>3, ProcessGood
<1>5. Adds(tx.on, tx.work, m, r.o)
  BY <1>2, <1>3, ProcessAdds
<1>6. tx' = [tx EXCEPT !.work = w, !.todo = @ \ {c}, !.out = @ \cup r.send]
  BY <1>1
<1> HIDE DEF r, m
<1>7. w.msgs = r.o.msgs /\ w.parked = r.o.parked
  BY <1>4 DEF Good, Sound, Order, PutErrors
<1> HIDE DEF w
<1>8. /\ tx'.on = tx.on /\ tx'.work = w /\ tx'.todo = tx.todo \ {c}
      /\ tx'.out = tx.out \cup r.send
  BY <1>2, <1>6 DEF TxState
<1>9. Working(tx.on) = tx.work
  BY <1>3 DEF Working
<1>10. Kept(Working(tx.on).msgs, tx'.work.msgs)
  BY <1>4, <1>7, <1>8, <1>9, MovesKept DEF Good
<1>11. Adds(tx.on, Working(tx.on), m, tx'.work)
  BY <1>5, <1>7, <1>8, <1>9 DEF Adds
<1>12. m.type = "DISPUTE_OPEN" => m \in issued \cup tx'.out
  BY <1>8 DEF Traced, m
<1>13. UNCHANGED <<deal, order, issued>> /\ net' \subseteq net
  BY DEF Reprocess
<1> QED BY <1>3, <1>8, <1>10, <1>11, <1>12, <1>13, DraftTraced

LEMMA CommitTraced ==
  ASSUME Inv, Traced, Commit
  PROVE  Traced'
<1>1. tx.on \in Node /\ tx \in TxState /\ order \in [Node -> Order]
  BY DEF Inv, TypeOK, TxState, Commit
<1>2. /\ order' = [order EXCEPT ![tx.on] = tx.work]
      /\ net' = net \cup tx.out /\ issued' = issued \cup tx.out
      /\ tx' = Idle /\ UNCHANGED deal
  BY DEF Commit
<1>3. \A n \in Node : order'[n] = Working(n) /\ Working(n)' = order'[n]
  BY <1>1, <1>2 DEF Working, Idle, Node
<1>4. \A n \in Node : Traces(n, Working(n), issued')
  BY <1>2, SentGrows DEF Traced, Working
<1>5. \A n \in Node : Traces(n, order[n], issued)'
  BY <1>2, <1>3, <1>4 DEF Traces, Foreign, Update
<1>6. Traces(tx.on, tx.work, issued \cup tx.out)' /\ tx'.todo = {}
  BY <1>2 DEF Traces, Idle, NoOrder, Foreign
<1>7. ~(Foreign("buyer", Working("buyer").msgs) /\ Foreign("vendor", Working("vendor").msgs))'
  BY <1>3 DEF Traced, Foreign, Node
<1> QED BY <1>2, <1>5, <1>6, <1>7 DEF Traced

LEMMA AbortTraced ==
  ASSUME DisputeInv, Traced, Abort
  PROVE  Traced'
<1>1. tx' = Idle /\ UNCHANGED <<deal, order, net, issued>>
  BY DEF Abort
<1>2. \A n \in Node : Working(n)' = order[n]
  BY <1>1 DEF Working, Idle, Node
<1>3. \A n \in Node : Foreign(n, order[n].msgs) => Foreign(n, Working(n).msgs)
  BY DEF DisputeInv, RecordsKept, Kept, Foreign
<1>4. ~(Foreign("buyer", Working("buyer").msgs) /\ Foreign("vendor", Working("vendor").msgs))'
  BY <1>2, <1>3 DEF Traced, Foreign, Node
<1>5. Traces(tx.on, tx.work, issued \cup tx.out)' /\ tx'.todo = {}
  BY <1>1 DEF Traces, Idle, NoOrder, Foreign
<1>6. \A n \in Node : Traces(n, order[n], issued)'
  BY <1>1 DEF Traced, Traces, Foreign, Update
<1> QED BY <1>1, <1>4, <1>5, <1>6 DEF Traced

LEMMA WalletTraced ==
  ASSUME Inv, DisputeInv, Traced, NEW node \in Node, NEW t \in chain, WalletTransaction(node, t)
  PROVE  Traced'
<1> DEFINE o == order[node]
           r == IF t.kind = "pay"
                THEN IncomingPayment(node, o, CHOOSE p \in t.from : TRUE)
                ELSE OutgoingPayment(o, t)
           m == Msg("ORDER_OPEN", "buyer", 1, 0, {})
<1>1. t \in Tx /\ Sound(o) /\ o.open /\ o \in Order
  BY DEF Inv, TypeOK, WalletTransaction, Unknown, Sound
<1>2. /\ order' = [order EXCEPT ![node] = r.o]
      /\ net' = net \cup r.send /\ issued' = issued \cup r.send
      /\ tx = Idle /\ UNCHANGED <<deal, tx>>
  BY DEF WalletTransaction, r, o
<1>3. Plain(o, r.o) /\ Good(o, r)
  <2>1. CASE t.kind = "pay"
    <3>1. PICK p \in Payments : t = PaymentTx(p) /\ p = CHOOSE q \in t.from : TRUE
      BY <1>1, <2>1, PaymentOnChain
    <3>2. r = IncomingPayment(node, o, p) /\ Plain(o, o)
      BY <2>1, <3>1 DEF Plain
    <3> QED BY <1>1, <3>2, IncomingPaymentPlain, IncomingPaymentGood
  <2>2. CASE t.kind # "pay"
    <3>1. Plain(o, r.o)
      BY <1>1, <2>2 DEF OutgoingPayment, PutTransaction, Done, Plain, Order
    <3>2. Good(o, r)
      BY <1>1, <2>2, TransactionGood, DoneGood DEF Moves, OutgoingPayment, PutTransaction
    <3> QED BY <3>1, <3>2
  <2> QED BY <2>1, <2>2
<1> HIDE DEF r
<1>4. m.type = "ORDER_OPEN"
  BY DEF Msg
<1> HIDE DEF m
<1>5. Adds(node, o, m, r.o) /\ Kept(o.msgs, r.o.msgs)
  BY <1>3, PlainAdds, MovesKept DEF Good
<1>6. \A n \in Node : Working(n) = order[n] /\ Working(n)' = order'[n]
  BY <1>2 DEF Working, Idle, Node
<1>7. /\ order'[node] = r.o
      /\ \A n \in Node : n # node => order'[n] = order[n]
  BY <1>2 DEF Inv, TypeOK
<1>8. Traces(node, o, issued')
  BY <1>2, SentGrows DEF Traced
<1>9. Traces(node, r.o, issued')
  <2> HIDE DEF o
  <2> QED BY <1>4, <1>5, <1>8, AddsTraces
<1>10. \A n \in Node : Traces(n, order'[n], issued')
  <2>1. \A n \in Node : n # node => Traces(n, order'[n], issued')
    BY <1>2, <1>7, SentGrows DEF Traced
  <2> QED BY <1>7, <1>9, <2>1
<1>11. \A n \in Node : Traces(n, order[n], issued)'
  BY <1>2, <1>10 DEF Traces, Foreign, Update
<1>12. ~(Foreign(node, r.o.msgs) /\ Foreign(Other(node), order[Other(node)].msgs))
  <2>1. Working(node) = o /\ Other(node) \in Node
    BY <1>6 DEF Other, Node
  <2>2. Adds(node, Working(node), m, r.o)
    BY <1>5, <2>1
  <2>3. Working(Other(node)) = order[Other(node)]
    BY <1>6, <2>1
  <2> QED BY <1>2, <2>2, <2>3, AddsApart
<1>13. ~(Foreign("buyer", Working("buyer").msgs) /\ Foreign("vendor", Working("vendor").msgs))'
  BY <1>6, <1>7, <1>12 DEF Foreign, Other, Node
<1>14. Traces(tx.on, tx.work, issued \cup tx.out)' /\ tx'.todo = {}
  BY <1>2 DEF Traces, Idle, NoOrder, Foreign
<1> QED BY <1>2, <1>11, <1>13, <1>14 DEF Traced

LEMMA SameTraced ==
  ASSUME Traced, UNCHANGED <<deal, order, tx, net, issued>>
  PROVE  Traced'
BY DEF Traced, Traces, Foreign, Working, Update

LEMMA NextTraced ==
  ASSUME Inv, DisputeInv, Traced, [Next]_vars
  PROVE  Traced'
<1>1. CASE UNCHANGED vars
  BY <1>1, SameTraced DEF vars
<1>2. CASE Purchase
  <2> DEFINE m == Msg("ORDER_OPEN", "buyer", 1, 0, {})
  <2>1. m \in Message /\ m.type = "ORDER_OPEN" /\ "buyer" \in Node
    BY MsgType DEF MessageType, Node
  <2>2. tx = Idle /\ Working("buyer") = NoOrder
    BY <1>2 DEF Purchase, Working, Idle
  <2>3. Enter("buyer", Working("buyer"), "buyer", m, {}, {m}, {})
    BY <1>2, <2>2 DEF Purchase
  <2>4. UNCHANGED <<deal, order, issued, net>> /\ tx.on # "buyer"
    BY <1>2, <2>2 DEF Purchase, Idle
  <2> HIDE DEF m
  <2> QED BY <2>1, <2>2, <2>3, <2>4, EnterTraced
<1>3. ASSUME NEW p \in Payments, Pay(p) PROVE Traced'
  BY <1>3, SameTraced DEF Pay
<1>4. ASSUME NEW node \in Node, NEW op \in Op, StartCall(node, op) PROVE Traced'
  BY <1>4, SameTraced DEF StartCall
<1>5. ASSUME NEW c \in calls, RunCall(c) PROVE Traced'
  <2>1. /\ c \in Call /\ c.node \in Node /\ IsFiniteSet(issued) /\ tx = Idle /\ tx.on # c.node
        /\ Working(c.node) = order[c.node]
    BY <1>5 DEF Inv, TypeOK, Call, RunCall, Working, Idle, Node
  <2>2. UNCHANGED <<deal, order, net, issued>>
    BY <1>5 DEF RunCall
  <2>3. ASSUME NEW m \in CallMessages(c), NEW next, NEW out, NEW spend, m \in out,
               Enter(c.node, order[c.node], c.node, m, next, out, spend)
        PROVE  Traced'
    <3>1. m \in Message
      BY <2>1, CallMessagesType
    <3>2. Enter(c.node, Working(c.node), c.node, m, next, out, spend)
      BY <2>1, <2>3
    <3> QED BY <2>1, <2>2, <2>3, <3>1, <3>2, EnterTraced
  <2>4. CASE UNCHANGED tx
    BY <2>2, <2>4, SameTraced
  <2>5. CASE \E m \in CallMessages(c) :
               Enter(c.node, order[c.node], c.node, m, {}, {m}, CallSpends(m))
    BY <2>3, <2>5
  <2>6. CASE \E m \in CallMessages(c), r \in RefundMessages(c.seen) :
               Enter(c.node, order[c.node], c.node, m, {r}, {m, r}, CallSpends(r))
    BY <2>3, <2>6
  <2> QED BY <1>5, <2>4, <2>5, <2>6 DEF RunCall
<1>6. ASSUME NEW m \in net, Deliver(m) PROVE Traced'
  <2> DEFINE node == Other(m.by)
             peer == m.by
  <2>1. m \in Message /\ m \in issued /\ node \in Node /\ peer \in Node
    BY DEF Traced, Inv, TypeOK, Message, Other, Node
  <2>2. tx = Idle /\ tx.on # node /\ Working(node) = order[node]
    BY <1>6, <2>1 DEF Deliver, Working, Idle, Node
  <2>3. Enter(node, Working(node), peer, m, {}, {}, {})
    BY <1>6, <2>2 DEF Deliver
  <2>4. UNCHANGED <<deal, order, issued>> /\ net' \subseteq net
    BY <1>6 DEF Deliver
  <2> HIDE DEF node, peer
  <2> QED BY <2>1, <2>2, <2>3, <2>4, EnterTraced
<1>7. ASSUME NEW node \in Node, NEW t \in chain, WalletTransaction(node, t) PROVE Traced'
  BY <1>7, WalletTraced
<1>8. CASE Reprocess
  BY <1>8, ReprocessTraced
<1>9. CASE ProcessNext
  <2>1. PICK m \in tx.next : Enter(tx.on, tx.work, tx.peer, m, tx.next \ {m}, tx.out, tx.spend)
    BY <1>9 DEF ProcessNext
  <2> DEFINE node == tx.on
             peer == tx.peer
             next == tx.next \ {m}
             out == tx.out
             spend == tx.spend
  <2>2. m \in Message /\ node \in Node /\ peer \in Node \cup {"none"}
    BY <1>9 DEF Inv, TypeOK, TxState, ProcessNext
  <2>3. Working(node) = tx.work
    BY DEF Working
  <2>4. Enter(node, Working(node), peer, m, next, out, spend)
    BY <2>1, <2>3
  <2>5. m.type # "DISPUTE_OPEN"
    BY DEF DisputeInv, Disputes
  <2>6. UNCHANGED <<deal, order, issued, net>> /\ tx.on = node /\ tx.out \subseteq out
    BY <1>9 DEF ProcessNext
  <2> HIDE DEF node, peer, next, out, spend
  <2> QED BY <2>2, <2>4, <2>5, <2>6, EnterTraced
<1>10. CASE Commit
  BY <1>10, CommitTraced
<1>11. CASE Abort
  BY <1>11, AbortTraced
<1> QED BY <1>1, <1>2, <1>3, <1>4, <1>5, <1>6, <1>7, <1>8, <1>9, <1>10, <1>11 DEF Next

-----------------------------------------------------------------------------
(* What the moderator makes of its mail *)

Updates == {m \in order["buyer"].msgs \cup order["vendor"].msgs : m.type = "DISPUTE_UPDATE"}

\* A case that is open holds its opener's contract, one that is not holds at most
\* a parked one; the others come from updates; and what is marked was taken.
CaseTraced ==
  /\ \/ case.openedBy = "none" /\ \A n \in Node : case.contract[n] = "none"
     \/ case.openedBy # "none" /\ case.parked = "none" /\ case.contract[case.openedBy] = case.openedBy
  /\ case.parked # "none" => \E u \in Updates : u.by = case.parked
  /\ \A n \in Node : n # case.openedBy /\ case.contract[n] # "none"
                       => \E u \in Updates : u.by = case.contract[n]
  /\ \A m \in handled : m.type = "DISPUTE_OPEN" => Refuses \/ case.openedBy # "none"
  /\ \A m \in handled : m.type = "DISPUTE_UPDATE" =>
       IF case.openedBy = "none" THEN case.parked # "none"
       ELSE case.contract[Other(case.openedBy)] # "none"

LEMMA UpdatesKept ==
  ASSUME Inv, DisputeInv, [Next]_vars
  PROVE  Updates \subseteq Updates' /\ deal' = deal
<1>1. \A n \in Node : Kept(order[n].msgs, order'[n].msgs)
  BY NextInv, RecordsKeptStep DEF DisputeInv
<1>2. deal' = deal
  BY DEF Next, vars, Purchase, Pay, StartCall, RunCall, Deliver, WalletTransaction,
         Reprocess, ProcessNext, Commit, Abort
<1> QED BY <1>1, <1>2 DEF Updates, Kept, Node

\* Only one party ever answers with an update.
LEMMA OneUpdater ==
  ASSUME DisputeInv, Traced, NEW u \in Updates, NEW v \in Updates
  PROVE  u.by = v.by
<1>1. \A n \in Node : Foreign(n, order[n].msgs) => Foreign(n, Working(n).msgs)
  BY DEF DisputeInv, RecordsKept, Kept, Foreign
<1>2. \A n \in Node : \A x \in order[n].msgs :
        x.type = "DISPUTE_UPDATE" => x.by = n /\ Foreign(n, order[n].msgs)
  <2>1. \A n : Update(n).by = n
    BY DEF Update, Msg
  <2> QED BY <2>1 DEF Traced, Traces
<1>3. "buyer" \in Node /\ "vendor" \in Node
  BY DEF Node
<1>4. ~(Foreign("buyer", order["buyer"].msgs) /\ Foreign("vendor", order["vendor"].msgs))
  BY <1>1, <1>3 DEF Traced
<1> QED BY <1>2, <1>3, <1>4 DEF Updates

\* The evidence that the moderator holds stays, and so does the opener.
KeepsEvidence ==
  /\ Evidence(case) \subseteq Evidence(case')
  /\ case.openedBy \in {"none", case'.openedBy}

LEMMA HandleTraced ==
  ASSUME CaseInv, Traced, CaseTraced, NEW m \in Mail, HandleDispute(m), UNCHANGED vars
  PROVE  CaseTraced' /\ KeepsEvidence
<1> DEFINE q == Other(m.by)
<1>1. m \in Message /\ m.by \in Node /\ q \in Node /\ q # m.by /\ Node = {m.by, q} /\ m.by # "none"
  <2>1. m \in Message
    BY DEF CaseInv, Inv, TypeOK, Mail, Order, Node
  <2> QED BY <2>1 DEF Message, Other, Node
<1>2. case \in Case /\ case.contract \in [Node -> Copy] /\ handled \subseteq Mail
  BY DEF CaseInv, CaseTypeOK, Case
<1>3. Updates' = Updates /\ (Refuses' <=> Refuses) /\ handled' \subseteq handled \cup {m}
  BY DEF vars, Updates, Refuses, HandleDispute
<1>4. /\ case.openedBy \in Node \cup {"none"} /\ "none" \notin Node
      /\ \A n \in Node : Other(n) \in Node /\ Other(n) # n /\ Node = {n, Other(n)}
  BY <1>2 DEF Case, Copy, Node, Other
<1>5. CASE m.type = "DISPUTE_OPEN" /\ case' = case
  <2>1. Refuses \/ case.openedBy # "none"
    <3>1. \/ Refuses \/ case.openedBy # "none"
          \/ \E flaws \in Flaws(m) : case' = [PutDisputeOpen(case, m) EXCEPT !.flawed = flaws]
      BY <1>5 DEF HandleDispute, ReceiveOpen
    <3>2. \A flaws : [PutDisputeOpen(case, m) EXCEPT !.flawed = flaws].openedBy = m.by
      BY <1>2 DEF PutDisputeOpen, Case
    <3> QED BY <1>1, <1>5, <3>1, <3>2
  <2>2. CaseTraced'
    BY <1>3, <1>5, <2>1 DEF CaseTraced
  <2>3. KeepsEvidence
    BY <1>5 DEF KeepsEvidence
  <2> QED BY <2>2, <2>3
<1>6. CASE m.type = "DISPUTE_OPEN" /\ case' # case
  <2>1. case.openedBy = "none" /\ \E flaws \in Flaws(m) :
          case' = [PutDisputeOpen(case, m) EXCEPT !.flawed = flaws]
    BY <1>6 DEF HandleDispute, ReceiveOpen
  <2>2. \A n \in Node : case.contract[n] = "none"
    BY <1>1, <2>1 DEF CaseTraced
  <2>3. /\ case'.openedBy = m.by /\ case'.parked = "none"
        /\ case'.contract = [node \in Node |-> IF node = m.by THEN m.by
                                              ELSE IF case.parked = "none" THEN case.contract[node]
                                              ELSE case.parked]
    BY <1>2, <2>1 DEF PutDisputeOpen, Case
  <2>4. case'.contract[m.by] = m.by /\ case'.contract[q] = case.parked
    BY <1>1, <2>2, <2>3
  <2>5. KeepsEvidence
    BY <1>1, <2>1, <2>2, <2>3, <2>4 DEF KeepsEvidence, Evidence
  <2>6. \A x \in handled : x.type = "DISPUTE_UPDATE" => case.parked # "none"
    BY <2>1 DEF CaseTraced
  <2>7. \A x \in handled' : x.type = "DISPUTE_UPDATE" => case'.contract[q] # "none"
    BY <1>3, <1>6, <2>4, <2>6
  <2>8. \A n \in Node : n # m.by /\ case'.contract[n] # "none"
                          => \E u \in Updates : u.by = case'.contract[n]
    BY <1>1, <2>4 DEF CaseTraced
  <2>9. CaseTraced'
    BY <1>1, <1>3, <2>3, <2>4, <2>7, <2>8 DEF CaseTraced
  <2> QED BY <2>5, <2>9
<1>7. CASE m.type # "DISPUTE_OPEN"
  <2>1. case' = PutDisputeUpdate(case, m) /\ m.type = "DISPUTE_UPDATE"
    BY <1>7 DEF HandleDispute, Mail
  <2>2. m \in Updates
    BY <1>7 DEF Mail, Updates
  <2>3. CASE case.openedBy = "none"
    <3>1. /\ case'.openedBy = "none" /\ case'.parked = m.by
          /\ case'.contract = case.contract
      BY <1>2, <2>1, <2>3 DEF PutDisputeUpdate, Case
    <3>2. case.parked \in {"none", m.by}
      BY <2>2, OneUpdater DEF CaseInv, CaseTraced
    <3>3. KeepsEvidence
      BY <2>3, <3>1, <3>2 DEF KeepsEvidence, Evidence
    <3>4. \A n \in Node : case.contract[n] = "none"
      BY <1>1, <2>3 DEF CaseTraced
    <3>5. \A x \in handled' : x.type = "DISPUTE_OPEN" => Refuses
      BY <1>3, <1>7, <2>3 DEF CaseTraced
    <3>6. CaseTraced'
      BY <1>1, <1>3, <2>2, <3>1, <3>4, <3>5 DEF CaseTraced
    <3> QED BY <3>3, <3>6
  <2>4. CASE case.openedBy # "none" /\ case.contract[Other(case.openedBy)] # "none"
    <3>1. case' = case
      BY <2>1, <2>4 DEF PutDisputeUpdate
    <3>2. CaseTraced'
      BY <1>3, <1>7, <2>4, <3>1 DEF CaseTraced
    <3> QED BY <3>1, <3>2 DEF KeepsEvidence
  <2>5. CASE case.openedBy # "none" /\ case.contract[Other(case.openedBy)] = "none"
    <3> DEFINE p == case.openedBy
               r == Other(p)
    <3>1. p \in Node /\ r \in Node /\ r # p /\ Node = {p, r}
      BY <1>4, <2>5
    <3>2. case' = [case EXCEPT !.contract[r] = m.by]
      BY <2>1, <2>5 DEF PutDisputeUpdate
    <3>3. /\ case'.openedBy = p /\ case'.parked = case.parked
          /\ case'.contract = [case.contract EXCEPT ![r] = m.by]
      BY <1>2, <3>2 DEF Case
    <3>4. case'.contract[r] = m.by /\ case'.contract[p] = case.contract[p]
      BY <1>2, <3>1, <3>3
    <3>5. KeepsEvidence
      BY <2>5, <3>1, <3>3, <3>4 DEF KeepsEvidence, Evidence
    <3>6. case.parked = "none" /\ case.contract[p] = p
      BY <2>5 DEF CaseTraced
    <3>7. \A n \in Node : n # p /\ case'.contract[n] # "none"
                            => \E u \in Updates : u.by = case'.contract[n]
      BY <2>2, <3>1, <3>4
    <3>8. CaseTraced'
      BY <1>1, <1>3, <2>5, <3>3, <3>4, <3>6, <3>7 DEF CaseTraced
    <3> QED BY <3>5, <3>8
  <2> QED BY <2>3, <2>4, <2>5
<1> QED BY <1>5, <1>6, <1>7

EvidenceInv == CaseInv /\ Traced /\ CaseTraced

LEMMA InitEvidence == DInit => EvidenceInv
<1> SUFFICES ASSUME DInit PROVE EvidenceInv OBVIOUS
<1>1. CaseInv
  BY InitCase
<1>2. \A n, sent : Traces(n, NoOrder, sent)
  BY DEF Traces, NoOrder, Foreign
<1>3. Traced
  BY <1>2 DEF DInit, Init, Traced, Idle, Working, Node, Foreign, NoOrder
<1>4. CaseTraced
  BY DEF DInit, CaseTraced, NoCase
<1> QED BY <1>1, <1>3, <1>4 DEF EvidenceInv

LEMMA NextEvidence ==
  ASSUME EvidenceInv, [DNext]_<<vars, caseVars>>
  PROVE  EvidenceInv' /\ (case' = case \/ KeepsEvidence)
<1>1. CASE [Next]_vars /\ UNCHANGED caseVars
  <2>1. Inv' /\ DisputeInv' /\ Mail \subseteq Mail' /\ issued \subseteq issued'
    BY <1>1, NextInv, NextDispute, MailKept DEF CaseInv, EvidenceInv
  <2>2. CaseInv'
    BY <1>1, <2>1 DEF CaseInv, CaseTypeOK, caseVars, Disputes, EvidenceInv
  <2>3. Traced'
    BY <1>1, NextTraced DEF EvidenceInv, CaseInv
  <2>4. Updates \subseteq Updates' /\ deal' = deal
    BY <1>1, UpdatesKept DEF EvidenceInv, CaseInv
  <2>5. CaseTraced'
    BY <1>1, <2>4 DEF EvidenceInv, CaseTraced, caseVars, Refuses, Other
  <2> QED BY <1>1, <2>2, <2>3, <2>5 DEF EvidenceInv, caseVars
<1>2. CASE \E m \in Mail : HandleDispute(m) /\ UNCHANGED vars
  <2>1. CaseInv' /\ CaseTraced' /\ KeepsEvidence
    BY <1>2, HandleCase, HandleTraced DEF EvidenceInv
  <2>2. Traced'
    BY <1>2, SameTraced DEF EvidenceInv, vars
  <2> QED BY <2>1, <2>2 DEF EvidenceInv
<1> QED BY <1>1, <1>2 DEF DNext

LEMMA EvidenceInvariance == DSpec => []EvidenceInv
<1>1. EvidenceInv /\ [DNext]_<<vars, caseVars>> => EvidenceInv'
  BY NextEvidence
<1> QED BY InitEvidence, <1>1, PTL DEF DSpec

\* handleDisputeMessage (core/disputes.go:124) never loses a contract that the
\* moderator has accepted, parked or not, and a case never changes hands, even when
\* both parties send their disputes at the same time: a second update could only
\* push the parked one out if both parties sent updates, and OneUpdater excludes it.
THEOREM EvidenceIsKept == DSpec => EvidenceKept
<1>1. EvidenceInv /\ [DNext]_<<vars, caseVars>>
        => [/\ Evidence(case) \subseteq Evidence(case')
            /\ case.openedBy \in {"none", case'.openedBy}]_case
  BY NextEvidence DEF KeepsEvidence
<1> QED BY EvidenceInvariance, <1>1, PTL DEF DSpec, EvidenceKept

\* PutDisputeOpen and PutDisputeUpdate (models/cases.go:44): when one party has
\* disputed, both records hold the dispute and the moderator has handled all its
\* mail, in whatever order and however often, it holds each party's own contract.
THEOREM ModeratorHearsBoth == DSpec => []ModeratorHasBothContracts
<1>1. EvidenceInv => ModeratorHasBothContracts
  <2> SUFFICES ASSUME EvidenceInv, Mail \subseteq handled, Supported, Cardinality(Disputers) = 1,
                      \A node \in Node : Has(order[node], "DISPUTE_OPEN")
               PROVE  case.contract = [node \in Node |-> node]
    BY DEF ModeratorHasBothContracts
  <2>1. PICK p : Disputers = {p}
    <3>1. issued \subseteq Message /\ IsFiniteSet(Node)
      <4>1. Node = {"buyer"} \cup {"vendor"}
        BY DEF Node
      <4> QED BY <4>1, FS_Singleton, FS_Union DEF EvidenceInv, CaseInv, Inv, TypeOK
    <3>2. Disputers \subseteq Node
      BY <3>1 DEF Disputers, Message
    <3> QED BY <3>1, <3>2, FS_Subset, FS_Singleton
  <2>2. p \in Node
    BY <2>1 DEF Disputers, EvidenceInv, CaseInv, Inv, TypeOK, Message
  <2> DEFINE q == Other(p)
  <2>3. q \in Node /\ q # p /\ Node = {p, q} /\ "none" \notin Node
    BY <2>2 DEF Other, Node
  <2>4. \A x \in issued : x.type = "DISPUTE_OPEN" => x.by = p
    BY <2>1 DEF Disputers
  <2>5. \A n \in Node : Traces(n, order[n], issued)
    BY DEF EvidenceInv, Traced
  <2>6. \A u \in Updates : u.by = q
    <3>1. \A n \in Node : \A u \in order[n].msgs :
            u.type = "DISPUTE_UPDATE" => u.by = n /\ Foreign(n, order[n].msgs)
      <4>1. \A n : Update(n).by = n
        BY DEF Update, Msg
      <4> QED BY <2>5, <4>1 DEF Traces
    <3>2. ~Foreign(p, order[p].msgs)
      BY <2>2, <2>4, <2>5 DEF Foreign, Traces
    <3> QED BY <2>3, <3>1, <3>2 DEF Updates, Node
  <2>7. PICK x \in order[q].msgs : x.type = "DISPUTE_OPEN"
    BY <2>3 DEF Has
  <2>8. x \in issued /\ x.by = p /\ deal.method = "MODERATED"
    BY <2>3, <2>4, <2>5, <2>7 DEF Traces
  <2>9. Update(q) \in order[q].msgs /\ Update(q).type = "DISPUTE_UPDATE"
    BY <2>3, <2>5, <2>7, <2>8 DEF Traces, Foreign, Update, Msg
  <2>10. x \in handled /\ Update(q) \in handled
    BY <2>3, <2>7, <2>8, <2>9 DEF Mail, Node
  <2>11. case.openedBy # "none"
    BY <2>7, <2>8, <2>10 DEF EvidenceInv, CaseTraced, Refuses
  <2>12. case.openedBy = p
    BY <2>4, <2>11 DEF EvidenceInv, CaseInv, Disputes
  <2>13. case.contract[p] = p
    BY <2>11, <2>12 DEF EvidenceInv, CaseTraced
  <2>14. case.contract[q] # "none"
    BY <2>9, <2>10, <2>11, <2>12 DEF EvidenceInv, CaseTraced
  <2>15. case.contract[q] = q
    BY <2>3, <2>6, <2>12, <2>14 DEF EvidenceInv, CaseTraced
  <2>16. case.contract \in [Node -> Copy]
    BY DEF EvidenceInv, CaseInv, CaseTypeOK, Case
  <2> QED BY <2>3, <2>13, <2>15, <2>16
<1> QED BY EvidenceInvariance, <1>1, PTL
=============================================================================
