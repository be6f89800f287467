------------------------------- MODULE Orders -------------------------------
(***************************************************************************)
(* One order between a buyer and a vendor: the API calls their users make, *)
(* the messages the two nodes exchange, the order processor of each node,  *)
(* and the wallet transactions around the payment address.                 *)
(*                                                                         *)
(* An API call reads the order in one database transaction (StartCall) and *)
(* acts on what it read in a second one (RunCall): messages may be         *)
(* processed in between.  ProcessMessage runs inside a database            *)
(* transaction that holds the node's database lock; it is modelled step by *)
(* step, the triggering message first and then each parked message, on a   *)
(* working copy that Commit makes visible.                                 *)
(***************************************************************************)
EXTENDS OrderMessages

CONSTANTS Methods,          \* payment methods the order may have
          Validity,         \* whether the order passes the vendor's validation
          Ops,              \* API calls the users make
          MaxCalls,         \* bound: API calls in flight at a node
          MaxIssued,        \* bound: messages of one type a node originates
          MaxRedeliveries   \* bound: deliveries repeated after a restart

ASSUME BoundsAssumption ==
  /\ Methods \subseteq PaymentMethod
  /\ Validity \subseteq BOOLEAN
  /\ MaxCalls \in Nat /\ MaxIssued \in Nat /\ MaxRedeliveries \in Nat

VARIABLES
  deal,          \* the terms of the ORDER_OPEN: payment method and validity
  order,         \* the order record in each node's database
  tx,            \* the database transaction in progress, if any
  calls,         \* API calls between their read and their update
  net,           \* messages on the way to the other party
  redeliveries,  \* number of repeated deliveries so far
  issued,        \* every message ever handed to the messenger
  chain          \* the wallet transactions broadcast

vars == <<deal, order, tx, calls, net, redeliveries, issued, chain>>

Other(node) == IF node = "buyer" THEN "vendor" ELSE "buyer"

Op == {"confirm", "cancel", "reject", "refund", "fulfill", "complete", "dispute"}

OpsOf(node) == IF node = "buyer" THEN {"cancel", "complete", "dispute"}
               ELSE {"confirm", "reject", "refund", "fulfill", "dispute"}

OpType == [confirm |-> "ORDER_CONFIRMATION", cancel |-> "ORDER_CANCEL",
           reject |-> "ORDER_REJECT", refund |-> "REFUND",
           fulfill |-> "ORDER_FULFILLMENT", complete |-> "ORDER_COMPLETE",
           dispute |-> "DISPUTE_OPEN"]

Msg(type, node, n, k, from) ==
  [type |-> type, by |-> node, n |-> n, k |-> k, from |-> from]

Idle == [on |-> "none", work |-> NoOrder, peer |-> "none", trigger |-> {},
         todo |-> {}, next |-> {}, out |-> {}, spend |-> {}]

\* createOrder and PurchaseListing settle the payment method.
Deals == [method: Methods, valid: Validity]

\* validateOrderOpen. The buyer stores its own order whatever comes of it.
Validates(node) == node = "vendor" => deal.valid

Init ==
  /\ deal \in Deals
  /\ order = [node \in Node |-> NoOrder]
  /\ tx = Idle
  /\ calls = {}
  /\ net = {}
  /\ redeliveries = 0
  /\ issued = {}
  /\ chain = {}

-----------------------------------------------------------------------------
(* The message handlers                                                    *)
(*                                                                         *)
(* Each returns the order it leaves, whether it succeeded, the messages it *)
(* sends to the other party and the wallet transactions it broadcasts.     *)

Done(o) == [o |-> o, ok |-> TRUE, send |-> {}, spend |-> {}]
Fail(o) == [Done(o) EXCEPT !.ok = FALSE]

\* isDuplicate and the checks every handler of a single message starts with:
\* the same message again is ignored and a different one is an error, so is a
\* message that a stored one of the types in "after" excludes, and a message
\* that comes before the ORDER_OPEN is parked.
Receive(o, m, after, handle) ==
  IF m.type \notin ListType /\ m \in o.msgs THEN Done(o)
  ELSE IF \/ m.type \notin ListType /\ Has(o, m.type)
          \/ \E type \in after : Has(o, type) THEN Fail(o)
  ELSE IF ~o.open THEN Done(Park(o, m))
  ELSE handle

PutTransaction(o, t) == [o EXCEPT !.txs = @ \cup {t}]

\* Mutant: the message itself is recorded in place of its transaction.
RecordSpendOfMessage(o, m, method) ==
  IF deal.method = method /\ TxOf(m) \in chain THEN PutTransaction(o, m) ELSE o

\* A handler records the transaction a message names when its wallet knows it.
RecordSpend(o, m, method) ==
  IF deal.method = method /\ TxOf(m) \in chain THEN PutTransaction(o, TxOf(m)) ELSE o

\* What sendRatingSignatures sends.
RatingsFor(node, p) == Msg("RATING_SIGNATURES", node, 1, 0, {p})

\* processIncomingPayment: the buyer announces the payment, the vendor sends
\* the rating signatures as soon as the order is funded, and again with every
\* later payment.
IncomingPayment(node, o, p) ==
  LET paid == PutTransaction(o, PaymentTx(p))
      m == IF node = "buyer" THEN Msg("PAYMENT_SENT", node, 1, 0, {p}) ELSE RatingsFor(node, p)
  IN  IF PaymentTx(p) \in o.txs THEN Done(o)
      ELSE IF node = "vendor" /\ ~IsFunded(paid) THEN Done(paid)
      ELSE [Done(Put(paid, m)) EXCEPT !.send = {m}]

\* The vendor answers an order that does not validate with a rejection, and
\* both are stored.
OrderOpen(node, o, m) ==
  LET reject == Msg("ORDER_REJECT", node, 0, 0, {})
  IN  IF m \in o.msgs THEN Done(o)
      ELSE IF Has(o, m.type) THEN Fail(o)
      ELSE IF ~Validates(node)
      THEN [Done(Put(Put(o, reject), m)) EXCEPT !.send = {reject}]
      ELSE Done(Put(o, m))

OrderReject(o, m) ==
  Receive(o, m, {"ORDER_CONFIRMATION"}, Done(Put(o, m)))

OrderCancel(o, m) ==
  Receive(o, m, {}, Done(Put(RecordSpend(o, m, "CANCELABLE"), m)))

OrderConfirmation(o, m) ==
  Receive(o, m, {"ORDER_REJECT"}, Done(Put(RecordSpend(o, m, "CANCELABLE"), m)))

RatingSignatures(o, m) == Receive(o, m, {}, Done(Put(o, m)))

\* Mutant: a fulfillment does not wait for the confirmation.
OrderFulfillmentUnordered(o, m) ==
  Receive(o, m, {"ORDER_REJECT"},
    IF IsRepeat(deal.method, o, m) THEN Fail(o) ELSE Done(Put(o, m)))

OrderFulfillment(o, m) ==
  Receive(o, m, {"ORDER_REJECT"},
    IF ~Has(o, "ORDER_CONFIRMATION") THEN Done(Park(o, m))
    ELSE IF IsRepeat(deal.method, o, m) THEN Fail(o)
    ELSE Done(Put(o, m)))

\* A completed moderated order pays the vendor, unless a dispute is open. The
\* vendor's half of the signatures comes with the first fulfillment it stored:
\* the release is valid only for the outputs and the address of that one.
OrderComplete(node, o, m) ==
  LET release == /\ node = "vendor"
                 /\ deal.method = "MODERATED"
                 /\ ~Has(o, "DISPUTE_OPEN")
      signed == \E f \in o.first : f.from = m.from /\ f.k = m.k
  IN  Receive(o, m, {"ORDER_CANCEL"},
        IF release /\ o.first = {} THEN Fail(o)
        ELSE [Done(Put(o, m)) EXCEPT
                !.spend = IF release /\ signed THEN {TxOf(m)} ELSE {}])

\* Mutant: a refunded order cannot be disputed.
DisputeOpenUnlessRefunded(node, o, m) ==
  LET update == Msg("DISPUTE_UPDATE", node, 1, 0, {})
  IN  Receive(o, m, {"ORDER_COMPLETE", "ORDER_REJECT", "ORDER_CANCEL", "REFUND"},
        IF deal.method # "MODERATED" THEN Fail(o)
        ELSE IF m.by = node THEN Done(Put(o, m))
        ELSE IF ~CanMarshal(o) THEN Fail(o)
        ELSE Done(Put(Put(o, update), m)))

\* The other party's dispute is answered with a DISPUTE_UPDATE to the
\* moderator, which carries the whole contract.
DisputeOpen(node, o, m) ==
  LET update == Msg("DISPUTE_UPDATE", node, 1, 0, {})
  IN  Receive(o, m, {"ORDER_COMPLETE", "ORDER_REJECT", "ORDER_CANCEL"},
        IF deal.method # "MODERATED" THEN Fail(o)
        ELSE IF m.by = node THEN Done(Put(o, m))
        ELSE IF ~CanMarshal(o) THEN Fail(o)
        ELSE Done(Put(Put(o, update), m)))

\* Mutant: a refund is refused once the order is rejected.
RefundUnlessRejected(node, o, m) ==
  Receive(o, m, {"ORDER_CANCEL", "ORDER_REJECT"},
    IF IsRepeat(deal.method, o, m) THEN Done(o)
    ELSE [Done(RecordSpend(Put(o, m), m, "DIRECT")) EXCEPT
            !.spend = IF node = "buyer" /\ deal.method = "MODERATED"
                      THEN {TxOf(m)} ELSE {}])

\* The buyer's node completes a moderated refund with its own signature and
\* broadcasts it.
Refund(node, o, m) ==
  Receive(o, m, {"ORDER_CANCEL"},
    IF IsRepeat(deal.method, o, m) THEN Done(o)
    ELSE [Done(RecordSpend(Put(o, m), m, "DIRECT")) EXCEPT
            !.spend = IF node = "buyer" /\ deal.method = "MODERATED"
                      THEN {TxOf(m)} ELSE {}])

PaymentSent(node, o, m) ==
  LET p == CHOOSE q \in m.from : TRUE
  IN  Receive(o, m, {},
        IF IsRepeat(deal.method, o, m) THEN Done(o)
        ELSE IF PaymentTx(p) \notin chain THEN Done(Put(o, m))
        ELSE IncomingPayment(node, Put(o, m), p))

\* processMessage: the signature is checked against the peer that triggered
\* the processing, then the message goes to its handler.
Process(node, o, peer, m) ==
  IF m.by # peer THEN Fail(o) ELSE
  CASE m.type = "ORDER_OPEN" -> OrderOpen(node, o, m)
    [] m.type = "ORDER_REJECT" -> OrderReject(o, m)
    [] m.type = "ORDER_CANCEL" -> OrderCancel(o, m)
    [] m.type = "ORDER_CONFIRMATION" -> OrderConfirmation(o, m)
    [] m.type = "RATING_SIGNATURES" -> RatingSignatures(o, m)
    [] m.type = "ORDER_FULFILLMENT" -> OrderFulfillment(o, m)
    [] m.type = "ORDER_COMPLETE" -> OrderComplete(node, o, m)
    [] m.type = "DISPUTE_OPEN" -> DisputeOpen(node, o, m)
    [] m.type = "REFUND" -> Refund(node, o, m)
    [] m.type = "PAYMENT_SENT" -> PaymentSent(node, o, m)
    [] OTHER -> Fail(o)

-----------------------------------------------------------------------------
(* A database transaction around ProcessMessage *)

\* The wallets accept a transaction whose inputs exist and are not spent; the
\* wallet of a direct sale pays refunds from coins of its own.
Broadcast(spend) ==
  chain \cup {t \in spend :
                /\ t.from \cap Spends(chain) = {}
                /\ t.from # {} \/ deal.method = "DIRECT"}

\* ProcessMessage up to its loop over the parked messages. An order that does
\* not exist yet only parks the message. A message that fails is logged and
\* dropped: the branch that saves it runs only when recording it fails.
Enter(node, o, peer, m, next, out, spend) ==
  LET r == IF o = NoOrder /\ m.type # "ORDER_OPEN"
           THEN Done(Park(o, m)) ELSE Process(node, o, peer, m)
  IN  /\ tx' = [on |-> node, work |-> r.o, peer |-> peer, trigger |-> {m},
                todo |-> {c \in r.o.parked : c[1] # m}, next |-> next,
                out |-> out \cup r.send, spend |-> spend]
      /\ chain' = Broadcast(r.spend)

\* The loop reads the parked messages by type number, as a list made before
\* it starts. It checks their signatures against the peer of the triggering
\* message, and it is the triggering message that it records when one fails.
Reprocess ==
  /\ \E c \in tx.todo :
       LET r == Process(tx.on, tx.work, tx.peer, c[1])
       IN  /\ \A d \in tx.todo : Rank(c[1].type) <= Rank(d[1].type)
           /\ tx' = [tx EXCEPT
                !.work = IF r.ok THEN r.o
                         ELSE PutErrors(r.o, tx.trigger),
                !.todo = @ \ {c},
                !.out = @ \cup r.send]
           /\ chain' = Broadcast(r.spend)
  /\ UNCHANGED <<deal, order, calls, net, redeliveries, issued>>

\* A rejection that refunds processes two messages in one transaction.
ProcessNext ==
  /\ tx.on # "none" /\ tx.todo = {}
  /\ \E m \in tx.next :
       Enter(tx.on, tx.work, tx.peer, m, tx.next \ {m}, tx.out, tx.spend)
  /\ UNCHANGED <<deal, order, calls, net, redeliveries, issued>>

\* The wallet of a call may refuse a transaction whose inputs are spent by now;
\* the call then returns an error and the update is rolled back.
Abort ==
  /\ tx.on # "none" /\ tx.todo = {} /\ tx.next = {}
  /\ ~(tx.spend \subseteq Broadcast(tx.spend))
  /\ tx' = Idle
  /\ UNCHANGED <<deal, order, calls, net, redeliveries, issued, chain>>

\* The order is saved, the messages are on their way and the call's own wallet
\* transaction is broadcast.
Commit ==
  /\ tx.on # "none" /\ tx.todo = {} /\ tx.next = {}
  /\ order' = [order EXCEPT ![tx.on] = tx.work]
  /\ net' = net \cup tx.out
  /\ issued' = issued \cup tx.out
  /\ chain' = Broadcast(tx.spend)
  /\ tx' = Idle
  /\ UNCHANGED <<deal, calls, redeliveries>>

\* handleOrderMessage. The messenger repeats a message until it is acknowledged
\* and the receiver skips the IDs it has marked as received; a restart between
\* the update and the mark makes it process the message again.
Deliver(m) ==
  /\ tx = Idle
  /\ m \in net
  /\ Enter(Other(m.by), order[Other(m.by)], m.by, m, {}, {}, {})
  /\ \/ /\ net' = net \ {m}
        /\ UNCHANGED redeliveries
     \/ /\ redeliveries < MaxRedeliveries
        /\ redeliveries' = redeliveries + 1
        /\ UNCHANGED net
  /\ UNCHANGED <<deal, order, calls, issued>>

-----------------------------------------------------------------------------
(* Payments *)

\* The buyer pays into the address of the order it has placed.
Pay(p) ==
  /\ order["buyer"].open
  /\ PaymentTx(p) \notin chain
  /\ chain' = chain \cup {PaymentTx(p)}
  /\ UNCHANGED <<deal, order, tx, calls, net, redeliveries, issued>>

\* The transactions the wallet announces, or checkForMorePayments finds, for an
\* order that does not know them.
Unknown(node) ==
  IF order[node].open THEN chain \ order[node].txs ELSE {}

OutgoingPayment(o, t) == Done(PutTransaction(o, t))

WalletTransaction(node, t) ==
  LET r == IF t.kind = "pay"
           THEN IncomingPayment(node, order[node], CHOOSE p \in t.from : TRUE)
           ELSE OutgoingPayment(order[node], t)
  IN  /\ tx = Idle
      /\ t \in Unknown(node)
      /\ order' = [order EXCEPT ![node] = r.o]
      /\ net' = net \cup r.send
      /\ issued' = issued \cup r.send
      /\ UNCHANGED <<deal, tx, calls, redeliveries, chain>>

-----------------------------------------------------------------------------
(* API calls *)

\* PurchaseListing: the buyer processes its own ORDER_OPEN and sends it.
Purchase ==
  LET m == Msg("ORDER_OPEN", "buyer", 1, 0, {})
  IN  /\ tx = Idle
      /\ order["buyer"] = NoOrder
      /\ Enter("buyer", NoOrder, "buyer", m, {}, {m}, {})
      /\ UNCHANGED <<deal, order, calls, net, redeliveries, issued>>

\* The types that CanReject, CanConfirm and CanCancel look for.
Progress == {"ORDER_REJECT", "ORDER_CANCEL", "ORDER_CONFIRMATION",
             "ORDER_FULFILLMENT", "ORDER_COMPLETE", "DISPUTE_OPEN",
             "DISPUTE_UPDATE", "REFUND"}

NoProgress(o) == \A type \in Progress : ~Has(o, type)

CanReject(o) == NoProgress(o)

CanConfirm(o) == NoProgress(o)

CanCancel(o) == NoProgress(o)

CanRefund(o) ==
  deal.method # "CANCELABLE" /\ ~Has(o, "ORDER_COMPLETE") /\ ~Has(o, "ORDER_CANCEL")

CanFulfill(o) ==
  /\ Has(o, "ORDER_CONFIRMATION") /\ IsFunded(o) /\ ~IsFulfilled(o)
  /\ ~Has(o, "ORDER_COMPLETE") /\ ~Has(o, "ORDER_CANCEL")

\* No DISPUTE_CLOSE is ever stored.
UnderActiveDispute(o) == Has(o, "DISPUTE_OPEN")

CanComplete(o) ==
  IsFulfilled(o) /\ ~Has(o, "ORDER_COMPLETE") /\ ~UnderActiveDispute(o)

CanDispute(node, o) ==
  /\ node = "vendor" => IsFulfilled(o)
  /\ ~Has(o, "ORDER_COMPLETE") /\ ~UnderActiveDispute(o)

CanCall(op, node, o) ==
  /\ o.open
  /\ CASE op = "reject" -> CanReject(o)
       [] op = "confirm" -> CanConfirm(o)
       [] op = "cancel" -> CanCancel(o)
       [] op = "refund" -> CanRefund(o)
       [] op = "fulfill" -> CanFulfill(o)
       [] op = "complete" -> CanComplete(o)
       [] OTHER -> CanDispute(node, o)

Issued(type, node) == {m \in issued : m.type = type /\ m.by = node}

\* The first half of an API call: read the order and check that it allows the
\* call. What it read goes on to the second half.
StartCall(node, op) ==
  /\ op \in Ops \cap OpsOf(node)
  /\ tx = Idle
  /\ CanCall(op, node, order[node])
  /\ Cardinality({c \in calls : c.node = node}) < MaxCalls
  /\ Cardinality(Issued(OpType[op], node))
       + Cardinality({c \in calls : c.op = op}) < MaxIssued
  /\ \E id \in 1..MaxCalls :
       /\ \A c \in calls : c.node = node => c.id # id
       /\ calls' = calls \cup {[node |-> node, op |-> op, id |-> id, seen |-> order[node]]}
  /\ UNCHANGED <<deal, order, tx, net, redeliveries, issued, chain>>

\* Mutant: a release can be built from no transaction at all.
ReleasableAlways(s) == TRUE

\* The outputs that a release built from the order s spends. An escrow release
\* cannot be built when the order knows no transaction yet.
CancelableRelease(s) == IF deal.method = "CANCELABLE" THEN Unspent(s.txs) ELSE {}
EscrowRelease(s) == IF deal.method = "MODERATED" THEN Unspent(s.txs) ELSE {}
Releasable(s) == deal.method = "MODERATED" => s.txs # {}

Serial(type, node) == 1 + Cardinality(Issued(type, node))

\* The total of the refunds the order knows.
Returned(s) == Total(Refunds(s))

\* Mutant: a direct refund returns everything that was paid, again and again.
RefundMessagesInFull(s) ==
  IF deal.method = "MODERATED" /\ s.txs = {} THEN {}
  ELSE {Msg("REFUND", "vendor", Serial("REFUND", "vendor"),
            IF deal.method = "DIRECT" THEN Cardinality(Paid(s.txs)) ELSE 0,
            EscrowRelease(s))}

\* buildRefundMessage: a direct refund returns what was paid less what the
\* refunds it knows returned, a moderated one releases the unspent outputs.
RefundMessages(s) ==
  LET amounts == IF deal.method = "DIRECT"
                 THEN {a \in 0..Cardinality(Payments) : a + Returned(s) = Cardinality(Paid(s.txs))}
                 ELSE {0}
  IN  IF ~Releasable(s) THEN {}
      ELSE {Msg("REFUND", "vendor", Serial("REFUND", "vendor"), a,
                EscrowRelease(s)) : a \in amounts}

Answer(c, k, from) ==
  Msg(OpType[c.op], c.node, Serial(OpType[c.op], c.node), k, from)

\* The messages that the call c may build from the order it has read; none if it
\* returns an error instead.
ConfirmMessages(c) ==
  IF deal.method = "CANCELABLE" /\ CancelableRelease(c.seen) = {} THEN {}
  ELSE {Answer(c, 0, CancelableRelease(c.seen))}

CancelMessages(c) ==
  IF CancelableRelease(c.seen) = {} THEN {}
  ELSE {Answer(c, 0, CancelableRelease(c.seen))}

RejectMessages(c) == {Answer(c, 0, {})}

FulfillMessages(c) ==
  IF ~Releasable(c.seen) THEN {}
  ELSE {Answer(c, i, EscrowRelease(c.seen)) : i \in Items}

CompleteMessages(c) ==
  IF ~Has(c.seen, "RATING_SIGNATURES") \/ ~Releasable(c.seen) THEN {}
  ELSE {Answer(c, f.k, EscrowRelease(c.seen)) : f \in c.seen.first}

DisputeMessages(c) ==
  IF deal.method # "MODERATED" \/ ~CanMarshal(c.seen) THEN {}
  ELSE {Answer(c, 0, {})}

CallMessages(c) ==
  CASE c.op = "confirm" -> ConfirmMessages(c)
    [] c.op = "cancel" -> CancelMessages(c)
    [] c.op = "reject" -> RejectMessages(c)
    [] c.op = "refund" -> RefundMessages(c.seen)
    [] c.op = "fulfill" -> FulfillMessages(c)
    [] c.op = "complete" -> CompleteMessages(c)
    [] OTHER -> DisputeMessages(c)

\* RejectOrder refunds a funded order that is not cancelable.
AlsoRefunds(c) ==
  c.op = "reject" /\ IsFunded(c.seen) /\ deal.method # "CANCELABLE"

Fails(c) ==
  CallMessages(c) = {} \/ (AlsoRefunds(c) /\ RefundMessages(c.seen) = {})

\* Mutant: a confirmation does not commit its wallet transaction.
CallSpendsOnCancel(m) ==
  IF \/ m.type = "ORDER_CANCEL" /\ deal.method = "CANCELABLE"
     \/ m.type = "REFUND" /\ deal.method = "DIRECT"
  THEN {TxOf(m)} ELSE {}

\* The wallet transaction that the call itself commits.
CallSpends(m) ==
  IF \/ m.type \in {"ORDER_CONFIRMATION", "ORDER_CANCEL"} /\ deal.method = "CANCELABLE"
     \/ m.type = "REFUND" /\ deal.method = "DIRECT"
  THEN {TxOf(m)} ELSE {}

\* The second half: build the message, process it and send it. The message is
\* sent whether or not the processor accepted it.
RunCall(c) ==
  /\ tx = Idle
  /\ c \in calls
  /\ calls' = calls \ {c}
  /\ \/ /\ Fails(c)
        /\ UNCHANGED <<tx, chain>>
     \/ /\ ~Fails(c) /\ ~AlsoRefunds(c)
        /\ \E m \in CallMessages(c) :
             Enter(c.node, order[c.node], c.node, m, {}, {m}, CallSpends(m))
     \/ /\ ~Fails(c) /\ AlsoRefunds(c)
        /\ \E m \in CallMessages(c), r \in RefundMessages(c.seen) :
             Enter(c.node, order[c.node], c.node, m, {r}, {m, r}, CallSpends(r))
  /\ UNCHANGED <<deal, order, net, redeliveries, issued>>

-----------------------------------------------------------------------------
Next ==
  \/ Purchase
  \/ \E p \in Payments : Pay(p)
  \/ \E node \in Node, op \in Op : StartCall(node, op)
  \/ \E c \in calls : RunCall(c)
  \/ \E m \in net : Deliver(m)
  \/ \E node \in Node, t \in chain : WalletTransaction(node, t)
  \/ Reprocess
  \/ ProcessNext
  \/ Commit
  \/ Abort

Spec == Init /\ [][Next]_vars

\* A node finishes the transactions and calls it has started, the messenger
\* repeats each message until it is delivered, and the wallets announce every
\* transaction. Users are free to act or not.
FairSpec ==
  /\ Spec
  /\ WF_vars(Reprocess \/ ProcessNext \/ Commit \/ Abort)
  /\ SF_vars(\E c \in calls : RunCall(c))
  /\ SF_vars(\E m \in net : Deliver(m) /\ net' # net)
  /\ SF_vars(\E node \in Node, t \in chain : WalletTransaction(node, t))

-----------------------------------------------------------------------------
(* Properties *)

TxState ==
  [on: Node \cup {"none"}, work: Order, peer: Node \cup {"none"},
   trigger: SUBSET Message, todo: SUBSET Parked, next: SUBSET Message,
   out: SUBSET Message, spend: SUBSET Tx]

Call == [node: Node, op: Op, id: 1..MaxCalls, seen: Order]

\* Every variable has its type, in every step of a transaction.
TypeOK ==
  /\ deal \in Deals
  /\ order \in [Node -> Order]
  /\ tx \in TxState
  /\ calls \subseteq Call
  /\ net \subseteq Message
  /\ redeliveries \in 0..MaxRedeliveries
  /\ issued \subseteq Message
  /\ chain \subseteq Tx

\* The order as the database transaction in progress sees it.
Working(node) == IF tx.on = node THEN tx.work ELSE order[node]

\* No call, update or delivery is under way and both nodes know every wallet
\* transaction that their wallets report.
Quiet ==
  /\ tx = Idle /\ calls = {} /\ net = {}
  /\ \A node \in Node : order[node].open => chain \subseteq order[node].txs

\* What the two parties must come to agree on: all messages but the
\* DISPUTE_UPDATE, which goes to the moderator alone.
Shared(o) == {m \in o.msgs : m.type # "DISPUTE_UPDATE"}

Agree == Shared(order["buyer"]) = Shared(order["vendor"])

\* ProcessMessage (processor.go:112): when every message has been delivered the
\* two nodes hold the same ones, whatever the order of arrival.
SameMessagesSameState == Quiet => Agree

\* RejectOrder and ConfirmOrder (core/reject.go:14, core/confirm.go:15): "only if
\* the order has been opened and no other actions have been taken", so that the
\* vendor gives the buyer one answer.
OneAnswer ==
  ~ \E r, c \in issued : r.type = "ORDER_REJECT" /\ c.type = "ORDER_CONFIRMATION"

\* Two messages of which a record takes only one: different ones of a single type, a
\* repeated entry of a list, a rejection beside a confirmation, a completion beside a
\* cancellation.
Competes(x, y) ==
  \/ x.type = y.type /\ (x.type \notin ListType \/ Repeats(deal.method, x, y))
  \/ x.type = "ORDER_REJECT" /\ y.type = "ORDER_CONFIRMATION"
  \/ x.type = "ORDER_CANCEL" /\ y.type = "ORDER_COMPLETE"

\* Nobody disputes the order, and no two messages compete for a place in its record.
Orderly(ms) ==
  /\ \A m \in ms : m.type # "DISPUTE_OPEN"
  /\ \A x, y \in ms : x # y => ~Competes(x, y)

\* ProcessMessage, as long as its handlers have room for all that is sent: when every
\* message has been delivered the two nodes hold the same ones, even if some were
\* parked, processed twice, or crossed each other on the way.
AgreeWhenQuiet == Orderly(issued) => SameMessagesSameState

\* A node's record: what is in the database, and what the update in progress
\* makes of it.
BuyerRecord ==
  INSTANCE OrderRecord WITH msgs <- order["buyer"].msgs, draft <- Working("buyer").msgs
VendorRecord ==
  INSTANCE OrderRecord WITH msgs <- order["vendor"].msgs, draft <- Working("vendor").msgs

\* Whatever arrives, and whenever an update is dropped, each node's order moves
\* only as OrderRecord allows.
ImplementsRecord == BuyerRecord!Spec /\ VendorRecord!Spec

\* Rejections and confirmations may cross, arrive early and be parked: no node
\* ever stores both, not even for a moment within an update.
NeverRejectedAndConfirmed ==
  \A node \in Node : \A o \in {order[node], Working(node)} :
    ~(Has(o, "ORDER_REJECT") /\ Has(o, "ORDER_CONFIRMATION"))

ReturnedOnChain == Total({t \in chain : t.kind = "REFUND"})

\* A direct sale (core/refund.go:23): what the vendor returns never exceeds what
\* the buyer paid.
RefundsNeverExceedPayments ==
  deal.method = "DIRECT" => ReturnedOnChain <= Cardinality(Paid(chain))

Settled == Paid(chain) \subseteq Spends(chain)

\* A cancelable order that is confirmed or cancelled leaves no money in the
\* payment address, whichever of the two wins the race.
CancelableSettled ==
  /\ Quiet /\ deal.method = "CANCELABLE"
  /\ \E node \in Node : Has(order[node], "ORDER_CONFIRMATION") \/ Has(order[node], "ORDER_CANCEL")
  => Settled

\* A moderated order that is completed or refunded, and not disputed, leaves no
\* money in escrow (core/completion_test.go:362, "make sure funds release").
ModeratedSettled ==
  /\ Quiet /\ deal.method = "MODERATED"
  /\ \E node \in Node : Has(order[node], "ORDER_COMPLETE") \/ Has(order[node], "REFUND")
  /\ \A node \in Node : ~Has(order[node], "DISPUTE_OPEN")
  => Settled

\* When the users are done, and the vendor gave one answer, the two nodes come to
\* hold the same messages and keep holding them: no message stays parked or lost
\* for ever.
EventuallyAgree == <>[](Agree \/ ~OneAnswer)
=============================================================================
