# A verification project for OpenBazaar 3.0

TLA+ models of the OpenBazaar 3.0 node (`src/`, Go), TLC configurations that
check them on small instances, and TLAPS proofs of theorems about them for every
value of their constants. `PROJECT.json` ties each definition to the lines it
models, each property to the run that checks it and to a mutant of the code that
breaks it, and lists the hazards of the code and the disagreements between the
code and its documentation.

## 1. The system

An OpenBazaar node is one process. A user (through the HTTP gateway) buys from,
or sells to, the user of another node; the two nodes keep a record of each order
and never share a server. They exchange messages that are delivered reliably
but in any order, and pay each other over a block chain.

| Component | State it keeps | Operations | Talks to |
|---|---|---|---|
| Order processor (`orders/`) | the order table, one `models.Order` a row | `ProcessMessage` (one handler a message type), wallet transactions, `checkForMorePayments` | runs inside the caller's database transaction; sends through the messenger; asks and uses the wallets; emits events |
| Order calls (`core/purchase.go`, `confirm.go`, `cancel.go`, `reject.go`, `refund.go`, `fulfillment.go`, `completion.go`, `disputes.go`) | none: they read the order and then update it | purchase, confirm, cancel, reject, refund, fulfill, complete, open and close dispute | order processor, messenger, wallet |
| Moderator's case (`core/disputes.go`, `models/cases.go`) | the case: opener, two contracts, parked update | handle DISPUTE_OPEN, handle DISPUTE_UPDATE | messages of both parties |
| Messenger (`net/messenger.go`) | the outgoing message table, a mutex | `ReliablySendMessage`, `ProcessACK`, `SendACK`, the retry loop, download from the store-and-forward servers | database (commit hooks), network service |
| Handlers (`core/network.go`, `net/service.go`) | the incoming message table | one handler a message type; duplicate check; mark and acknowledge; sync with a peer that connects | database, messenger, order processor |
| Database (`database/ffsqlite`) | sqlite tables and flat files, one RW mutex | `View`, `Update`, commit, rollback, commit hooks | everybody |
| Event bus, notifier (`events/`, `notifications/`) | subscriptions with channels; notification table | `Emit`, `Subscribe`; save and push | everybody; database |
| Follow and chat (`core/follow.go`, `core/chat.go`) | follower files, the table of chat messages, sequence numbers | follow, unfollow, send, mark as read, delete, and their handlers | messenger, database, event bus |
| Follower tracker (`core/follower_tracker.go`) | maps of followers, connected and tried peers; statistics | a loop over the events of the bus, a ticker that dials | event bus, database, network |
| Channels (`channels/`) | the head of a message graph | open, publish, receive, bootstrap from peers | pubsub, network service |
| Purchase and listings (`core/purchase.go`, `core/address_request.go`, `orders/order_open.go`) | listings, fetched by their hash | validate, build an order and its total, ask for an address, validate the order | exchange rates, wallets, network service |
| Public data (`core/listings.go`, `profile.go`, `images.go`, `preferences.go`, `moderation.go`) | public files, tables of coupons and preferences | sequential edits, each in one update | database, publishing |
| Publishing (`core/network.go`) | the record, the pinned root, the running publish | `Publish`, superseding, republish | IPFS |
| Gateway, wallets, repository, command line | | translation and support | |

What is hard in it:

* **Concurrency inside a node.** Each incoming message, API call, wallet event
  and ticker has its goroutine. An API call checks the order in a `View` and
  changes it in a later `Update`. The messenger's mutex and the database's are
  taken in both orders.
* **Ordering between nodes.** Messages overtake each other: they are parked and
  reprocessed. Both parties act at once: confirm and cancel, refund and
  complete, dispute and anything cross on the way.
* **Failure.** Attempts and acknowledgements are lost, messages arrive twice over
  two channels, nodes stop between two transactions, handlers fail, wallets
  refuse transactions whose inputs are spent.

What makes each part correct:

* Orders: the two records come to agree; a record moves only by legal steps; no
  order is both rejected and confirmed; money leaves the payment address when
  an order ends, and refunds stay within what was paid.
* Messenger: a message is forgotten only when it was processed or its handler
  failed, is not processed again without need, is acknowledged in the end, and no
  goroutines wait for each other for ever.
* Database: an update is atomic, over the tables and the flat files, also over a
  crash; hooks run exactly when it commits.
* Follow and chat: the follow message handled last decides, and a message is shown
  as read only when somebody has read it or a later one.
* Tracker, bus, notifier: once all events are handled the tracker knows who
  follows and is connected; threads wait in a circle only over a full channel.
* Channels: the head leads to every message that was received.
* Purchases: an order is rejected only for a reason, costs what the listings ask
  for, goes to a fresh address, and comes to an end.
* Public data: index, counts and coupons fit the listings, over any sequence of
  calls and restarts.
* Publishing: the record names the data as they are, pinned; `done` is closed.

The hazards, each at its line, with the properties that cover it or the reason
why none does, are in `PROJECT.json`.

## 2. The modules

| Module | What it is |
|---|---|
| `OrderMessages` | the data of an order: messages, wallet transactions, the record, and how messages are put, parked and refused |
| `OrderRecord` | abstract specification of one party's record |
| `Orders` | one order between a buyer and a vendor: calls, messages, processors, payments |
| `Orders_proof` | theorems about `Orders` and `Disputes` |
| `Disputes` | `Orders` with a third node, the moderator, and its case |
| `Delivery` | abstract specification of reliable delivery |
| `Messenger` | sender, store-and-forward servers, recipient |
| `Messenger_proof` | theorems about `Messenger` |
| `Transactions` | the database's updates over tables and flat files |
| `Transactions_proof` | theorems about `Transactions` |
| `EventBus` | the event bus: subscriptions, `Emit` under one mutex |
| `FollowerTracker` | the tracker, the notifier, the sync of messages and all who emit, over `EventBus` |
| `FollowerTracker_proof` | theorems about `FollowerTracker` |
| `Channel` | a chat channel: message graph, heads, bootstrap |
| `Channel_proof` | theorems about `Channel` |
| `Listing`, `OrderTotals` | pure: what makes a listing valid; what an order costs |
| `Market` | vendor and buyer from a listing to an order that is opened or rejected |
| `Market_proof` | theorems about `Market` |
| `Publisher` | publishes that supersede each other |
| `Store` | the calls that change the public data, with `Publisher` |
| `Store_proof` | theorems about `Store` |
| `Peers` | follows and chats between nodes |
| `Peers_proof` | theorems about `Peers` |
| `MC...` | model values for TLC |

### Orders

| Model | Code |
|---|---|
| `order[node]` | the row of the order in the node's database: `msgs` are the `Serialized...` columns, `parked` and `errored` the two lists, `txs` the transactions, `first` the first fulfillment of the list |
| `tx` | the `Update` in progress: the working copy, the messages still to be run, those to be sent at commit, the wallet transaction to be committed |
| `calls` | API calls between their `View` and their `Update`, with the order they read |
| `net`, `issued`, `redeliveries` | messages under way, all messages ever sent, deliveries repeated after a restart |
| `chain` | the wallet transactions broadcast |
| `deal` | the order's payment method, and whether the vendor's `validateOrderOpen` accepts it |
| `OrderOpen` ... `PaymentSent` | the handlers `process...Message` |
| `Enter`, `Reprocess`, `ProcessNext`, `Commit`, `Abort` | `ProcessMessage`: the triggering message, then each parked one by type number, then the save; a second message of the same call; commit; rollback |
| `StartCall`, `RunCall` | the `View` with its `Can...` check; the message built from what was read, processed and sent |
| `WalletTransaction`, `Pay` | `processWalletTransaction` and `checkForMorePayments`; the buyer's payment |

A message keeps its type, its signer, a serial number in place of its content,
one number (item, amount, or the fulfillment a completion pays to) and the
payments it releases or announces. What the prover and the checker see is the
control: who parks, refuses, repeats, overwrites, answers and spends.

Points where the model follows the code and a reader may not expect it:

* a message whose handler fails is dropped (`processor.go:142`: the branch that
  saves the errored message runs when recording it *fails*);
* the parked list is never emptied: every later message runs it again, and a
  message that still cannot be taken is appended again;
* the signature of a parked message is checked against the peer of the message
  that triggered the pass, so a node's own message never releases the other
  party's parked ones;
* the record cannot be turned into a contract while it has parked messages
  (`models/orders.go:1033` reads protobuf as JSON), so opening a dispute and
  handling one fail;
* a call sends its message although its own processor refused it.

Abstractions: a fulfill call covers one item. Amounts count payments, without
fees. The outputs a DIRECT refund spends are the vendor's own, so `from` is
empty. A refund of nothing is possible, as in the code. The wallets know what is
on the chain at once and refuse, or accept and lose, a transaction whose inputs
are spent. A node's own database transactions exclude each other; the model has
one transaction for both nodes, which loses nothing: nodes see each other only
by what commits. A node's outbound acknowledgement flags are left out. A copy of
a parked message beyond the second changes nothing (`ParkCap`). Failing
databases are left to `Transactions`. DISPUTE_CLOSE and PAYMENT_FINALIZED have
columns but no code that makes them.

### Disputes

| Model | Code |
|---|---|
| `case` | the moderator's row (`models.Case`): who opened the dispute, whose copy of the contract fills each party's column, the parked update, for whom validation errors are stored |
| `Mail`, `handled` | what the two parties handed to the messenger for the moderator (`OpenDispute`, `processDisputeOpenMessage`); what it has marked as received |
| `HandleDispute` | `handleDisputeMessage`, in any order, and again while the message is not marked |
| `Refuses`, `Flaws` | `validateDisputeOpen`: what it refuses, what it only records |

`Mail` needs no state of its own: it is what `Orders` says the parties have sent.
An error rolls the update back and the message is still acknowledged, so a second
DISPUTE_OPEN is lost. An update is stored as the other party's contract without a
look at its sender.

### Messenger

| Model | Code |
|---|---|
| `outgoing`, `marked` | the tables `OutgoingMessage` (sender) and `IncomingMessage` (recipient) |
| `busy` | goroutines of the sender that use its mutexes, each at a place that says what it holds: callers of `ReliablySendMessage`, `handleAckMessage`, `retryAllMessages` |
| `attempts` | `trySendMessage` goroutines, of a commit hook, a retry or a sync |
| `store` | the store-and-forward servers |
| `handling` | what the recipient handles from the sender's stream and from the servers, each in steps: duplicate check, process, save the ID, acknowledge |
| `acks` | acknowledgements under way |
| `ProcessFails`, `CheckFails`, `MarkFails` | a handler's update fails, which the deferred `sendAckMessage` acknowledges all the same (`network.go:249`); the table of marks cannot be read, or not be written |
| `failed`, `processed` | messages whose processing failed; what each reader went through, for the properties |
| `SenderCrash`, `RecipientCrash`, `RecipientStart` | all that is not in a table is lost |

Abstractions: whether a retry finds a message due (`shouldWeRetry`, by its age)
is a choice. Download and subscription share one reader. A handler's processing
is one step, which succeeds or fails (`Orders` has what it does for an order,
and takes it that the update does not fail; `Peers` lets a message go
unprocessed). The mutexes of the recipient, the wait group and `Stop`, the ban
manager, the reuse of streams and the encryption of stored messages are left
out, and so is a chat message that cannot be decoded or has an unknown flag, the
one kind that is sent reliably and never acknowledged (`chat.go:273`). A message that both readers look at before either
has marked it is processed by both, and so is one whose mark was lost: that the
order processor stands it is what `Orders` checks with `MaxRedeliveries`.

### Transactions

| Model | Code |
|---|---|
| `rows`, `files` | the sqlite tables, as the set of updates committed to them; the files of the public data, each with the number of the update that wrote it |
| `tx` | the update in progress: `commitCache`, `rollbackCache`, the entry that is next |
| `Save`, `SetFile`, `DeleteListing`, `Refuse`, `Return` | what the caller's function does: save rows, set files (old content to the rollback cache), return with or without an error |
| `WriteFile`, `RemoveFails`, `WriteFails`, `CommitRows`, `CommitFails`, `RunHooks` | `Commit`: the files one by one, then sqlite, then the hooks |
| `Undo`, `UndoFails`, `RollBackRows` | `Rollback`: the files one by one, then sqlite |
| `Crash` | the node stops; a file that was being written may be cut off |
| `leaked` | a restore that failed returned before the sqlite rollback: its transaction keeps the write lock, and nothing can be saved any more |

Files fall in three kinds by what a rollback does with one that did not exist:
records (profile, listings) are left as they are, lists are written empty, and
ratings and images are not restored at all. A file that is cut off cannot be
read, so the setters refuse to replace it.

Abstractions: what rows hold and what files say; reads within an update (they
look at the commit cache first). An update is alone, as the database's mutex
makes it. `latest`, and the copies in `tx` of the files and of `latest`, are
there only to state the properties.

### FollowerTracker and EventBus

| Model | Code |
|---|---|
| `subs`, `queue` | the subscriptions and their bounded channels (`basic.go`) |
| `want`, `bus` | what each thread emits; who holds the bus's mutex and whom it has still to send to |
| `at`, `hand` | where each thread is: the network's callbacks, the handlers of FOLLOW and UNFOLLOW (`Handlers`), updates with commit hooks, the tracker's loop, the goroutines of its ticker (`Ticks`), the notifier, the sync of messages, Close |
| `mtx`, `db` | the tracker's mutex and the database's |
| `followers`, `connected`, `tried` | the tracker's maps |
| `up`, `fans`, `stats` | what is so: connections, the follower file, the statistics |

The loop's select takes any channel that has an event, as Go's does. Each stream
has a handler of its own, and so have the offline messages: a handler emits after
its update has committed, and another may change the file and emit in between
(`follow.go:221`). A tick starts a goroutine whether or not the one before has
ended (`follower_tracker.go:165`). A dial is asked for over a channel without a
buffer (`at[t] = "send"`). Time is a choice, but a peer once tried stays tried, as
`follower_tracker.go:331` has it. `blurred` only serves the property.

### Channel

`head` is the record of the channel, `links` the links of each message, `boot` the
goroutine of `bootstrapState` for each time the channel was opened, `flag` its
`boostrapped` field, which the goroutine of the subscription sets after its
update (`live`). A message that pubsub loses is one a subscribed node never comes
to receive.
`Messages` is the least set that has, with a message, those it links to: all that
the code's loop over levels comes to.
`UpdateHead` cuts a head at its limit as the loop of the code does: the size it
tests is that of the whole map, so one other id is kept. The cache that
`Messages` pages with is left out; a page begins with the whole last level again
and finds nothing when another caller has used the cache.

### Listing, OrderTotals, Market

`Listing` follows `validateListing`; texts, images and identifiers are one field,
`tidy`. `OrderTotals` follows `CalculateOrderTotal` with whole numbers, rounding
as the conversions do: options and skus, market prices, coupons, taxes, shipping
with its tax. `Market` has the vendor's saves and deletions, the hash by which a
buyer holds a listing (`published`), `createOrder`, the address request with its
time-out and the fall back to CANCELABLE, and `validateOrderOpen`.

Points a reader may not expect: the options of an item are appended to those of
the items before (`purchase.go:276`); every order has a shipping option, so
`validateOrderOpen` refuses digital goods without one; the vendor compares the
payment's coin with no list and its amount with no total; an answer to an
address request is taken by peer and coin only; a vendor without a wallet for
the coin answers no address request, and rejects the order (`order_open.go:184`;
the error that follows at 137 is only logged, and what was put is saved).

### Publisher and Store

| Model | Code |
|---|---|
| `dir` | the public data directory |
| `writing` | the update whose files are being written, some before the others |
| `pub[c]`, `current` | each call of `Publish`: waiting for the handler, or its step in `publish`; the one whose context is not cancelled |
| `record`, `pinned`, `closed` | the IPNS record, the pins, the done channels |
| `coupons`, `prefs` | the tables of coupons and preferences |
| `expired`, `barred` | listings whose expiry has passed; those for which `Start` could not remove the coins without a wallet |
| `starting` | how far `Start` has come: disabled coins, store-and-forward servers |

`publish` adds the directory file by file while an update may write it: what it
reads is one state of the images and listings and a later one of the rest. A
cancelled IPFS call is taken to have no effect. Updates are atomic here
(`Transactions` has what happens inside). Points a reader may not expect:
`updateAllListings` saves listings with the hashes of their coupons for codes and
so loses the codes, and so does a user who saves a listing as others read it; one
listing that cannot be saved, for it has no coin left or has expired, makes it fail
for all; without a listing to change it does not even count;
`RemoveSelfAsModerator` sets the moderator's flag; images set without a profile
are not published and leave the done channel open, and so do preferences that
keep the moderators.

### Peers

`sent` is every message, `received` those handled; a message is handled any time
later, in any order, and `MaxRepeats` times once more, when a node has not noted
that it was, or never, when its handler failed. `followers`, `following` are the
files, `chats` the tables. A chat message is sent in two steps: the time (`clock`,
`sending`), and then the update that saves it with its number, so that calls
overlap (`chat.go:36` and `46`). No two messages have the same time. The
handlers of FOLLOW and UNFOLLOW do not look at the sequence, and the update that
marks messages as read takes rows of both directions, as in the code.

## 3. The runs

| Run | Question | Bounds | States |
|---|---|---|---|
| `orders_cancelable` | Do the records agree in the end (so also whenever all is quiet, since nobody need act again), does each move only as it may, and does the money leave the address, when confirm, cancel, reject and fulfill cross, for valid and invalid orders? | one payment, one item, two calls at a time a node, one message of a type | 144 thousand |
| `orders_moderated` | Do the records of a moderated order agree with refund, completion and dispute; is it paid out; does the moderator's case have grounds and, in the end, both contracts? | one payment, one item, one call at a time a node; the moderator handles its mail in any order, any number of times | 956 thousand |
| `orders_direct` | Do refunds of a direct order stay within its payments, and the records agree? | a price of two payments, two refunds, one redelivery | 1.3 million |
| `messenger` | Is a message forgotten only when it was processed or its handler failed, and processed again by a reader only when its mark was lost; is it acknowledged in the end, unless two mutexes block each other? | one message, two goroutines at the mutexes, one fault: a crash, a handler that fails, a mark that cannot be read or saved | 118 thousand |
| `transactions` | Is no file older than the tables, whatever fails; do updates that fail without a disk error undo what can be undone; do hooks run just for what committed? | three updates of up to two files, one disk error, one crash; one file of each kind | 632 thousand |
| `tracker` | Does the tracker know who follows and is connected once all events are handled; what does a deadlock need; is every event handled otherwise? | one peer, two handlers and two ticks at once, channels of one event, three events from outside | 347 thousand |
| `channel` | Does the head lead to all that was received, unless a bootstrap overwrote it or it was cut? | two nodes, three messages, head limit two, each opens once | 2.3 million |
| `market` | Which orders are rejected, what do opened ones cost, which addresses do they get, does each purchase end? | two purchases, three changes of the listings, one tick; listings with options, coupons, taxes, shipping, a market price, four coins | 74 thousand |
| `store` | Do index, counts and coupons fit the listings, and has no listing a coin without a wallet, after any calls and a restart, unless one to be cleaned up cannot be saved? | two slugs, one code, five profiles, two images, four updates that publish, one more step that does not (or an expiry), one restart that takes a wallet away | 2.3 million |
| `publisher` | When publishes have come to rest, does the record name the data, pinned; is every done channel closed? | three publishes of one listing, no restart (the theorems have any number) | 241 thousand |
| `peers` | Who is a follower, what is shown as read, how are messages numbered, when messages overtake each other and come again? | two nodes, two subjects, four messages, one repeated, one deletion, calls that overlap | 2.9 million |
| `orders_convergence` (violated) | the promise of `processor.go:112` | one dispute | found in seconds |

Why the bounds are enough to show the cases: one payment and one item already
make an order funded, fulfilled and released; a late or second payment needs two
(`orders_direct`). One message of each type from each party makes every pair of
types cross and overtake; a redelivery and the parked list make every handler
run again on a later record. Two goroutines suffice for two mutexes taken in
opposite orders, and one crash lets either node stop at any point. Three updates
give one that committed, one that fails on top of it, and one that comes after
the failure; two writes in each give a file written before another fails, and a
file written twice. One peer and channels of one event already fill a channel
and let two opposite events wait at once; two handlers are the least that can emit
the other way round, and two ticks that can wait for the same mutex. Three
messages are the least that exceed a head limit of two; with two nodes each can bootstrap from the other.
Two purchases can wait for the same address and share a listing that changes
between them. Three publishes give one that is superseded while it unpins, its
successor, and one more. Four messages are a FOLLOW, an UNFOLLOW that it
overtakes, and a chat with its READ, or two chats that overtake each other between
time and save, and two more. Deadlock is not checked: an order that has
ended stops, and users may do nothing.

With `MaxIssued = 2` two overlapping refunds of a moderated order make the records
differ, since the handlers keep lists in the order of arrival; so do rating
signatures that a payment beyond the price makes the vendor send again: it
overwrites its own and the buyer refuses the second. The runs that check
agreement have `MaxIssued = 1`, or a price that takes every payment.

What the violated run shows: a DISPUTE_OPEN meets an order with a parked message:
one node stores it, the other drops it for good. Undisputed orders do agree
(`AgreeWhenQuiet`, proved) unless two messages compete for one place of a record
(`Competes`): different messages of a single type, a repeated entry of a list, a
reject beside a confirmation, a completion beside a cancellation. Where the runs
check it, only the vendor's two answers can.

What else the models show, and their properties name as exceptions or the bounds
leave out:

* *Refund race* (`refund.go:26`). With two calls at a time, both read the order
  before either stores its refund, and pay back twice; `orders_direct` makes
  calls one at a time.
* *Two answers* (`reject.go:17`). Reject and confirm overlap; both messages are
  sent and the buyer keeps whichever comes first. The two records may differ, but
  no node stores both answers (`RejectionExcludesConfirmation`, proved).
* *Cancel and complete* (`models/orders.go:788`). The buyer cancels while the vendor
  confirms and fulfills. `CanComplete` does not look at the cancellation, so the
  buyer may complete: its own processor refuses the ORDER_COMPLETE
  (`order_complete.go:37`), which is sent all the same, and the vendor stores it if
  it comes before the ORDER_CANCEL. So the two records may differ, and
  `AgreeWhenQuiet` excepts the pair; no run has all four calls and the property.
* *Two fulfillments* (`order_complete.go:129`). Each fulfillment of a moderated order
  pays to an address of its own; the buyer signs for that of the first it received,
  and the vendor has signatures for that of the first it sent. When two overtake
  each other the release is refused, which is only logged: both nodes store the
  ORDER_COMPLETE, and the money stays in escrow, where `completion_test.go:362`
  would "make sure funds release". TLC finds it for `ModeratedSettled` in seconds
  with `Items = {1, 2}` and `MaxIssued = 2`; with one item it cannot happen
  (`ModeratedMoneyLeaves`, proved).
* *Two disputes* (`cases.go:79`). The vendor reads the order, stores the buyer's
  dispute and answers it, and then sends a dispute of its own that its processor
  has refused. If the moderator sees that one first, the vendor's answer fills the
  buyer's column and the buyer's dispute is lost as a duplicate. So
  `ModeratorHasBothContracts` speaks of disputes that one party opened.
* *Messenger deadlock* (`messenger.go:323`). `retryAllMessages` holds the
  messenger's mutex and waits for the database; a sender or an acknowledgement
  holds the database and waits for the mutex (`Stuck` in `Messenger`).
* *Failed handler* (`network.go:249`). The acknowledgement is deferred: a message
  whose update failed is marked and acknowledged, and the sender forgets it
  (`failed`). No other loss is possible.
* *Rollback* (`ffsqlite.go:197`). An update sets a list for the first time and
  fails: the list is written back empty. A new listing, rating or image stays.
* *Bus deadlock* (`basic.go:37`). An emit to a full channel holds the bus; when
  the reader emits too, or waits for the database whose hook emits, all wait
  (`Stuck` in `FollowerTracker`).
* *Events out of order.* The select of the tracker's loop may take a loss before
  the connection it followed (`blurred`).
* *Events of two handlers* (`follow.go:242`). A FOLLOW and an UNFOLLOW of one peer
  are handled at once, commit in one order and emit in the other: the tracker
  takes a peer for a follower who is none (`Unsent`, `blurred`).
* *Numbers of overlapping chats* (`chat.go:36`). The message with the earlier time
  is saved last and gets the greater number, and the next message gets the same
  one (`Overtaken`).
* *Expired listing* (`listings.go:330`). A node that starts with fewer wallets keeps
  the coins it lost in all of its listings when one of these has expired (`barred`).
* *Bootstrap* (`channel.go:463`). The head of the others overwrites one that a
  live message has set in between (`cut`).
* *Shared answer* (`address_request.go:55`). Two purchases that wait for one coin
  take the same address; a late answer serves the next purchase.
* *Late unpin* (`network.go:109`). A publish that was superseded takes away the
  pin of the record's root (`late`).
* *Reordered follow* (`follow.go:251`). A FOLLOW handled after a later UNFOLLOW
  makes a follower that is none; `FollowersRight` speaks of messages handled in
  their order last.

### Fairness

`Orders!FairSpec`: an update that has begun goes on (a goroutine runs); a call
that has begun comes to its update and a delivery to its turn although others
compete for the database (strong fairness: Go's mutexes hand over to a waiter
that starves); a message under way is delivered and taken off (the messenger,
checked in `Messenger`); the wallets announce what is on the chain. Users are
never forced to act.

`Messenger!FairSpec`: while goroutines of the sender can go on some does, also
against competition for the mutexes (one strong fairness for all of them), and so
do the readers of the recipient (weak, for both), by a step that succeeds or one
that fails; the retry ticker ticks, and finds each message due again and again;
the network does not lose every attempt and every acknowledgement of a message;
the recipient comes back. The model has no bound on retries, as the code has none.

`FollowerTracker!FairSpec`: weak fairness of the callbacks, of the emits, of the
loop, of the ticker's goroutines, of the readers and of Close, each of which goes
on when it can; nothing is assumed of the peers, who connect, leave and follow as
they like.

`Market!FairSpec`: the three seconds of an address request pass (`time.After`),
and a sent order is processed (the messenger). An answer may never come.

`Store!FairSpec` (for `publisher`): each update and each publish goes on, by itself
as goroutines do, and the handler takes what waits; IPFS answers or fails.
`Peers`, `Channel` and the `store` run need none.

## 4. The proofs

`Orders_proof` (any payments, items, bounds, redeliveries, where nothing else is said):

* `TypeCorrect`: `Spec => []TypeOK`, from the inductive `Inv`, which adds to the
  types that the records, and the working copy of an update, are well formed
  (`open` is there exactly with an ORDER_OPEN, single messages are stored once,
  what a message needs is there), that an idle `tx` holds nothing, and that what
  is sent is finite. One lemma a handler says that it keeps such an order.
* `RecordRefinement`: `Spec => ImplementsRecord`, on the same invariant. Each
  handler is a legal move of the draft, `Commit` saves it and `Abort` drops it.
* `RejectionExcludesConfirmation`: `Spec => []NeverRejectedAndConfirmed`: no legal
  move leads to a record with both answers, and a record changes only by legal
  moves, also when a parked copy of either is run again.
* `CancelableMoneyLeaves`: `Spec => []CancelableSettled`, for one payment and anything
  else: with two, a release may be built before the second one arrives, which
  nobody spends any more. `SentInv` says that a node holds, stored or parked, only
  what was sent; `ReleaseInv`, that every confirmation or cancellation sent names
  an output that a transaction of the chain spends, and that the update about
  to send one is about to broadcast it. So the loser of a race finds the money
  spent, by its own transaction or the winner's.
* `RefundsAreCovered`: `Spec => []RefundsNeverExceedPayments`, for any payments and
  refunds of a node that makes one call at a time (two calls do pay back twice,
  see the refund race above). `RefundInv` has three parts: `VendorBooks` (the
  vendor's record has every refund of the chain, which are numbered as they are
  sent, and returns no more than it knows to be paid), `DraftBooks` (the same of
  the draft of an update, with the refund that is still to follow a rejection)
  and `CallsSee` (the call in flight has read all refunds). `Total` counts units, so
  that facts about finite sets do what an induction over a sum would.
* `ModeratedMoneyLeaves`: `Spec => []ModeratedSettled`, for one payment and one item
  and anything else: with two items it is false (see above), and a second
  payment may come after the release. `EscrowInv` says that every release that was
  sent, or is about to be, names an output unless the money is spent already
  (`Fine`); that a REFUND which the buyer has stored, and a COMPLETE which the
  vendor has stored before any dispute, is paid (`Settling`), and so is one that
  was delivered; that a completion follows a fulfillment the vendor has, and a
  refund an order the buyer has, so that neither is parked or refused when it
  comes. That the vendor has stored the fulfillment it sends rests on
  `RejectionExcludesConfirmation`.
* `RecordsAgree`: `Spec => []AgreeWhenQuiet`, for any bounds, on `AgreeInv` besides
  `Inv` and `SentInv`. `Origin` says where messages come from: each answers what
  its sender stores, and only the other party's are parked. As long as none of
  them compete, `Arrived` says that each message sent is stored by its sender,
  and that at the other node it is under way, stored, parked for a reason, or what
  the update takes up; `Drafted`, the same of the order as an update has it.
  `Reprocess` takes up what is parked when the message it waits for is stored;
  that a handler stores or parks what it has room for is one lemma a handler.
  So when nothing is under way each message is stored by both, for what it would
  wait for was sent and has arrived too.

`Orders_proof` about `Disputes` (on the `Inv` and the lemmas of `Orders`):

* `CaseTypeCorrect`: `DSpec => []CaseTypeOK`, which no run repeats. That the mail never shrinks needs
  `RecordsKept`: neither a record nor its draft forgets anything but older rating
  signatures, by the same steps that `RecordRefinement` rests on.
* `CasesHaveGrounds`: `DSpec => []CaseHasGrounds`. `DisputeInv` follows a
  DISPUTE_OPEN from the call, which finds the order open, through its processing,
  which leaves a draft with grounds, to the commit; no handler sends one.
* `EvidenceIsKept`: `DSpec => EvidenceKept`, an action property: no handled message
  takes a contract out of the case or changes who opened it.
* `ModeratorHearsBoth`: `DSpec => []ModeratorHasBothContracts`. Only the party that was
  told of the dispute sends a DISPUTE_UPDATE, and who has one in its record has
  sent it; so the second contract, or the parked one, is the other party's.

`Messenger_proof` (any messages, goroutines, crashes and failures):

* `TypeCorrect`: `Spec => []TypeOK`.
* `DeliveryRefinement`: `Spec => ImplementsDelivery`. The inductive invariant
  follows a message round: whatever is stored, tried or handled was sent;
  whatever is marked, acknowledged or being acknowledged was received, or its
  processing failed; and the goroutine inside an update is the only one, so nobody
  else sends the message.
* `NoDuplicates`: `Spec => []NothingTwice`. What a reader went through is marked, or
  is what it is about to mark; only a crash or a fault takes it out again.

`Transactions_proof` (any files, updates, errors, crashes):

* `TypeCorrect`, and `HooksAfterCommit`: hooks run between the commit of the
  rows and the end of the update.
* `FilesNotOlder`: `Spec => []FilesNeverLag`. The invariant `LagInv` says that the
  rollback cache holds nothing older than the tables, and that in a commit each
  file has its new content, or is still to be written, or is not written at all;
  so when the rows are committed all files are new.
* `FilesMatch`: `Spec => []FilesMatchRows`. On top of `LagInv`, `RollbackInv` says
  that every restorable file that may have been written is in the rollback
  cache with the content the update found, and stays to be restored until it is.

`Peers_proof` (any nodes, subjects, messages, repeats, deletions):

* `TypeCorrect`: `Spec => []TypeOK`, one row for an id in every table included.
* `Followers`: `Spec => []FollowersRight`; `FollowInv` says that the
  sequences of the follow messages sent to a node run up to the stored one, and
  that the last of them says what the sender's following file says.
* `ReadMarks`: `Spec => []ReadIsTrue`; `ReadInv` says of a READ under way that its
  sender has seen the message it names, which came from the other user.
* `Numbers`: `Spec => []NumberedInOrder`; `RowInv` ties each row to the message that
  made it, and `TimeInv` says that no time is taken twice, by a message that is sent
  or one that is being sent; the number after the row of the latest time is greater
  than that of every row that was not overtaken.

All rest on one inductive `Inv`, with `SentInv` (messages are numbered as they are
sent) and the three properties themselves, and on one lemma an action.

`FollowerTracker_proof` (any peers, handlers, ticks, limits, channel sizes, number of
events):

* `TypeCorrect`: `Spec => []TypeOK`. Its invariant `Typed` also says who emits, at
  which places each thread can be, and who holds which mutex by where it is.
* `NoCircleOfMutexes`: `Spec => []DeadlockNeedsChannel`. From `Typed`: with no full
  channel the holder of the bus waits for nobody, nor then the holder of the
  database, who can only want the bus, nor the holder of the tracker's mutex;
  a set of threads that wait for each other would need one of the three.
* `TrackerKnows`: `Spec => []TrackerIsRight`. `Truths` says of each event under way
  that what it tells is so or an opposite event about the same peer is behind
  it, `Maps` that the tracker's maps are right or such an event is pending,
  for every peer that is not blurred. Both follow an event from the callback
  or handler through the bus and the channel to the loop. `Turns` says of two
  handlers that both have an event of one such peer that the first of them has the
  bus, and that what the last one tells is so.

`Store_proof` (any listings, coupons, configurations, images, peers; any number of
publishes, updates, restarts):

* `TypeCorrect`, and `ConsistentStore`: `Spec => []StoreConsistent`. A property of the
  moments between updates is not inductive: the update's tables are there before
  its files. `StoreOK` says the same of `Data`, the directory as it will be.
* `CoinsStayEnabled`: `Spec => []CoinsEnabled`, from `StoreOK` too: a listing is saved
  with coins of the configuration only, and a restart removes the others, when
  all listings that have some can be saved; those that cannot are `barred`.
* `PublishedAtRest`: `Spec => []PublishedWhenQuiet`. `PublishOK` says that what the
  current publish read is what there is to show unless another is due, which
  is so from the moment a publishing update begins; `WritingOK`, that an update
  that publishes nothing changes nothing that is shown.
* `PinnedAtRest`: `Spec => []PinnedWhenQuiet`: the current publish knows the root of
  the record, which is the only one it unpins.

`Channel_proof` (any nodes, messages, restarts, head limits):

* `TypeCorrect`: `Spec => []TypeOK`.
* `HeadLeadsToHistory`: `Spec => []HeadHasHistory`. The lemmas about `Reach` need no
  induction over the graph, since `Messages` is a least closed set:
  `MessageAdded` (a message in the place of those it links to),
  `PublishedLater` (a message nobody links to yet). `Whole` says which places the
  goroutines of one session can be in at once as long as the head was not cut,
  so that the flag is set only when the session has something.

`Market_proof` (any listings, purchases, coins, wallets, days, saves and orders):

* `TypeCorrect`: `Spec => []TypeOK`. In `Inv`, `Built` says that an order stays what
  was asked for, with items, coin and amount that `createOrder` accepted, and
  `Addressed`, that its address is that of its method: the escrow of this very
  order, with the timeout the listings ask for, or an address the vendor's wallet
  gave out. No more addresses are given out than orders were asked for, a
  statement about cardinalities that bounds `addresses`.
* `AddressesAreFresh`: `Spec => FreshAddress`. `Unused` says of each answer under way
  that neither an order nor another answer has its address; purchases that hear
  the same answer take it together, and it is gone.
* `RejectionsHaveReasons`: `Spec => RejectedForAReason`. From `Inv`, an order that
  fits the listings, which the vendor has not changed and for whose coin it has a
  wallet, passes each part of `validateOrderOpen`: items, options, shipping, the
  escrow's address and timeout.
* The lemmas about the operators are `FlattenLists` (the list of an item's options
  has the options of the items up to it, and is its own list when the others have
  none) and `MaxOfList`. They go through the items one by one, an induction that
  `Reaches` states about a set, from the library's theorem that a well-founded
  order has a minimum (`WFMin`), which takes no operator as parameter.

The assumptions are those the modules name (`OrderAssumption`,
`BoundsAssumption`, `SupportedAssumption`, `MessengerAssumption`, `FilesAssumption`,
`ContentAssumption`, `ThreadsAssumption`, `PeersAssumption`, `StoreAssumption`,
`FiniteAssumption`, `ProfilesAssumption`, `NothingAssumption`, `DataAssumption`,
`WalletsAssumption`, ...): finite sets, natural bounds, goroutines with different names,
disjoint kinds of files and contents, profiles of the right form, and a `None`
that is no value.

Only model-checked:

* everything under fairness (`EventuallyAgree`, `SettlesUnlessStuck`,
  `HandledUnlessStuck`, `PurchaseEnds`, `DoneCloses`): liveness is out of the prover's
  reach;
* `OpenedAtListedPrice` of `Market`: that the total of an order is what the listings
  ask for compares sums that are made up in different ways (`FoldLeft`,
  whose parameter is an operator), and prices are cut off to whole units at
  several places, so that the two sums are equal for the prices and rates of an
  instance but not for all of them.

## 5. Plan

Done: the order core, the moderator's case, the messenger, the database's updates,
the nodes' follows and chats, the tracker over the bus, channels, the public
data and its publishing, and the market, all with their theorems.
Next, in this order:

1. `Orders` with late payments, several items and several orders (of which
   `checkForMorePayments` looks at one only, `transactions.go:218`).
2. `Messenger` with `Stop` and the wait group, and the mutexes of the recipient.

## 6. Not modelled

* The moderator's decision and its payout, which the code does not have yet.
* The cache that `Messages` pages a channel by (`channel.go:172`), and the
  half-hour a peer must wait for a second try (`follower_tracker.go:331`), which
  never ends.
* Streams, the ban manager, `cat` and name resolution: their effect on the models
  is that a send or a read succeeds or fails.
* Cryptography (keys, signatures, hashes, encryption), Tor, generated code,
  configuration and migrations, the gateway, mobile and command line, the mock
  wallet: translation, libraries or test support.
* Queries, which change nothing, and typing marks, which are events only.
