----------------------------- MODULE Messenger -----------------------------
(***************************************************************************)
(* The reliable delivery of messages from one node to another: the         *)
(* messenger of the sender (net/messenger.go), whose goroutines share the  *)
(* database mutex and the messenger's own, the store-and-forward servers,  *)
(* and the handlers of the recipient (core/network.go), which acknowledge  *)
(* every message, also one they could not process, and skip those whose ID *)
(* they have marked.                                                       *)
(*                                                                         *)
(* A goroutine of the sender is a record in "busy".  "at" says where it    *)
(* is, and so which mutexes it holds:                                      *)
(*   "tx"      holds the database, waits for the messenger's mutex         *)
(*   "commit"  holds the database                                          *)
(*   "read"    holds the messenger's mutex, waits for the database         *)
(*   "stamp"   waits for the database                                      *)
(*   "loop"    neither                                                     *)
(***************************************************************************)
EXTENDS Naturals, FiniteSets

CONSTANTS Messages,     \* the messages the sender's callers send
          MaxBusy,      \* bound: goroutines of the sender at work at once
          Faults,       \* what may go wrong, of "crash", "check", "process" and "mark"
          MaxFaults     \* bound: how often

ASSUME MessengerAssumption == MaxBusy \in Nat /\ MaxFaults \in Nat

VARIABLES
  sent,       \* messages whose sending was committed, ever
  outgoing,   \* the outgoing_messages table of the sender
  busy,       \* goroutines of the sender that use its mutexes
  attempts,   \* trySendMessage goroutines
  store,      \* messages at the store-and-forward servers
  up,         \* whether the recipient runs
  handling,   \* the message each reader of the recipient handles, if any
  marked,     \* the incoming_messages table of the recipient
  received,   \* messages the recipient has processed
  failed,     \* messages whose processing failed once
  processed,  \* the messages each reader went through the processing of, unless
              \* their mark was lost or could not be read
  acks,       \* acknowledgements on their way back
  faults      \* crashes and failures so far

vars == <<sent, outgoing, busy, attempts, store, up, handling, marked,
          received, failed, processed, acks, faults>>

senderVars == <<sent, outgoing, busy, attempts>>
reception == <<received, failed, processed>>
recipientVars == <<up, handling, marked, reception>>

Id == 1..MaxBusy

\* The recipient reads the sender's stream, and downloads from the servers.
Lane == {"direct", "offline"}

\* A retry tries the servers when it cannot connect, a sync does not.
Attempt == [m: Messages, servers: BOOLEAN]

Goroutine == [id: Id, kind: {"send", "ack", "retry"},
              at: {"tx", "commit", "read", "stamp", "loop"}, todo: SUBSET Messages]

Init ==
  /\ sent = {} /\ outgoing = {} /\ busy = {} /\ attempts = {}
  /\ store = {} /\ up = TRUE /\ handling = [lane \in Lane |-> {}]
  /\ marked = {} /\ received = {} /\ failed = {} /\ processed = {} /\ acks = {} /\ faults = 0

-----------------------------------------------------------------------------
(* The sender's goroutines *)

DBFree == \A g \in busy : g.at \notin {"tx", "commit"}

MutexFree == \A g \in busy : g.at # "read"

\* A goroutine waits for the messenger's mutex inside a database transaction
\* while another holds that mutex and waits for the database.
Stuck == ~MutexFree /\ \E g \in busy : g.at = "tx"

Go(kind, at, todo) ==
  \E id \in Id :
    /\ \A g \in busy : g.id # id
    /\ busy' = busy \cup {[id |-> id, kind |-> kind, at |-> at, todo |-> todo]}

Continue(g, at, todo) ==
  busy' = (busy \ {g}) \cup {[g EXCEPT !.at = at, !.todo = todo]}

Return(g) == busy' = busy \ {g}

\* A caller begins an update that sends m.
Call(m) ==
  /\ DBFree
  /\ m \notin sent
  /\ Go("send", "tx", {m})
  /\ UNCHANGED <<sent, outgoing, attempts, store, recipientVars, acks, faults>>

\* ReliablySendMessage: the message is saved in the caller's transaction.
ReliablySendMessage(g) ==
  /\ g.kind = "send" /\ g.at = "tx"
  /\ MutexFree
  /\ Continue(g, "commit", g.todo)
  /\ UNCHANGED <<sent, outgoing, attempts, store, recipientVars, acks, faults>>

\* The hook that the commit runs makes the first attempt.
Commit(g) ==
  /\ g.at = "commit"
  /\ Return(g)
  /\ sent' = sent \cup g.todo
  /\ outgoing' = outgoing \cup g.todo
  /\ attempts' = attempts \cup {[m |-> m, servers |-> TRUE] : m \in g.todo}
  /\ UNCHANGED <<store, recipientVars, acks, faults>>

\* The caller returns an error after it has called ReliablySendMessage.
Rollback(g) ==
  /\ g.at = "commit"
  /\ Return(g)
  /\ UNCHANGED <<sent, outgoing, attempts, store, recipientVars, acks, faults>>

\* handleAckMessage begins its update, in which ProcessACK deletes the row if
\* there still is one.
HandleAck(m) ==
  /\ m \in acks
  /\ DBFree
  /\ IF m \in outgoing THEN Go("ack", "tx", {m}) ELSE UNCHANGED busy
  /\ acks' = acks \ {m}
  /\ UNCHANGED <<sent, outgoing, attempts, store, recipientVars, faults>>

ProcessACK(g) ==
  /\ g.kind = "ack" /\ g.at = "tx"
  /\ MutexFree
  /\ Return(g)
  /\ outgoing' = outgoing \ g.todo
  /\ UNCHANGED <<sent, attempts, store, recipientVars, acks, faults>>

\* retryAllMessages, at startup and on every tick. Go lets no reader in while
\* a writer waits.
Retry ==
  /\ ~Stuck
  /\ Go("retry", "read", {})
  /\ UNCHANGED <<sent, outgoing, attempts, store, recipientVars, acks, faults>>

RetryRead(g) ==
  /\ g.at = "read"
  /\ DBFree
  /\ Continue(g, "loop", outgoing)
  /\ UNCHANGED <<sent, outgoing, attempts, store, recipientVars, acks, faults>>

RetryMessage(g, m) ==
  /\ g.at = "loop" /\ m \in g.todo
  /\ Continue(g, "stamp", g.todo \ {m})
  /\ attempts' = attempts \cup {[m |-> m, servers |-> TRUE]}
  /\ UNCHANGED <<sent, outgoing, store, recipientVars, acks, faults>>

\* shouldWeRetry: the last attempt is too recent for the message's age.
RetryLater(g, m) ==
  /\ g.at = "loop" /\ m \in g.todo
  /\ Continue(g, "loop", g.todo \ {m})
  /\ UNCHANGED <<sent, outgoing, attempts, store, recipientVars, acks, faults>>

RetryStamp(g) ==
  /\ g.at = "stamp"
  /\ DBFree
  /\ Continue(g, "loop", g.todo)
  /\ UNCHANGED <<sent, outgoing, attempts, store, recipientVars, acks, faults>>

RetryReturn(g) ==
  /\ g.at = "loop" /\ g.todo = {}
  /\ Return(g)
  /\ UNCHANGED <<sent, outgoing, attempts, store, recipientVars, acks, faults>>

\* syncMessages: the recipient has connected.
SyncMessage(m) ==
  /\ up /\ DBFree
  /\ m \in outgoing
  /\ attempts' = attempts \cup {[m |-> m, servers |-> FALSE]}
  /\ UNCHANGED <<sent, outgoing, busy, store, recipientVars, acks, faults>>

-----------------------------------------------------------------------------
(* trySendMessage *)

\* Mutant: the recipient is handed the attempt in place of its message.
SendDirectAttempt(a) ==
  /\ up
  /\ handling["direct"] = {}
  /\ handling' = [handling EXCEPT !["direct"] = {[m |-> a, at |-> "check"]}]
  /\ attempts' = attempts \ {a}
  /\ UNCHANGED <<sent, outgoing, busy, store, up, marked, reception, acks, faults>>

SendDirect(a) ==
  /\ up
  /\ handling["direct"] = {}
  /\ handling' = [handling EXCEPT !["direct"] = {[m |-> a.m, at |-> "check"]}]
  /\ attempts' = attempts \ {a}
  /\ UNCHANGED <<sent, outgoing, busy, store, up, marked, reception, acks, faults>>

\* The servers of the recipient are looked up in the database.
SendOffline(a) ==
  /\ a.servers /\ DBFree
  /\ store' = store \cup {a.m}
  /\ attempts' = attempts \ {a}
  /\ UNCHANGED <<sent, outgoing, busy, recipientVars, acks, faults>>

SendFails(a) ==
  /\ attempts' = attempts \ {a}
  /\ UNCHANGED <<sent, outgoing, busy, store, recipientVars, acks, faults>>

-----------------------------------------------------------------------------
(* The recipient *)

\* downloadMessages, and the subscription to the servers.
Download(m) ==
  /\ up
  /\ m \in store
  /\ handling["offline"] = {}
  /\ handling' = [handling EXCEPT !["offline"] = {[m |-> m, at |-> "check"]}]
  /\ UNCHANGED <<senderVars, store, up, marked, reception, acks, faults>>

Proceed(lane, h, at) ==
  handling' = [handling EXCEPT ![lane] = {[h EXCEPT !.at = at]}]

\* Mutant: the message is marked before it is processed.
CheckDuplicateAndMark(lane, h) ==
  /\ h.at = "check"
  /\ Proceed(lane, h, IF h.m \in marked THEN "mark" ELSE "process")
  /\ marked' = marked \cup {h.m}
  /\ UNCHANGED <<senderVars, store, up, reception, acks, faults>>

\* Mutant: a duplicate is not acknowledged again.
CheckDuplicateSilently(lane, h) ==
  /\ h.at = "check"
  /\ IF h.m \in marked THEN handling' = [handling EXCEPT ![lane] = {}]
     ELSE Proceed(lane, h, "process")
  /\ UNCHANGED <<senderVars, store, up, marked, reception, acks, faults>>

\* Mutant: nothing is a duplicate.
CheckDuplicateNever(lane, h) ==
  /\ h.at = "check"
  /\ Proceed(lane, h, "process")
  /\ UNCHANGED <<senderVars, store, up, marked, reception, acks, faults>>

\* isDuplicate: a message that is marked is only acknowledged again.
CheckDuplicate(lane, h) ==
  /\ h.at = "check"
  /\ Proceed(lane, h, IF h.m \in marked THEN "mark" ELSE "process")
  /\ UNCHANGED <<senderVars, store, up, marked, reception, acks, faults>>

Fault(kind) == kind \in Faults /\ faults < MaxFaults /\ faults' = faults + 1

\* A table that cannot be read has no duplicates.
CheckFails(lane, h) ==
  /\ h.at = "check" /\ Fault("check")
  /\ Proceed(lane, h, "process")
  /\ processed' = processed \ {<<lane, h.m>>}
  /\ UNCHANGED <<senderVars, store, up, marked, received, failed, acks>>

ProcessMessage(lane, h) ==
  /\ h.at = "process"
  /\ Proceed(lane, h, "mark")
  /\ received' = received \cup {h.m}
  /\ processed' = processed \cup {<<lane, h.m>>}
  /\ UNCHANGED <<senderVars, store, up, marked, failed, acks, faults>>

\* The handler returns the error of its update; sendAckMessage is deferred.
ProcessFails(lane, h) ==
  /\ h.at = "process" /\ Fault("process")
  /\ Proceed(lane, h, "mark")
  /\ failed' = failed \cup {h.m}
  /\ processed' = processed \cup {<<lane, h.m>>}
  /\ UNCHANGED <<senderVars, store, up, marked, received, acks>>

\* sendAckMessage, in two steps: the ID is saved, then the ACK is sent once.
Mark(lane, h) ==
  /\ h.at = "mark"
  /\ Proceed(lane, h, "ack")
  /\ marked' = marked \cup {h.m}
  /\ UNCHANGED <<senderVars, store, up, reception, acks, faults>>

\* The error is logged, and the ACK sent.
MarkFails(lane, h) ==
  /\ h.at = "mark" /\ Fault("mark")
  /\ Proceed(lane, h, "ack")
  /\ processed' = processed \ {<<lane, h.m>>}
  /\ UNCHANGED <<senderVars, store, up, marked, received, failed, acks>>

\* The ACK may be lost. A downloaded message is acknowledged to the servers too.
SendACK(lane, h) ==
  /\ h.at = "ack"
  /\ handling' = [handling EXCEPT ![lane] = {}]
  /\ acks' \in {acks, acks \cup {h.m}}
  /\ store' = IF lane = "offline" THEN store \ {h.m} ELSE store
  /\ UNCHANGED <<senderVars, up, marked, reception, faults>>

-----------------------------------------------------------------------------
(* Crashes *)

\* An ACK under way may wait at the servers until the sender is back.
SenderCrash ==
  /\ Fault("crash")
  /\ busy' = {} /\ attempts' = {} /\ acks' \in SUBSET acks
  /\ UNCHANGED <<sent, outgoing, store, recipientVars>>

RecipientCrash ==
  /\ up /\ up' = FALSE
  /\ Fault("crash")
  /\ handling' = [lane \in Lane |-> {}]
  /\ processed' = {p \in processed : p[2] \in marked}
  /\ UNCHANGED <<senderVars, store, marked, received, failed, acks>>

RecipientStart ==
  /\ ~up /\ up' = TRUE
  /\ UNCHANGED <<senderVars, store, handling, marked, reception, acks, faults>>

Work(g) ==
  \/ ReliablySendMessage(g)
  \/ Commit(g)
  \/ Rollback(g)
  \/ ProcessACK(g)
  \/ RetryRead(g)
  \/ \E m \in Messages : RetryMessage(g, m) \/ RetryLater(g, m)
  \/ RetryStamp(g)
  \/ RetryReturn(g)

TrySendMessage(a) == SendDirect(a) \/ SendOffline(a) \/ SendFails(a)

Handle(lane, h) ==
  \/ CheckDuplicate(lane, h) \/ CheckFails(lane, h)
  \/ ProcessMessage(lane, h) \/ ProcessFails(lane, h)
  \/ Mark(lane, h) \/ MarkFails(lane, h)
  \/ SendACK(lane, h)

Next ==
  \/ \E m \in Messages : Call(m) \/ HandleAck(m) \/ SyncMessage(m) \/ Download(m)
  \/ Retry
  \/ \E g \in busy : Work(g)
  \/ \E a \in attempts : TrySendMessage(a)
  \/ \E lane \in Lane : \E h \in handling[lane] : Handle(lane, h)
  \/ SenderCrash
  \/ RecipientCrash
  \/ RecipientStart

Spec == Init /\ [][Next]_vars

\* While goroutines of the sender can go on some does, also when they must compete for a
\* mutex (Go's mutexes hand over to a waiter that starves), and so with the readers of
\* the recipient; the ticker keeps starting retries, and a retry finds each message due
\* again and again; the recipient comes back after a crash; and the network does not
\* fail for ever.
FairSpec ==
  /\ Spec
  /\ SF_vars(\E g \in busy : Work(g))
  /\ SF_vars(Retry)
  /\ \A m \in Messages :
       /\ SF_vars(\E g \in busy : RetryMessage(g, m))
       /\ SF_vars(\E a \in attempts : a.m = m /\ SendDirect(a))
       /\ SF_vars(\E lane \in Lane : \E h \in handling[lane] : SendACK(lane, h) /\ m \in acks')
       /\ SF_vars(HandleAck(m))
  /\ WF_vars(\E lane \in Lane : \E h \in handling[lane] : Handle(lane, h))
  /\ WF_vars(RecipientStart)

-----------------------------------------------------------------------------
(* Properties *)

Handling == [m: Messages, at: {"check", "process", "mark", "ack"}]

\* Every variable has its type.
TypeOK ==
  /\ sent \subseteq Messages /\ outgoing \subseteq Messages
  /\ busy \subseteq Goroutine
  /\ attempts \subseteq Attempt
  /\ store \subseteq Messages
  /\ up \in BOOLEAN
  /\ handling \in [Lane -> SUBSET Handling]
  /\ marked \subseteq Messages /\ received \subseteq Messages /\ failed \subseteq Messages
  /\ processed \subseteq Lane \X Messages
  /\ acks \subseteq Messages /\ faults \in 0..MaxFaults

Promise == INSTANCE Delivery WITH pending <- outgoing

\* Across crashes of both nodes, lost attempts and lost acknowledgements, the
\* row of a message is deleted only after the recipient has processed it, or has
\* failed to: the acknowledgement is deferred (network.go:249).
ImplementsDelivery == Promise!Spec

\* No reader goes through a message it has gone through before, by retries, servers
\* and lost acknowledgements, unless the mark was lost in a crash, could not be saved
\* or could not be read (isDuplicate, network.go:325; sendAckMessage, network.go:201).
\* (Two readers may each process the message: neither has marked it when both look.)
NothingTwice ==
  \A lane \in Lane : \A h \in handling[lane] : h.at = "process" => <<lane, h.m>> \notin processed

\* ReliablySendMessage (messenger.go:103) "continually retries the send until it
\* finally goes through": every message that was sent is in the end acknowledged,
\* unless the two mutexes lock each other out.
SettlesUnlessStuck == \A m \in Messages : m \in outgoing ~> (m \notin outgoing \/ Stuck)
=============================================================================
