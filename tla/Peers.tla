------------------------------- MODULE Peers -------------------------------
(***************************************************************************)
(* Following and chatting between nodes (core/follow.go, core/chat.go).    *)
(* Messages reach the other node in the way Delivery says: any time after  *)
(* they were sent, in any order, and now and then once more, when a node   *)
(* has processed one and has not yet noted that it has, or never, when its *)
(* processing failed.  Messages have their identifiers in the order in     *)
(* which they are saved; a chat message has its time from before that, by  *)
(* a clock that never shows the same time twice.                           *)
(***************************************************************************)
EXTENDS Naturals, FiniteSets

CONSTANTS
  Node,
  Thread,       \* the subjects of messages: none, or an order
  NoOrder,
  MaxMessages,  \* bound: messages sent
  MaxRepeats,   \* bound: messages processed once more
  MaxDeletes    \* bound: deletions

ASSUME PeersAssumption ==
  NoOrder \in Thread /\ MaxMessages \in Nat /\ MaxRepeats \in Nat /\ MaxDeletes \in Nat

VARIABLES
  sent, received,        \* messages; those that have been processed
  repeats, deletes,
  following, followers,  \* the files of either name
  sequence,              \* FollowSequence
  clock,                 \* the times taken so far
  sending,               \* chat messages that have a time and are not saved yet
  chats,                 \* the table of chat messages
  last,                  \* the number of the follow message that was processed last
  seen                   \* the messages the user has marked as read

vars == <<sent, received, repeats, deletes, following, followers, sequence, clock, sending, chats,
          last, seen>>

followVars == <<following, followers, sequence, last>>

Init ==
  /\ sent = {} /\ received = {} /\ repeats = 0 /\ deletes = 0
  /\ following = [n \in Node |-> {}] /\ followers = [n \in Node |-> {}]
  /\ sequence = [n \in Node |-> [m \in Node |-> 0]] /\ last = [n \in Node |-> [m \in Node |-> 0]]
  /\ clock = 0 /\ sending = {}
  /\ chats = [n \in Node |-> {}] /\ seen = [n \in Node |-> {}]

Now == Cardinality(sent) + 1

\* The messages being sent keep their places under MaxMessages.
Room == Now + Cardinality(sending) <= MaxMessages

Send(from, to, type, number, thread, readID, time) ==
  /\ Now <= MaxMessages
  /\ sent' = sent \cup {[id |-> Now, from |-> from, to |-> to, type |-> type, sequence |-> number,
                         thread |-> thread, readID |-> readID, time |-> time]}
  /\ UNCHANGED <<received, repeats, deletes>>

-----------------------------------------------------------------------------
(* Follow *)

\* Mutant: the sequence is sent but not saved.
NextSequenceUnsaved(n, m) == UNCHANGED sequence

NextSequence(n, m) == sequence' = [sequence EXCEPT ![n][m] = @ + 1]

FollowNode(n, m) ==
  /\ Room /\ m \notin following[n] /\ following' = [following EXCEPT ![n] = @ \cup {m}]
  /\ NextSequence(n, m)
  /\ Send(n, m, "FOLLOW", sequence[n][m] + 1, NoOrder, 0, 0)
  /\ UNCHANGED <<followers, last, clock, sending, chats, seen>>

UnfollowNode(n, m) ==
  /\ Room /\ m \in following[n] /\ following' = [following EXCEPT ![n] = @ \ {m}]
  /\ NextSequence(n, m)
  /\ Send(n, m, "UNFOLLOW", sequence[n][m] + 1, NoOrder, 0, 0)
  /\ UNCHANGED <<followers, last, clock, sending, chats, seen>>

\* Neither looks at the sequence.
HandleFollow(m) ==
  /\ followers' = [followers EXCEPT ![m.to] = IF m.type = "FOLLOW" THEN @ \cup {m.from} ELSE @ \ {m.from}]
  /\ last' = [last EXCEPT ![m.to][m.from] = m.sequence]
  /\ UNCHANGED <<following, sequence, chats, seen>>

-----------------------------------------------------------------------------
(* Chat *)

Outgoing(n, m) == {c \in chats[n] : c.peer = m /\ c.outgoing}

Incoming(n, m, t) == {c \in chats[n] : c.peer = m /\ c.thread = t /\ ~c.outgoing}

Latest(rows) == {c \in rows : \A d \in rows : d.time <= c.time}

NumberAfter(rows) == IF rows = {} THEN {1} ELSE {c.sequence + 1 : c \in Latest(rows)}

\* Mutant: after the last message of the subject.
NextNumberOfThread(n, m, t) == NumberAfter({c \in Outgoing(n, m) : c.thread = t})

\* After the last message to the peer, whatever its subject.
NextNumber(n, m, t) == NumberAfter(Outgoing(n, m))

Row(id, peer, thread, outgoing, number, time) ==
  [id |-> id, peer |-> peer, thread |-> thread, outgoing |-> outgoing, read |-> FALSE,
   sequence |-> number, time |-> time]

\* The time of a message is taken outside the transaction that saves it.
SendChatMessage(n, m, t) ==
  /\ Room /\ clock < MaxMessages /\ clock' = clock + 1
  /\ sending' = sending \cup {[from |-> n, to |-> m, thread |-> t, time |-> clock + 1]}
  /\ UNCHANGED <<sent, received, repeats, deletes, followVars, chats, seen>>

\* Whichever of several calls comes first: the others find its message.
SaveChatMessage(w) ==
  /\ sending' = sending \ {w}
  /\ \E number \in NextNumber(w.from, w.to, w.thread) :
       /\ Send(w.from, w.to, "CHAT", number, w.thread, 0, w.time)
       /\ chats' = [chats EXCEPT ![w.from] = @ \cup {Row(Now, w.to, w.thread, TRUE, number, w.time)}]
  /\ UNCHANGED <<followVars, clock, seen>>

Marked(rows, all) == (all \ rows) \cup {[c EXCEPT !.read = TRUE] : c \in rows}

MarkChatMessagesAsRead(n, m, t) ==
  LET unread == {c \in Incoming(n, m, t) : ~c.read} IN
  /\ Room /\ \E c \in Latest(unread) : Send(n, m, "READ", 0, t, c.id, 0)
  /\ chats' = [chats EXCEPT ![n] = Marked(unread, @)]
  /\ seen' = [seen EXCEPT ![n] = @ \cup {c.id : c \in unread}]
  /\ UNCHANGED <<followVars, clock, sending>>

\* Mutant: the message is added to the table, never saved over itself.
HandleMessageCreate(m) ==
  /\ chats' = [chats EXCEPT ![m.to] = @ \cup {Row(m.id, m.from, m.thread, FALSE, m.sequence, m.time)}]
  /\ UNCHANGED <<followVars, seen>>

\* A message that is saved once more is unread once more.
HandleMessage(m) ==
  /\ chats' = [chats EXCEPT ![m.to] =
       {c \in @ : c.id # m.id} \cup {Row(m.id, m.from, m.thread, FALSE, m.sequence, m.time)}]
  /\ UNCHANGED <<followVars, seen>>

\* Mutant: the messages of every subject.
ReadThroughAll(m) ==
  {c \in chats[m.to] : c.peer = m.from /\ ~c.read /\ \E d \in chats[m.to] : d.id = m.readID /\ c.time <= d.time}

\* What is read up to the message, and what came from the peer before it as well.
ReadThrough(m) ==
  {c \in chats[m.to] : /\ c.peer = m.from /\ c.thread = m.thread /\ ~c.read
                       /\ \E d \in chats[m.to] : d.id = m.readID /\ c.time <= d.time}

HandleRead(m) ==
  /\ chats' = [chats EXCEPT ![m.to] = Marked(ReadThrough(m), @)]
  /\ UNCHANGED <<followVars, seen>>

\* DeleteChatMessage, DeleteChatConversation and DeleteGroupChatMessages.
Delete(n, rows) ==
  /\ rows # {} /\ deletes < MaxDeletes /\ deletes' = deletes + 1
  /\ chats' = [chats EXCEPT ![n] = @ \ rows]
  /\ UNCHANGED <<sent, received, repeats, followVars, clock, sending, seen>>

DeleteChatMessage(n) == \E c \in chats[n] : Delete(n, {c})

DeleteChatConversation(n, m) == Delete(n, {c \in chats[n] : c.peer = m /\ c.thread = NoOrder})

DeleteGroupChatMessages(n, t) == Delete(n, {c \in chats[n] : c.thread = t})

-----------------------------------------------------------------------------

Receive(m) ==
  /\ received' = received \cup {m}
  /\ IF m \in received THEN repeats < MaxRepeats /\ repeats' = repeats + 1 ELSE repeats' = repeats
  /\ UNCHANGED <<sent, deletes, clock, sending>>
  /\ \/ m.type \in {"FOLLOW", "UNFOLLOW"} /\ HandleFollow(m)
     \/ m.type = "CHAT" /\ HandleMessage(m)
     \/ m.type = "READ" /\ HandleRead(m)

Next ==
  \/ \E n \in Node : \E m \in Node \ {n} :
       \/ FollowNode(n, m) \/ UnfollowNode(n, m) \/ DeleteChatConversation(n, m)
       \/ \E t \in Thread : SendChatMessage(n, m, t) \/ MarkChatMessagesAsRead(n, m, t)
  \/ \E n \in Node : DeleteChatMessage(n) \/ \E t \in Thread \ {NoOrder} : DeleteGroupChatMessages(n, t)
  \/ \E w \in sending : SaveChatMessage(w)
  \/ \E m \in sent : Receive(m)

Spec == Init /\ [][Next]_vars

-----------------------------------------------------------------------------
(* Properties *)

Message ==
  [id : 1..MaxMessages, from : Node, to : Node, type : {"FOLLOW", "UNFOLLOW", "CHAT", "READ"},
   sequence : 0..MaxMessages, thread : Thread, readID : 0..MaxMessages, time : 0..MaxMessages]

ChatMessage ==
  [id : 1..MaxMessages, peer : Node, thread : Thread, outgoing : BOOLEAN, read : BOOLEAN,
   sequence : 1..MaxMessages, time : 1..MaxMessages]

Call == [from : Node, to : Node, thread : Thread, time : 1..MaxMessages]

\* Every variable has its type, and a table has one row for an id.
TypeOK ==
  /\ sent \subseteq Message /\ received \subseteq sent
  /\ repeats \in 0..MaxRepeats /\ deletes \in 0..MaxDeletes
  /\ following \in [Node -> SUBSET Node] /\ followers \in [Node -> SUBSET Node]
  /\ sequence \in [Node -> [Node -> 0..MaxMessages]] /\ last \in [Node -> [Node -> 0..MaxMessages]]
  /\ seen \in [Node -> SUBSET (1..MaxMessages)]
  /\ clock \in 0..MaxMessages /\ sending \subseteq Call
  /\ chats \in [Node -> SUBSET ChatMessage]
  /\ \A n \in Node : \A c, d \in chats[n] : c.id = d.id => c = d

\* Whenever the follow message that was processed last is the one sent last, the
\* followers file says what the other node's following file says.  (Messages overtake
\* each other, and handleFollowMessage, follow.go:212, does not look at the sequence: a
\* FOLLOW that comes after a later UNFOLLOW makes a follower that is none.)
FollowersRight ==
  \A n, m \in Node : last[m][n] = sequence[n][m] => (n \in followers[m] <=> m \in following[n])

\* An outgoing message is shown as read only when the other user has read it or a later
\* one of its subject (chat.go:107: "the remote peer will set that message and everything
\* before it as read"); an incoming one only when the user has, or the other has read a
\* later one of ours, because the update at chat.go:305 takes rows of either direction.
ReadIsTrue ==
  \A n \in Node : \A c \in chats[n] : c.read =>
    \/ ~c.outgoing /\ c.id \in seen[n]
    \/ \E m \in sent : /\ m.type = "CHAT" /\ m.from = n /\ m.to = c.peer /\ m.thread = c.thread
                       /\ m.time >= c.time /\ m.id \in seen[c.peer]

\* A message with a later time was saved before it.
Overtaken(n, c) ==
  \E w \in sent : w.type = "CHAT" /\ w.from = n /\ w.to = c.peer /\ w.id < c.id /\ c.time < w.time

\* A message to a peer has a smaller number than every one of a later time, across
\* subjects, deletions and calls that overlap (chat.go, SendChatMessage), unless it was
\* overtaken between its time and its save: then it may share a number, or have a greater.
NumberedInOrder ==
  \A n, m \in Node : \A c, d \in Outgoing(n, m) :
    c.time < d.time /\ ~Overtaken(n, c) => c.sequence < d.sequence
=============================================================================
