---------------------------- MODULE Peers_proof ----------------------------
(* Theorems about Peers, for any nodes, subjects and bounds. *)
EXTENDS Peers, FiniteSetTheorems, TLAPS

\* Messages are numbered one after the other, and a node does not write to itself.
SentInv ==
  /\ IsFiniteSet(sent) /\ Cardinality(sent) \in Nat
  /\ \A m \in sent : m.id <= Cardinality(sent) /\ m.from # m.to
  /\ \A l, m \in sent : l.id = m.id => l = m

\* The numbers of follow messages grow to the one of the file, whose message says what
\* the file says.
FollowInv ==
  /\ \A n, m \in Node :
       /\ last[m][n] <= sequence[n][m] /\ sequence[n][m] <= Cardinality(sent)
       /\ sequence[n][m] = 0 => m \notin following[n] /\ n \notin followers[m]
  /\ \A f \in sent : f.type \in {"FOLLOW", "UNFOLLOW"} =>
       /\ 1 <= f.sequence /\ f.sequence <= sequence[f.from][f.to]
       /\ f.sequence = sequence[f.from][f.to] => (f.type = "FOLLOW" <=> f.to \in following[f.from])

\* No time is taken twice.
TimeInv ==
  /\ \A w \in sending : w.time <= clock /\ w.from # w.to
  /\ \A v, w \in sending : v.time = w.time => v = w
  /\ \A k \in sent : k.type = "CHAT" => k.time <= clock
  /\ \A k, l \in sent : k.type = "CHAT" /\ l.type = "CHAT" /\ k.time = l.time => k = l
  /\ \A k \in sent, w \in sending : k.type = "CHAT" => k.time # w.time

\* The message of a row.
Of(w, n, c) ==
  /\ w.type = "CHAT" /\ w.id = c.id /\ w.thread = c.thread /\ w.sequence = c.sequence /\ w.time = c.time
  /\ c.outgoing => w.from = n /\ w.to = c.peer
  /\ ~c.outgoing => w.from = c.peer /\ w.to = n

\* Every row is of a message, and a message is numbered at most as it is counted.
RowInv ==
  /\ \A n \in Node : \A c \in chats[n] : \E w \in sent : Of(w, n, c)
  /\ \A w \in sent : w.type = "CHAT" => 1 <= w.sequence /\ w.sequence <= w.id /\ 1 <= w.time

\* The message a READ is about.
About(w, r) ==
  w.type = "CHAT" /\ w.id = r.readID /\ w.from = r.to /\ w.to = r.from /\ w.thread = r.thread

\* Who sends a READ has seen what it is about.
ReadInv ==
  \A r \in sent : r.type = "READ" =>
    r.readID \in seen[r.from] /\ \E w \in sent : About(w, r)

Inv ==
  /\ TypeOK /\ SentInv /\ TimeInv /\ FollowInv /\ RowInv /\ ReadInv
  /\ FollowersRight /\ ReadIsTrue /\ NumberedInOrder

LEMMA InitInv == Init => Inv
<1> SUFFICES ASSUME Init PROVE Inv
  OBVIOUS
<1> USE PeersAssumption DEF Init
<1>1. TypeOK
  BY DEF TypeOK, Message, ChatMessage
<1>2. SentInv
  BY FS_EmptySet DEF SentInv
<1>3. FollowInv /\ FollowersRight
  BY <1>2 DEF FollowInv, FollowersRight, SentInv
<1>4. TimeInv /\ RowInv /\ ReadInv /\ ReadIsTrue /\ NumberedInOrder
  BY DEF TimeInv, RowInv, ReadInv, ReadIsTrue, NumberedInOrder, Outgoing
<1> QED BY <1>1, <1>2, <1>3, <1>4 DEF Inv

\* What sending adds: a message numbered after all others.
LEMMA SendAdds ==
  ASSUME NEW n \in Node, NEW m \in Node, n # m,
         NEW type \in {"FOLLOW", "UNFOLLOW", "CHAT", "READ"},
         NEW number \in 0..MaxMessages, NEW t \in Thread, NEW readID \in 0..MaxMessages,
         NEW time \in 0..MaxMessages,
         TypeOK, SentInv, Send(n, m, type, number, t, readID, time)
  PROVE  \E w \in Message :
           /\ w = [id |-> Now, from |-> n, to |-> m, type |-> type, sequence |-> number,
                   thread |-> t, readID |-> readID, time |-> time]
           /\ sent' = sent \cup {w} /\ w \notin sent
           /\ sent' \subseteq Message /\ received' \subseteq sent'
           /\ Now \in 1..MaxMessages /\ Cardinality(sent') = Now /\ Now = Cardinality(sent) + 1
           /\ SentInv'
           /\ UNCHANGED <<received, repeats, deletes>>
<1> USE PeersAssumption
<1> DEFINE w == [id |-> Now, from |-> n, to |-> m, type |-> type, sequence |-> number,
                 thread |-> t, readID |-> readID, time |-> time]
<1>1. sent' = sent \cup {w} /\ Now <= MaxMessages /\ UNCHANGED <<received, repeats, deletes>>
  BY DEF Send
<1>2. Now = Cardinality(sent) + 1 /\ Now \in 1..MaxMessages
  BY <1>1 DEF Now, SentInv
<1>3. w \in Message
  BY <1>2 DEF Message
<1>4. w \notin sent
  BY <1>2 DEF SentInv
<1>5. IsFiniteSet(sent') /\ Cardinality(sent') = Now
  BY <1>1, <1>2, <1>4, FS_AddElement DEF SentInv
<1>6. \A k \in sent : k \in Message
  BY DEF TypeOK
<1>7. \A k \in sent : k.id \in Nat /\ k.id < Now
  BY <1>2, <1>6 DEF SentInv, Message
<1>8. SentInv'
  <2>1. \A k \in sent' : k.id <= Cardinality(sent') /\ k.from # k.to
    BY <1>1, <1>2, <1>5, <1>7 DEF SentInv
  <2>2. \A l, k \in sent' : l.id = k.id => l = k
    BY <1>1, <1>2, <1>7 DEF SentInv
  <2> QED BY <1>2, <1>5, <2>1, <2>2 DEF SentInv
<1>9. sent' \subseteq Message /\ received' \subseteq sent'
  BY <1>1, <1>3, <1>6 DEF TypeOK
<1> HIDE DEF w
<1> QED BY <1>1, <1>2, <1>3, <1>4, <1>5, <1>8, <1>9 DEF w

\* What is about earlier messages stays so when one is added.
LEMMA SendKeepsRows ==
  ASSUME NEW w, sent' = sent \cup {w}, w.type \in {"FOLLOW", "UNFOLLOW"}, TypeOK, RowInv, ReadInv,
         UNCHANGED <<chats, seen>>
  PROVE  RowInv' /\ ReadInv'
<1>1. RowInv'
  BY DEF RowInv, Of
<1>2. ReadInv'
  BY DEF ReadInv, About
<1> QED BY <1>1, <1>2

LEMMA FollowStep ==
  ASSUME NEW n \in Node, NEW m \in Node \ {n}, Inv, FollowNode(n, m) \/ UnfollowNode(n, m)
  PROVE  Inv'
<1> USE PeersAssumption
<1> DEFINE type == IF m \in following[n] THEN "UNFOLLOW" ELSE "FOLLOW"
           files == IF m \in following[n] THEN following[n] \ {m} ELSE following[n] \cup {m}
<1>a. TypeOK /\ SentInv /\ TimeInv /\ FollowInv /\ RowInv /\ ReadInv /\ FollowersRight /\ ReadIsTrue /\ NumberedInOrder
  BY DEF Inv
<1>1. /\ Send(n, m, type, sequence[n][m] + 1, NoOrder, 0, 0)
      /\ following' = [following EXCEPT ![n] = files]
      /\ sequence' = [sequence EXCEPT ![n][m] = @ + 1]
      /\ UNCHANGED <<followers, last, clock, sending, chats, seen>>
  BY DEF FollowNode, UnfollowNode, NextSequence
<1>2. sequence[n][m] \in Nat /\ sequence[n][m] <= Cardinality(sent) /\ Cardinality(sent) + 1 <= MaxMessages
  BY <1>a, <1>1 DEF TypeOK, FollowInv, Send, Now
<1>3. sequence[n][m] + 1 \in 0..MaxMessages /\ Cardinality(sent) \in Nat
  BY <1>a, <1>2 DEF SentInv
<1>4. PICK w \in Message :
        /\ w = [id |-> Now, from |-> n, to |-> m, type |-> type, sequence |-> sequence[n][m] + 1,
                thread |-> NoOrder, readID |-> 0, time |-> 0]
        /\ sent' = sent \cup {w} /\ w \notin sent
        /\ sent' \subseteq Message /\ received' \subseteq sent'
        /\ Now \in 1..MaxMessages /\ Cardinality(sent') = Now /\ Now = Cardinality(sent) + 1
        /\ SentInv'
        /\ UNCHANGED <<received, repeats, deletes>>
  <2>1. type \in {"FOLLOW", "UNFOLLOW", "CHAT", "READ"} /\ 0 \in 0..MaxMessages /\ n # m
    OBVIOUS
  <2> HIDE DEF type
  <2> QED BY <1>a, <1>1, <1>3, <2>1, SendAdds
<1>5. w.from = n /\ w.to = m /\ w.sequence = sequence[n][m] + 1 /\ w.type = type /\ type \in {"FOLLOW", "UNFOLLOW"}
  BY <1>4
<1>6. \A x, y \in Node : /\ <<x, y>> # <<n, m>> => sequence'[x][y] = sequence[x][y] /\ (y \in following'[x] <=> y \in following[x])
                         /\ sequence'[n][m] = sequence[n][m] + 1
  BY <1>a, <1>1 DEF TypeOK
<1>7. m \in following'[n] <=> type = "FOLLOW"
  BY <1>a, <1>1 DEF TypeOK
<1>8. following' \in [Node -> SUBSET Node] /\ sequence' \in [Node -> [Node -> 0..MaxMessages]]
  BY <1>a, <1>1, <1>3 DEF TypeOK
<1> HIDE DEF type, files
<1>9. TypeOK'
  BY <1>a, <1>1, <1>4, <1>8 DEF TypeOK
<1>10. FollowersRight'
  <2> SUFFICES ASSUME NEW x \in Node, NEW y \in Node, last'[y][x] = sequence'[x][y]
               PROVE  x \in followers'[y] <=> y \in following'[x]
    BY DEF FollowersRight
  <2>1. CASE <<x, y>> = <<n, m>>
    <3>1. last[m][n] \in Nat /\ last[m][n] <= sequence[n][m]
      BY <1>a DEF TypeOK, FollowInv
    <3> QED BY <1>1, <1>2, <1>6, <2>1, <3>1
  <2>2. CASE <<x, y>> # <<n, m>>
    BY <1>a, <1>1, <1>6, <2>2 DEF FollowersRight
  <2> QED BY <2>1, <2>2
<1>11. FollowInv'
  <2>1. ASSUME NEW x \in Node, NEW y \in Node
        PROVE  /\ last'[y][x] <= sequence'[x][y] /\ sequence'[x][y] <= Cardinality(sent')
               /\ sequence'[x][y] = 0 => y \notin following'[x] /\ x \notin followers'[y]
    <3>1. last[y][x] \in Nat /\ sequence[x][y] \in Nat
      BY <1>a DEF TypeOK
    <3>2. CASE <<x, y>> = <<n, m>>
      BY <1>a, <1>1, <1>2, <1>3, <1>4, <1>6, <3>1, <3>2 DEF FollowInv
    <3>3. CASE <<x, y>> # <<n, m>>
      BY <1>a, <1>1, <1>3, <1>4, <1>6, <3>1, <3>3 DEF FollowInv
    <3> QED BY <3>2, <3>3
  <2>2. ASSUME NEW f \in sent', f.type \in {"FOLLOW", "UNFOLLOW"}
        PROVE  /\ 1 <= f.sequence /\ f.sequence <= sequence'[f.from][f.to]
               /\ f.sequence = sequence'[f.from][f.to] => (f.type = "FOLLOW" <=> f.to \in following'[f.from])
    <3>1. CASE f = w
      BY <1>2, <1>5, <1>6, <1>7, <3>1
    <3>2. CASE f \in sent
      <4>1. f.from \in Node /\ f.to \in Node /\ f.sequence \in Nat /\ sequence[f.from][f.to] \in Nat
        BY <1>a, <3>2 DEF TypeOK, Message
      <4>2. /\ 1 <= f.sequence /\ f.sequence <= sequence[f.from][f.to]
            /\ f.sequence = sequence[f.from][f.to] => (f.type = "FOLLOW" <=> f.to \in following[f.from])
        BY <1>a, <2>2, <3>2 DEF FollowInv
      <4>3. CASE <<f.from, f.to>> = <<n, m>>
        BY <1>2, <1>6, <4>1, <4>2, <4>3
      <4>4. CASE <<f.from, f.to>> # <<n, m>>
        BY <1>6, <4>1, <4>2, <4>4
      <4> QED BY <4>3, <4>4
    <3> QED BY <1>4, <2>2, <3>1, <3>2
  <2> QED BY <2>1, <2>2 DEF FollowInv
<1>12. RowInv' /\ ReadInv'
  BY <1>a, <1>1, <1>4, <1>5, SendKeepsRows
<1>13. ReadIsTrue' /\ NumberedInOrder' /\ TimeInv'
  BY <1>a, <1>1, <1>4, <1>5 DEF ReadIsTrue, NumberedInOrder, Overtaken, Outgoing, TimeInv
<1> QED BY <1>4, <1>9, <1>10, <1>11, <1>12, <1>13 DEF Inv

LEMMA HandleFollowStep ==
  ASSUME NEW m \in sent, Inv, Receive(m), m.type \in {"FOLLOW", "UNFOLLOW"}
  PROVE  Inv'
<1> USE PeersAssumption
<1>a. TypeOK /\ SentInv /\ TimeInv /\ FollowInv /\ RowInv /\ ReadInv /\ FollowersRight /\ ReadIsTrue /\ NumberedInOrder
  BY DEF Inv
<1>1. HandleFollow(m) /\ UNCHANGED <<sent, deletes, clock, sending>> /\ received' = received \cup {m} /\ repeats' \in 0..MaxRepeats
  BY <1>a DEF Receive, TypeOK
<1>2. m.from \in Node /\ m.to \in Node /\ m.sequence \in 0..MaxMessages
  BY <1>a DEF TypeOK, Message
<1>3. /\ followers' = [followers EXCEPT ![m.to] = IF m.type = "FOLLOW" THEN @ \cup {m.from} ELSE @ \ {m.from}]
      /\ last' = [last EXCEPT ![m.to][m.from] = m.sequence]
      /\ UNCHANGED <<following, sequence, chats, seen>>
  BY <1>1 DEF HandleFollow
<1>4. followers' \in [Node -> SUBSET Node] /\ last' \in [Node -> [Node -> 0..MaxMessages]]
  BY <1>a, <1>2, <1>3 DEF TypeOK
<1>5. \A x, y \in Node : <<x, y>> # <<m.from, m.to>> =>
        last'[y][x] = last[y][x] /\ (x \in followers'[y] <=> x \in followers[y])
  BY <1>a, <1>2, <1>3 DEF TypeOK
<1>6. last'[m.to][m.from] = m.sequence /\ (m.from \in followers'[m.to] <=> m.type = "FOLLOW")
  BY <1>a, <1>2, <1>3 DEF TypeOK
<1>7. TypeOK'
  BY <1>a, <1>1, <1>3, <1>4 DEF TypeOK
<1>8. /\ 1 <= m.sequence /\ m.sequence <= sequence[m.from][m.to]
      /\ m.sequence = sequence[m.from][m.to] => (m.type = "FOLLOW" <=> m.to \in following[m.from])
  BY <1>a DEF FollowInv
<1>9. FollowersRight'
  <2> SUFFICES ASSUME NEW x \in Node, NEW y \in Node, last'[y][x] = sequence'[x][y]
               PROVE  x \in followers'[y] <=> y \in following'[x]
    BY DEF FollowersRight
  <2>1. CASE <<x, y>> = <<m.from, m.to>>
    BY <1>3, <1>6, <1>8, <2>1
  <2>2. CASE <<x, y>> # <<m.from, m.to>>
    BY <1>a, <1>3, <1>5, <2>2 DEF FollowersRight
  <2> QED BY <2>1, <2>2
<1>10. FollowInv'
  <2>1. ASSUME NEW x \in Node, NEW y \in Node
        PROVE  /\ last'[y][x] <= sequence'[x][y] /\ sequence'[x][y] <= Cardinality(sent')
               /\ sequence'[x][y] = 0 => y \notin following'[x] /\ x \notin followers'[y]
    <3>1. sequence[x][y] \in Nat
      BY <1>a DEF TypeOK
    <3>2. CASE <<x, y>> = <<m.from, m.to>>
      BY <1>a, <1>1, <1>2, <1>3, <1>6, <1>8, <3>1, <3>2 DEF FollowInv
    <3>3. CASE <<x, y>> # <<m.from, m.to>>
      BY <1>a, <1>1, <1>3, <1>5, <3>3 DEF FollowInv
    <3> QED BY <3>2, <3>3
  <2>2. \A f \in sent' : f.type \in {"FOLLOW", "UNFOLLOW"} =>
          /\ 1 <= f.sequence /\ f.sequence <= sequence'[f.from][f.to]
          /\ f.sequence = sequence'[f.from][f.to] => (f.type = "FOLLOW" <=> f.to \in following'[f.from])
    BY <1>a, <1>1, <1>3 DEF FollowInv
  <2> QED BY <2>1, <2>2 DEF FollowInv
<1>11. SentInv' /\ TimeInv' /\ RowInv' /\ ReadInv' /\ ReadIsTrue' /\ NumberedInOrder'
  BY <1>a, <1>1, <1>3 DEF SentInv, TimeInv, RowInv, ReadInv, ReadIsTrue, NumberedInOrder, Overtaken, Outgoing
<1> QED BY <1>7, <1>9, <1>10, <1>11 DEF Inv

\* The follow files and what was sent about them are left alone by the rest.
LEMMA FollowKept ==
  ASSUME TypeOK, SentInv, FollowInv, FollowersRight, UNCHANGED followVars,
         NEW w, sent' \subseteq sent \cup {w}, w.type \notin {"FOLLOW", "UNFOLLOW"}, 
         Cardinality(sent') \in Nat, Cardinality(sent) <= Cardinality(sent')
  PROVE  FollowInv' /\ FollowersRight'
<1>1. FollowersRight'
  BY DEF FollowersRight, followVars
<1>2. \A x, y \in Node : sequence[x][y] \in Nat /\ sequence[x][y] <= Cardinality(sent)
  BY DEF FollowInv, TypeOK
<1>3. \A x, y \in Node : sequence'[x][y] <= Cardinality(sent')
  BY <1>2 DEF followVars, SentInv
<1>4. FollowInv'
  BY <1>3 DEF FollowInv, followVars
<1> QED BY <1>1, <1>4

LEMMA TimeStep ==
  ASSUME NEW n \in Node, NEW m \in Node \ {n}, NEW t \in Thread, Inv, SendChatMessage(n, m, t)
  PROVE  Inv'
<1> USE PeersAssumption
<1> DEFINE v == [from |-> n, to |-> m, thread |-> t, time |-> clock + 1]
<1>1. /\ clock' = clock + 1 /\ sending' = sending \cup {v} /\ clock < MaxMessages
      /\ UNCHANGED <<sent, received, repeats, deletes, followVars, chats, seen>>
  BY DEF SendChatMessage
<1>2. clock \in 0..MaxMessages /\ sending \subseteq Call /\ sent \subseteq Message
  BY DEF Inv, TypeOK
<1>3. clock' \in 0..MaxMessages /\ v \in Call
  BY <1>1, <1>2 DEF Call
<1>4. TypeOK'
  BY <1>1, <1>2, <1>3 DEF Inv, TypeOK, followVars
<1>5. v.time = clock + 1 /\ v.from = n /\ v.to = m
  OBVIOUS
<1> HIDE DEF v
<1>6. TimeInv'
  <2>1. \A w \in sending : w.time \in Nat /\ w.time <= clock
    BY <1>2 DEF Inv, TimeInv, Call
  <2>2. \A k \in sent : k.type = "CHAT" => k.time \in Nat /\ k.time <= clock
    BY <1>2 DEF Inv, TimeInv, Message
  <2> QED BY <1>1, <1>2, <1>5, <2>1, <2>2 DEF Inv, TimeInv
<1>7. /\ SentInv' /\ FollowInv' /\ RowInv' /\ ReadInv' /\ FollowersRight'
      /\ ReadIsTrue' /\ NumberedInOrder'
  BY <1>1 DEF Inv, SentInv, FollowInv, RowInv, ReadInv, FollowersRight, ReadIsTrue,
              NumberedInOrder, Overtaken, Outgoing, followVars
<1> QED BY <1>4, <1>6, <1>7 DEF Inv

LEMMA ChatStep ==
  ASSUME NEW v \in sending, Inv, SaveChatMessage(v)
  PROVE  Inv'
<1> USE PeersAssumption
<1> DEFINE n == v.from
           m == v.to
           t == v.thread
<1>a. TypeOK /\ SentInv /\ TimeInv /\ FollowInv /\ RowInv /\ ReadInv /\ FollowersRight /\ ReadIsTrue /\ NumberedInOrder
  BY DEF Inv
<1>b. n \in Node /\ m \in Node \ {n} /\ t \in Thread /\ v.time \in 1..MaxMessages /\ n # m
  BY <1>a DEF TypeOK, Call, TimeInv
<1>1. PICK number \in NextNumber(n, m, t) :
        /\ Send(n, m, "CHAT", number, t, 0, v.time)
        /\ chats' = [chats EXCEPT ![n] = @ \cup {Row(Now, m, t, TRUE, number, v.time)}]
  BY DEF SaveChatMessage
<1>2. sending' = sending \ {v} /\ UNCHANGED <<followVars, clock, seen>>
  BY DEF SaveChatMessage
<1> HIDE DEF n, m, t
<1>3. \A x \in Node : \A c \in chats[x] : /\ c \in ChatMessage /\ c.sequence <= c.id /\ c.id <= Cardinality(sent)
                                        /\ c.sequence \in Nat /\ c.id \in Nat
  <2> SUFFICES ASSUME NEW x \in Node, NEW c \in chats[x]
               PROVE  /\ c \in ChatMessage /\ c.sequence <= c.id /\ c.id <= Cardinality(sent)
                      /\ c.sequence \in Nat /\ c.id \in Nat
    OBVIOUS
  <2>1. c \in ChatMessage
    BY <1>a DEF TypeOK
  <2>2. PICK w \in sent : Of(w, x, c)
    BY <1>a DEF RowInv
  <2>3. w.sequence <= w.id /\ w.id <= Cardinality(sent)
    BY <1>a, <2>2 DEF RowInv, SentInv, Of
  <2> QED BY <2>1, <2>2, <2>3 DEF Of, ChatMessage
<1>4. Cardinality(sent) \in Nat /\ Cardinality(sent) + 1 <= MaxMessages
  BY <1>a, <1>1 DEF SentInv, Send, Now
\* The messages behind the rows to a peer: the times of two rows differ, and so does that
\* of the new message.
<1>c. ASSUME NEW x \in Node, NEW c \in chats[x], c.outgoing
      PROVE  \E k \in sent : Of(k, x, c) /\ k.type = "CHAT" /\ k.from = x /\ k.to = c.peer
                             /\ k.time = c.time /\ k.id = c.id
  BY <1>a, <1>c DEF RowInv, Of
<1>d. ASSUME NEW c \in Outgoing(n, m), NEW d \in Outgoing(n, m), c.time = d.time PROVE c = d
  <2>1. c \in chats[n] /\ d \in chats[n] /\ c.outgoing /\ d.outgoing
    BY DEF Outgoing
  <2>2. PICK k \in sent : k.type = "CHAT" /\ k.time = c.time /\ k.id = c.id
    BY <1>b, <1>c, <2>1
  <2>3. PICK l \in sent : l.type = "CHAT" /\ l.time = d.time /\ l.id = d.id
    BY <1>b, <1>c, <2>1
  <2>4. k = l
    BY <1>a, <1>d, <2>2, <2>3 DEF TimeInv
  <2> QED BY <1>a, <1>b, <2>1, <2>2, <2>3, <2>4 DEF TypeOK
\* It has the number after that of the latest row, and so a greater one than every row
\* that was not overtaken.
<1>5. /\ number \in 1..Cardinality(sent) + 1
      /\ \A c \in Outgoing(n, m) : ~Overtaken(n, c) => c.sequence < number
  <2>1. CASE Outgoing(n, m) = {}
    BY <1>1, <1>4, <2>1 DEF NextNumber, NumberAfter
  <2>2. CASE Outgoing(n, m) # {}
    <3>1. PICK c \in Latest(Outgoing(n, m)) : number = c.sequence + 1
      BY <1>1, <2>2 DEF NextNumber, NumberAfter
    <3>2. c \in Outgoing(n, m) /\ \A d \in Outgoing(n, m) : d.time <= c.time
      BY <3>1 DEF Latest
    <3>3. \A d \in Outgoing(n, m) : d \in chats[n]
      BY DEF Outgoing
    <3>4. ASSUME NEW d \in Outgoing(n, m) PROVE d = c \/ d.time < c.time
      <4>1. d.time = c.time => d = c
        BY <1>d, <3>2
      <4>2. d \in ChatMessage /\ c \in ChatMessage /\ d.time <= c.time
        BY <1>b, <1>3, <3>2, <3>3
      <4> QED BY <4>1, <4>2 DEF ChatMessage
    <3>5. ASSUME NEW d \in Outgoing(n, m), ~Overtaken(n, d) PROVE d.sequence <= c.sequence
      <4>1. d.sequence \in Nat /\ c.sequence \in Nat
        BY <1>b, <1>3, <3>2, <3>3
      <4>2. CASE d.time < c.time
        BY <1>a, <1>b, <3>2, <3>5, <4>1, <4>2 DEF NumberedInOrder
      <4> QED BY <3>4, <4>1, <4>2
    <3> QED BY <1>b, <1>3, <1>4, <3>1, <3>2, <3>3, <3>5
  <2> QED BY <2>1, <2>2
<1>6. number \in 0..MaxMessages /\ number \in 1..MaxMessages
  BY <1>4, <1>5
<1>7. PICK w \in Message :
        /\ w = [id |-> Now, from |-> n, to |-> m, type |-> "CHAT", sequence |-> number,
                thread |-> t, readID |-> 0, time |-> v.time]
        /\ sent' = sent \cup {w} /\ w \notin sent
        /\ sent' \subseteq Message /\ received' \subseteq sent'
        /\ Now \in 1..MaxMessages /\ Cardinality(sent') = Now /\ Now = Cardinality(sent) + 1
        /\ SentInv'
        /\ UNCHANGED <<received, repeats, deletes>>
  <2>1. v.time \in 0..MaxMessages /\ 0 \in 0..MaxMessages
    BY <1>b
  <2> QED BY <1>a, <1>b, <1>1, <1>6, <2>1, SendAdds
<1> DEFINE r == Row(Now, m, t, TRUE, number, v.time)
<1>8. /\ r \in ChatMessage /\ r.id = Now /\ r.peer = m /\ r.thread = t /\ r.outgoing = TRUE
      /\ r.read = FALSE /\ r.sequence = number /\ r.time = v.time
  BY <1>b, <1>6, <1>7 DEF Row, ChatMessage
<1>9. /\ w.id = Now /\ w.type = "CHAT" /\ w.from = n /\ w.to = m /\ w.sequence = number
      /\ w.thread = t /\ w.time = v.time
  BY <1>7
<1>10. /\ chats' = [chats EXCEPT ![n] = @ \cup {r}]
       /\ \A x \in Node : \A c \in chats'[x] : c \in chats[x] \/ (x = n /\ c = r)
  BY <1>a, <1>1 DEF TypeOK
<1> HIDE DEF r
<1>11. chats' \in [Node -> SUBSET ChatMessage]
  BY <1>a, <1>8, <1>10 DEF TypeOK
<1>12. \A x \in Node : \A c, d \in chats'[x] : c.id = d.id => c = d
  BY <1>a, <1>3, <1>4, <1>7, <1>8, <1>10 DEF TypeOK
<1>13. TypeOK'
  BY <1>a, <1>2, <1>7, <1>11, <1>12 DEF TypeOK, followVars
<1>e. TimeInv'
  <2>1. sending' \subseteq sending /\ v \notin sending' /\ clock' = clock
    BY <1>2
  <2>2. v.time <= clock /\ \A u \in sending : u.time = v.time => u = v
    BY <1>a DEF TimeInv
  <2>3. \A k \in sent : k.type = "CHAT" => k.time # v.time
    BY <1>a DEF TimeInv
  <2> QED BY <1>a, <1>7, <1>9, <2>1, <2>2, <2>3 DEF TimeInv
<1>14. FollowInv' /\ FollowersRight'
  <2>1. Cardinality(sent') \in Nat /\ Cardinality(sent) <= Cardinality(sent')
    BY <1>4, <1>7
  <2> QED BY <1>a, <1>2, <1>7, <1>9, <2>1, FollowKept
<1>15. RowInv'
  <2>1. \A x \in Node : \A c \in chats'[x] : \E k \in sent' : Of(k, x, c)
    <3> SUFFICES ASSUME NEW x \in Node, NEW c \in chats'[x] PROVE \E k \in sent' : Of(k, x, c)
      OBVIOUS
    <3>1. CASE x = n /\ c = r
      BY <1>7, <1>8, <1>9, <3>1 DEF Of
    <3>2. CASE c \in chats[x]
      BY <1>a, <1>7, <3>2 DEF RowInv
    <3> QED BY <1>10, <3>1, <3>2
  <2>2. \A k \in sent' : k.type = "CHAT" => 1 <= k.sequence /\ k.sequence <= k.id /\ 1 <= k.time
    BY <1>a, <1>b, <1>4, <1>5, <1>7, <1>9 DEF RowInv
  <2> QED BY <2>1, <2>2 DEF RowInv
<1>16. ReadInv'
  BY <1>a, <1>2, <1>7, <1>9 DEF ReadInv, About
<1>17. ReadIsTrue'
  BY <1>a, <1>2, <1>7, <1>8, <1>10 DEF ReadIsTrue
<1>18. NumberedInOrder'
  <2> SUFFICES ASSUME NEW x \in Node, NEW y \in Node, NEW c \in Outgoing(x, y)', NEW d \in Outgoing(x, y)',
                      c.time < d.time, ~Overtaken(x, c)'
               PROVE  c.sequence < d.sequence
    BY DEF NumberedInOrder
  <2>1. c \in chats'[x] /\ d \in chats'[x] /\ c.peer = y /\ d.peer = y /\ c.outgoing /\ d.outgoing
    BY DEF Outgoing
  <2>2. ~Overtaken(x, c)
    BY <1>7 DEF Overtaken
  <2>3. CASE c \in chats[x] /\ d \in chats[x]
    BY <1>a, <2>1, <2>2, <2>3 DEF NumberedInOrder, Outgoing
  <2>4. CASE x = n /\ d = r /\ c \in chats[x]
    BY <1>5, <1>8, <2>1, <2>2, <2>4 DEF Outgoing
  \* The message of a row with a later time was saved before the new one.
  <2>5. CASE x = n /\ c = r /\ d \in chats[x]
    <3>1. PICK k \in sent : /\ k.type = "CHAT" /\ k.from = x /\ k.to = d.peer
                            /\ k.time = d.time /\ k.id = d.id
      BY <1>c, <2>1, <2>5
    <3>2. k.id < c.id
      BY <1>3, <1>4, <1>7, <1>8, <2>5, <3>1
    <3>3. Overtaken(x, c)'
      BY <1>7, <2>1, <3>1, <3>2 DEF Overtaken
    <3> QED BY <3>3
  <2>6. CASE c = r /\ d = r
    BY <1>b, <1>8, <2>6
  <2> QED BY <1>10, <2>1, <2>3, <2>4, <2>5, <2>6
<1> QED BY <1>7, <1>13, <1>e, <1>14, <1>15, <1>16, <1>17, <1>18 DEF Inv

\* Two rows that differ at most in their read mark.
Same(c, d) ==
  /\ c.id = d.id /\ c.peer = d.peer /\ c.thread = d.thread
  /\ c.outgoing = d.outgoing /\ c.sequence = d.sequence /\ c.time = d.time

LEMMA MarkedRows ==
  ASSUME NEW all \in SUBSET ChatMessage, NEW rows \in SUBSET all,
         \A c, d \in all : c.id = d.id => c = d
  PROVE  /\ Marked(rows, all) \subseteq ChatMessage
         /\ \A c, d \in Marked(rows, all) : c.id = d.id => c = d
         /\ \A c \in Marked(rows, all) : \E d \in all : Same(c, d) /\ (c.read => d.read \/ d \in rows)
<1>1. \A c \in rows : LET e == [c EXCEPT !.read = TRUE] IN e \in ChatMessage /\ Same(e, c)
  BY DEF ChatMessage, Same
<1>2. \A c \in Marked(rows, all) :
        \/ c \in all /\ c \notin rows
        \/ \E d \in rows : c = [d EXCEPT !.read = TRUE]
  BY DEF Marked
<1>3. Marked(rows, all) \subseteq ChatMessage
  BY <1>1, <1>2
<1>4. \A c \in Marked(rows, all) : \E d \in all : Same(c, d) /\ (c.read => d.read \/ d \in rows)
  <2> SUFFICES ASSUME NEW c \in Marked(rows, all)
               PROVE  \E d \in all : Same(c, d) /\ (c.read => d.read \/ d \in rows)
    OBVIOUS
  <2>1. CASE c \in all /\ c \notin rows
    BY <2>1 DEF Same
  <2>2. ASSUME NEW d \in rows, c = [d EXCEPT !.read = TRUE] PROVE Same(c, d)
    BY <1>1, <2>2
  <2> QED BY <1>2, <2>1, <2>2
<1>5. ASSUME NEW c \in Marked(rows, all), NEW d \in Marked(rows, all), c.id = d.id PROVE c = d
  <2>1. CASE c \in all /\ c \notin rows /\ d \in all /\ d \notin rows
    BY <1>5, <2>1
  <2>2. ASSUME NEW e \in rows, c = [e EXCEPT !.read = TRUE] PROVE c = d
    <3>1. c.id = e.id
      BY <1>1, <2>2 DEF Same
    <3>2. d \in all => d \in rows
      BY <1>5, <3>1
    <3>3. PICK f \in rows : d = [f EXCEPT !.read = TRUE]
      BY <1>2, <3>2
    <3>4. e.id = f.id
      BY <1>1, <1>5, <3>1, <3>3 DEF Same
    <3> QED BY <2>2, <3>3, <3>4
  <2>3. ASSUME NEW e \in rows, d = [e EXCEPT !.read = TRUE] PROVE c = d
    <3>1. d.id = e.id
      BY <1>1, <2>3 DEF Same
    <3>2. c \in all => c \in rows
      BY <1>5, <3>1
    <3>3. PICK f \in rows : c = [f EXCEPT !.read = TRUE]
      BY <1>2, <3>2
    <3>4. e.id = f.id
      BY <1>1, <1>5, <3>1, <3>3 DEF Same
    <3> QED BY <2>3, <3>3, <3>4
  <2> QED BY <1>2, <2>1, <2>2, <2>3
<1> QED BY <1>3, <1>4, <1>5

\* Marking and deleting rows of a node leaves the others what they were.
LEMMA RowsKept ==
  ASSUME Inv, NEW n \in Node, NEW rows \in SUBSET ChatMessage, chats' = [chats EXCEPT ![n] = rows],
         \A c \in rows : \E d \in chats[n] : Same(c, d),
         \A c, d \in rows : c.id = d.id => c = d,
         sent \subseteq sent', \A w \in sent' : w \in sent \/ w.type # "CHAT"
  PROVE  /\ chats' \in [Node -> SUBSET ChatMessage]
         /\ \A x \in Node : \A c, d \in chats'[x] : c.id = d.id => c = d
         /\ RowInv' /\ NumberedInOrder'
<1>a. TypeOK /\ RowInv /\ NumberedInOrder
  BY DEF Inv
<1>1. chats'[n] = rows /\ \A x \in Node \ {n} : chats'[x] = chats[x]
  BY <1>a DEF TypeOK
<1>2. chats' \in [Node -> SUBSET ChatMessage]
  BY <1>a DEF TypeOK
<1>3. \A x \in Node : \A c, d \in chats'[x] : c.id = d.id => c = d
  BY <1>a, <1>1 DEF TypeOK
<1>4. \A x \in Node : \A c \in chats'[x] : \E d \in chats[x] : Same(c, d)
  BY <1>1 DEF Same
<1>5. \A x \in Node : \A c \in chats'[x] : \E w \in sent' : Of(w, x, c)
  BY <1>a, <1>4 DEF RowInv, Of, Same
<1>6. RowInv'
  BY <1>a, <1>5 DEF RowInv
<1>7. NumberedInOrder'
  <2> SUFFICES ASSUME NEW x \in Node, NEW y \in Node, NEW c \in Outgoing(x, y)', NEW d \in Outgoing(x, y)',
                      c.time < d.time, ~Overtaken(x, c)'
               PROVE  c.sequence < d.sequence
    BY DEF NumberedInOrder
  <2>1. PICK e \in chats[x] : Same(c, e)
    BY <1>4 DEF Outgoing
  <2>2. PICK f \in chats[x] : Same(d, f)
    BY <1>4 DEF Outgoing
  <2>3. e \in Outgoing(x, y) /\ f \in Outgoing(x, y) /\ e.time < f.time
    BY <2>1, <2>2 DEF Outgoing, Same
  <2>4. ~Overtaken(x, e)
    BY <2>1 DEF Overtaken, Same
  <2> QED BY <1>a, <2>1, <2>2, <2>3, <2>4 DEF NumberedInOrder, Same
<1> QED BY <1>2, <1>3, <1>6, <1>7

LEMMA DeleteStep ==
  ASSUME NEW n \in Node, NEW rows, Inv, Delete(n, rows)
  PROVE  Inv'
<1> USE PeersAssumption
<1>a. TypeOK /\ SentInv /\ TimeInv /\ FollowInv /\ RowInv /\ ReadInv /\ FollowersRight /\ ReadIsTrue /\ NumberedInOrder
  BY DEF Inv
<1>1. /\ chats' = [chats EXCEPT ![n] = chats[n] \ rows] /\ deletes' \in 0..MaxDeletes
      /\ UNCHANGED <<sent, received, repeats, followVars, clock, sending, seen>>
  BY <1>a DEF Delete, TypeOK
<1>2. /\ chats' \in [Node -> SUBSET ChatMessage]
      /\ \A x \in Node : \A c, d \in chats'[x] : c.id = d.id => c = d
      /\ RowInv' /\ NumberedInOrder'
  <2> DEFINE left == chats[n] \ rows
  <2>1. left \in SUBSET ChatMessage /\ \A c, d \in left : c.id = d.id => c = d
    BY <1>a DEF TypeOK
  <2>2. \A c \in left : \E d \in chats[n] : Same(c, d)
    BY DEF Same
  <2> HIDE DEF left
  <2> QED BY <1>1, <2>1, <2>2, RowsKept DEF left
<1>3. TypeOK'
  BY <1>a, <1>1, <1>2 DEF TypeOK, followVars
<1>4. SentInv' /\ TimeInv' /\ FollowInv' /\ ReadInv' /\ FollowersRight'
  BY <1>a, <1>1 DEF SentInv, TimeInv, FollowInv, ReadInv, FollowersRight, followVars
<1>5. ReadIsTrue'
  <2>1. \A x \in Node : \A c \in chats'[x] : c \in chats[x]
    BY <1>a, <1>1 DEF TypeOK
  <2> QED BY <1>a, <1>1, <2>1 DEF ReadIsTrue
<1> QED BY <1>2, <1>3, <1>4, <1>5 DEF Inv

LEMMA MarkStep ==
  ASSUME NEW n \in Node, NEW m \in Node \ {n}, NEW t \in Thread, Inv, MarkChatMessagesAsRead(n, m, t)
  PROVE  Inv'
<1> USE PeersAssumption
<1> DEFINE unread == {c \in Incoming(n, m, t) : ~c.read}
<1>a. TypeOK /\ SentInv /\ TimeInv /\ FollowInv /\ RowInv /\ ReadInv /\ FollowersRight /\ ReadIsTrue /\ NumberedInOrder
  BY DEF Inv
<1>1. PICK last1 \in unread : Send(n, m, "READ", 0, t, last1.id, 0)
  BY DEF MarkChatMessagesAsRead, Latest
<1>2. /\ chats' = [chats EXCEPT ![n] = Marked(unread, chats[n])]
      /\ seen' = [seen EXCEPT ![n] = @ \cup {c.id : c \in unread}]
      /\ UNCHANGED <<followVars, clock, sending>>
  BY DEF MarkChatMessagesAsRead
<1>3. \A c \in unread : c \in chats[n] /\ c.peer = m /\ c.thread = t /\ ~c.outgoing
  BY DEF Incoming
<1>4. chats[n] \in SUBSET ChatMessage /\ \A c \in chats[n] : c.id \in 1..MaxMessages
  BY <1>a DEF TypeOK, ChatMessage
<1>5. last1.id \in 0..MaxMessages /\ 0 \in 0..MaxMessages /\ n # m
  BY <1>3, <1>4
<1>6. PICK w \in Message :
        /\ w = [id |-> Now, from |-> n, to |-> m, type |-> "READ", sequence |-> 0,
                thread |-> t, readID |-> last1.id, time |-> 0]
        /\ sent' = sent \cup {w} /\ w \notin sent
        /\ sent' \subseteq Message /\ received' \subseteq sent'
        /\ Now \in 1..MaxMessages /\ Cardinality(sent') = Now /\ Now = Cardinality(sent) + 1
        /\ SentInv'
        /\ UNCHANGED <<received, repeats, deletes>>
  BY <1>a, <1>1, <1>5, SendAdds
<1>7. w.type = "READ" /\ w.from = n /\ w.to = m /\ w.thread = t /\ w.readID = last1.id
  BY <1>6
<1>8. /\ Marked(unread, chats[n]) \subseteq ChatMessage
      /\ \A c, d \in Marked(unread, chats[n]) : c.id = d.id => c = d
      /\ \A c \in Marked(unread, chats[n]) : \E d \in chats[n] : Same(c, d) /\ (c.read => d.read \/ d \in unread)
  <2>1. \A c, d \in chats[n] : c.id = d.id => c = d
    BY <1>a DEF TypeOK
  <2>2. unread \in SUBSET chats[n]
    BY <1>3
  <2> HIDE DEF unread
  <2> QED BY <1>4, <2>1, <2>2, MarkedRows
<1> HIDE DEF unread
<1>9. /\ chats' \in [Node -> SUBSET ChatMessage]
      /\ \A x \in Node : \A c, d \in chats'[x] : c.id = d.id => c = d
      /\ RowInv' /\ NumberedInOrder'
  BY <1>2, <1>6, <1>7, <1>8, RowsKept
<1>10. \A x \in Node : seen[x] \subseteq seen'[x] /\ \A c \in unread : c.id \in seen'[n]
  BY <1>a, <1>2 DEF TypeOK
<1>11. seen' \in [Node -> SUBSET (1..MaxMessages)]
  BY <1>a, <1>2, <1>3, <1>4 DEF TypeOK
<1>12. TypeOK'
  BY <1>a, <1>2, <1>6, <1>9, <1>11 DEF TypeOK, followVars
<1>b. TimeInv'
  BY <1>a, <1>2, <1>6, <1>7 DEF TimeInv
<1>13. FollowInv' /\ FollowersRight'
  <2>1. Cardinality(sent') \in Nat /\ Cardinality(sent) <= Cardinality(sent')
    BY <1>a, <1>6 DEF SentInv
  <2> QED BY <1>a, <1>2, <1>6, <1>7, <2>1, FollowKept
<1>14. ReadInv'
  <2> SUFFICES ASSUME NEW r \in sent', r.type = "READ"
               PROVE  r.readID \in seen'[r.from] /\ \E k \in sent' : About(k, r)
    BY DEF ReadInv
  <2>1. CASE r = w
    <3>1. PICK k \in sent : Of(k, n, last1)
      BY <1>1, <1>3, <1>a DEF RowInv
    <3>2. About(k, r)
      BY <1>1, <1>3, <1>7, <2>1, <3>1 DEF Of, About
    <3>3. r.readID \in seen'[r.from]
      BY <1>1, <1>7, <1>10, <2>1
    <3> QED BY <1>6, <3>2, <3>3
  <2>2. CASE r \in sent
    <3>1. r.from \in Node
      BY <1>a, <2>2 DEF TypeOK, Message
    <3> QED BY <1>a, <1>6, <1>10, <2>2, <3>1 DEF ReadInv
  <2> QED BY <1>6, <2>1, <2>2
<1>15. ReadIsTrue'
  <2> SUFFICES ASSUME NEW x \in Node, NEW c \in chats'[x], c.read
               PROVE  \/ ~c.outgoing /\ c.id \in seen'[x]
                      \/ \E k \in sent' : /\ k.type = "CHAT" /\ k.from = x /\ k.to = c.peer /\ k.thread = c.thread
                                          /\ k.time >= c.time /\ k.id \in seen'[c.peer]
    BY DEF ReadIsTrue
  <2>1. PICK d \in chats[x] : Same(c, d) /\ (d.read \/ (x = n /\ d \in unread))
    <3>1. CASE x = n
      BY <1>a, <1>2, <1>8, <3>1 DEF TypeOK
    <3>2. CASE x # n
      BY <1>a, <1>2, <3>2 DEF TypeOK, Same
    <3> QED BY <3>1, <3>2
  <2>2. CASE d.read
    <3>1. d.peer \in Node
      BY <1>a DEF TypeOK, ChatMessage
    <3> QED BY <1>a, <1>6, <1>10, <2>1, <2>2, <3>1 DEF ReadIsTrue, Same
  <2>3. CASE x = n /\ d \in unread
    BY <1>3, <1>10, <2>1, <2>3 DEF Same
  <2> QED BY <2>1, <2>2, <2>3
<1> QED BY <1>6, <1>9, <1>b, <1>12, <1>13, <1>14, <1>15 DEF Inv

LEMMA HandleMessageStep ==
  ASSUME NEW m \in sent, Inv, Receive(m), m.type = "CHAT"
  PROVE  Inv'
<1> USE PeersAssumption
<1>a. TypeOK /\ SentInv /\ TimeInv /\ FollowInv /\ RowInv /\ ReadInv /\ FollowersRight /\ ReadIsTrue /\ NumberedInOrder
  BY DEF Inv
<1> DEFINE r == Row(m.id, m.from, m.thread, FALSE, m.sequence, m.time)
           rows == {c \in chats[m.to] : c.id # m.id} \cup {r}
<1>1. /\ chats' = [chats EXCEPT ![m.to] = rows] /\ UNCHANGED <<followVars, clock, sending, seen, sent, deletes>>
      /\ received' = received \cup {m} /\ repeats' \in 0..MaxRepeats
  <2>1. HandleMessage(m) /\ UNCHANGED <<sent, deletes, clock, sending>> /\ received' = received \cup {m}
    BY DEF Receive
  <2>2. repeats' \in 0..MaxRepeats
    BY <1>a DEF Receive, TypeOK
  <2> QED BY <2>1, <2>2 DEF HandleMessage
<1>2. /\ m.from \in Node /\ m.to \in Node /\ m.id \in 1..MaxMessages /\ m.thread \in Thread
      /\ m.from # m.to /\ m.sequence \in 1..MaxMessages /\ m.time \in 1..MaxMessages
  <2>1. m \in Message
    BY <1>a DEF TypeOK
  <2>2. 1 <= m.sequence /\ 1 <= m.time
    BY <1>a DEF RowInv
  <2> QED BY <1>a, <2>1, <2>2 DEF Message, SentInv
<1>3. r \in ChatMessage /\ r.id = m.id /\ r.peer = m.from /\ r.thread = m.thread /\ r.outgoing = FALSE
      /\ r.read = FALSE /\ r.sequence = m.sequence /\ r.time = m.time
  BY <1>2 DEF Row, ChatMessage
<1> HIDE DEF r
<1>4. \A x \in Node : \A c \in chats'[x] : c \in chats[x] \/ (x = m.to /\ c = r)
  BY <1>a, <1>1, <1>2 DEF TypeOK
<1>5. chats' \in [Node -> SUBSET ChatMessage]
  BY <1>a, <1>1, <1>2, <1>3 DEF TypeOK
<1>6. \A x \in Node : \A c, d \in chats'[x] : c.id = d.id => c = d
  <2>1. \A c, d \in rows : c.id = d.id => c = d
    BY <1>a, <1>2, <1>3 DEF TypeOK
  <2> QED BY <1>a, <1>1, <1>2, <2>1 DEF TypeOK
<1>7. TypeOK'
  BY <1>a, <1>1, <1>5, <1>6 DEF TypeOK, followVars
<1>8. SentInv' /\ TimeInv' /\ FollowInv' /\ ReadInv' /\ FollowersRight'
  BY <1>a, <1>1 DEF SentInv, TimeInv, FollowInv, ReadInv, FollowersRight, followVars
<1>9. RowInv'
  <2>1. ASSUME NEW x \in Node, NEW c \in chats'[x] PROVE \E w \in sent' : Of(w, x, c)
    <3>1. CASE c \in chats[x]
      BY <1>a, <1>1, <3>1 DEF RowInv
    <3>2. CASE x = m.to /\ c = r
      BY <1>1, <1>3, <3>2 DEF Of
    <3> QED BY <1>4, <3>1, <3>2
  <2> QED BY <1>a, <1>1, <2>1 DEF RowInv
<1>10. ReadIsTrue'
  BY <1>a, <1>1, <1>3, <1>4 DEF ReadIsTrue
<1>11. NumberedInOrder'
  <2> SUFFICES ASSUME NEW x \in Node, NEW y \in Node, NEW c \in Outgoing(x, y)', NEW d \in Outgoing(x, y)',
                      c.time < d.time, ~Overtaken(x, c)'
               PROVE  c.sequence < d.sequence
    BY DEF NumberedInOrder
  <2>1. c \in Outgoing(x, y) /\ d \in Outgoing(x, y) /\ ~Overtaken(x, c)
    BY <1>1, <1>3, <1>4 DEF Outgoing, Overtaken
  <2> QED BY <1>a, <2>1 DEF NumberedInOrder
<1> QED BY <1>7, <1>8, <1>9, <1>10, <1>11 DEF Inv

LEMMA HandleReadStep ==
  ASSUME NEW m \in sent, Inv, Receive(m), m.type = "READ"
  PROVE  Inv'
<1> USE PeersAssumption
<1>a. TypeOK /\ SentInv /\ TimeInv /\ FollowInv /\ RowInv /\ ReadInv /\ FollowersRight /\ ReadIsTrue /\ NumberedInOrder
  BY DEF Inv
<1>1. /\ chats' = [chats EXCEPT ![m.to] = Marked(ReadThrough(m), chats[m.to])] /\ UNCHANGED <<followVars, clock, sending, seen, sent, deletes>>
      /\ received' = received \cup {m} /\ repeats' \in 0..MaxRepeats
  BY <1>a DEF Receive, HandleRead, TypeOK
<1>2. m.from \in Node /\ m.to \in Node /\ m.readID \in 0..MaxMessages
  BY <1>a DEF TypeOK, Message
<1>3. \A c \in ReadThrough(m) : 
        /\ c \in chats[m.to] /\ c.peer = m.from /\ c.thread = m.thread
        /\ \E d \in chats[m.to] : d.id = m.readID /\ c.time <= d.time
  BY DEF ReadThrough
<1>4. /\ Marked(ReadThrough(m), chats[m.to]) \subseteq ChatMessage
      /\ \A c, d \in Marked(ReadThrough(m), chats[m.to]) : c.id = d.id => c = d
      /\ \A c \in Marked(ReadThrough(m), chats[m.to]) :
           \E d \in chats[m.to] : Same(c, d) /\ (c.read => d.read \/ d \in ReadThrough(m))
  <2>1. chats[m.to] \in SUBSET ChatMessage /\ \A c, d \in chats[m.to] : c.id = d.id => c = d
    BY <1>a, <1>2 DEF TypeOK
  <2>2. ReadThrough(m) \in SUBSET chats[m.to]
    BY <1>3
  <2> QED BY <2>1, <2>2, MarkedRows
<1>5. /\ chats' \in [Node -> SUBSET ChatMessage]
      /\ \A x \in Node : \A c, d \in chats'[x] : c.id = d.id => c = d
      /\ RowInv' /\ NumberedInOrder'
  BY <1>1, <1>2, <1>4, RowsKept
<1>6. TypeOK'
  BY <1>a, <1>1, <1>5 DEF TypeOK, followVars
<1>7. SentInv' /\ TimeInv' /\ FollowInv' /\ ReadInv' /\ FollowersRight'
  BY <1>a, <1>1 DEF SentInv, TimeInv, FollowInv, ReadInv, FollowersRight, followVars
<1>8. ReadIsTrue'
  <2> SUFFICES ASSUME NEW x \in Node, NEW c \in chats'[x], c.read
               PROVE  \/ ~c.outgoing /\ c.id \in seen[x]
                      \/ \E k \in sent : /\ k.type = "CHAT" /\ k.from = x /\ k.to = c.peer /\ k.thread = c.thread
                                         /\ k.time >= c.time /\ k.id \in seen[c.peer]
    BY <1>1 DEF ReadIsTrue
  <2>1. PICK d \in chats[x] : Same(c, d) /\ (d.read \/ (x = m.to /\ d \in ReadThrough(m)))
    <3>1. CASE x = m.to
      BY <1>a, <1>1, <1>4, <3>1 DEF TypeOK
    <3>2. CASE x # m.to
      BY <1>a, <1>1, <3>2 DEF TypeOK, Same
    <3> QED BY <3>1, <3>2
  <2>2. CASE d.read
    BY <1>a, <2>1, <2>2 DEF ReadIsTrue, Same
  <2>3. CASE x = m.to /\ d \in ReadThrough(m)
    <3>1. PICK k \in sent : About(k, m) /\ m.readID \in seen[m.from]
      BY <1>a DEF ReadInv
    <3>2. PICK e \in chats[x] : e.id = m.readID /\ d.time <= e.time
      BY <1>3, <2>3
    <3>3. PICK l \in sent : Of(l, x, e)
      BY <1>a, <2>3, <3>2 DEF RowInv
    <3>4. l = k
      BY <1>a, <3>1, <3>2, <3>3 DEF SentInv, About, Of
    <3>5. k.time >= d.time
      <4>1. d.time \in Nat /\ e.time \in Nat
        BY <1>a, <3>2 DEF TypeOK, ChatMessage
      <4> QED BY <3>2, <3>3, <3>4, <4>1 DEF Of
    <3> QED BY <1>3, <2>1, <2>3, <3>1, <3>5 DEF About, Same
  <2> QED BY <2>1, <2>2, <2>3
<1> QED BY <1>5, <1>6, <1>7, <1>8 DEF Inv

LEMMA NextInv == Inv /\ [Next]_vars => Inv'
<1> SUFFICES ASSUME Inv, [Next]_vars PROVE Inv'
  OBVIOUS
<1>1. ASSUME NEW n \in Node, NEW m \in Node \ {n}, FollowNode(n, m) \/ UnfollowNode(n, m) PROVE Inv'
  BY <1>1, FollowStep
<1>2. ASSUME NEW n \in Node, NEW m \in Node \ {n}, NEW t \in Thread, SendChatMessage(n, m, t) PROVE Inv'
  BY <1>2, TimeStep
<1>b. ASSUME NEW v \in sending, SaveChatMessage(v) PROVE Inv'
  BY <1>b, ChatStep
<1>3. ASSUME NEW n \in Node, NEW m \in Node \ {n}, NEW t \in Thread, MarkChatMessagesAsRead(n, m, t) PROVE Inv'
  BY <1>3, MarkStep
<1>4. ASSUME NEW n \in Node,
             \/ DeleteChatMessage(n)
             \/ \E m \in Node \ {n} : DeleteChatConversation(n, m)
             \/ \E t \in Thread : DeleteGroupChatMessages(n, t)
      PROVE  Inv'
  BY <1>4, DeleteStep DEF DeleteChatMessage, DeleteChatConversation, DeleteGroupChatMessages
<1>5. ASSUME NEW m \in sent, Receive(m) PROVE Inv'
  BY <1>5, HandleFollowStep, HandleMessageStep, HandleReadStep DEF Receive
<1>6. CASE UNCHANGED vars
  <2>1. TypeOK' /\ SentInv' /\ TimeInv' /\ FollowInv' /\ RowInv' /\ ReadInv'
    BY <1>6 DEF Inv, vars, TypeOK, SentInv, TimeInv, FollowInv, RowInv, ReadInv
  <2>2. FollowersRight' /\ ReadIsTrue' /\ NumberedInOrder'
    BY <1>6 DEF Inv, vars, FollowersRight, ReadIsTrue, NumberedInOrder, Overtaken, Outgoing
  <2> QED BY <2>1, <2>2 DEF Inv
<1> QED BY <1>1, <1>2, <1>b, <1>3, <1>4, <1>5, <1>6 DEF Next

LEMMA Invariance == Spec => []Inv
<1> QED BY InitInv, NextInv, PTL DEF Spec

\* The sent messages, the files and the chat tables keep their types, and a table never
\* holds two rows of one message, for any nodes, subjects, repeats and deletions.
THEOREM TypeCorrect == Spec => []TypeOK
<1>1. Inv => TypeOK
  BY DEF Inv
<1> QED BY Invariance, <1>1, PTL

\* A follower is one whenever the follow message processed last was the last one sent
\* (core/follow.go), in whatever order the others arrived.
THEOREM Followers == Spec => []FollowersRight
<1>1. Inv => FollowersRight
  BY DEF Inv
<1> QED BY Invariance, <1>1, PTL

\* A message is shown as read only for a reason (core/chat.go, handleChatMessage).
THEOREM ReadMarks == Spec => []ReadIsTrue
<1>1. Inv => ReadIsTrue
  BY DEF Inv
<1> QED BY Invariance, <1>1, PTL

\* A message to a peer has a smaller number than those of a later time (core/chat.go,
\* SendChatMessage), whatever is deleted in between and however many calls overlap, if
\* none of them was saved before it.
THEOREM Numbers == Spec => []NumberedInOrder
<1>1. Inv => NumberedInOrder
  BY DEF Inv
<1> QED BY Invariance, <1>1, PTL
=============================================================================
