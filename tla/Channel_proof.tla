--------------------------- MODULE Channel_proof ---------------------------
(***************************************************************************)
(* Proofs about Channel, for any nodes and head limit, and any number of   *)
(* messages and restarts of a channel.                                     *)
(*                                                                         *)
(* Reach is what a set of messages leads to: the least set that has them   *)
(* and the messages that theirs link to.  Putting a message in the place   *)
(* of those it links to changes nothing of what is reached, and neither    *)
(* does publishing a message later.  Leads says that the head of a         *)
(* session that was not cut reaches what the session has; Whole says how   *)
(* far receiving and bootstrapping can be from each other then: the flag   *)
(* says bootstrapped only of a session that has something, so a message    *)
(* that overwrites the head is the session's first.                        *)
(***************************************************************************)
EXTENDS Channel, FiniteSetTheorems, TLAPS

\* Messages link to earlier ones, and only what was published is known to anybody.
Order ==
  /\ \A m \in Message : links[m] \subseteq 1..(m - 1)
  /\ \A n \in Nodes : got[n] \subseteq 1..count /\ base[n] \subseteq 1..count
  /\ \A n \in Nodes : \A s \in Session : boot[n][s].ids \subseteq 1..count
  /\ \A r \in answers : r.ids \subseteq 1..count

\* What is not so before a session begins, and what is forgotten after one.
Fresh(n) ==
  /\ ~open[n] => got[n] = {} /\ base[n] = {} /\ ~cut[n]
  /\ open[n] => session[n] \in Session
  /\ \A s \in Session : s > session[n] => ~flag[n][s] /\ s \notin live[n] /\ boot[n][s].at = "none"
  /\ \A s \in Session : boot[n][s].at = "store" => boot[n][s].ids # {}

\* How far the session of a node has come, as long as its head is whole.
Whole(n) ==
  open[n] /\ ~cut[n] =>
    /\ session[n] \in live[n] => got[n] # {}
    /\ boot[n][session[n]].at = "flag" => base[n] # {}
    /\ flag[n][session[n]] => got[n] # {} \/ base[n] # {}
    /\ got[n] # {} /\ ~flag[n][session[n]] => session[n] \in live[n]

\* A set that has, with a message, those it links to.
Closed(S, lk) == \A l \in S : lk[l] \subseteq S

\* Messages, for any links.
Reach(ids, lk) == {m \in Message : \A S \in SUBSET Message : ids \subseteq S /\ Closed(S, lk) => m \in S}

\* The head leads to all that the session has.
Leads(n) ==
  open[n] /\ ~cut[n] /\ got[n] \cup base[n] # {} =>
    Reach(head[n], links) = Reach(got[n] \cup base[n], links)

Inv == TypeOK /\ Order /\ \A n \in Nodes : Fresh(n) /\ Whole(n) /\ Leads(n)

-----------------------------------------------------------------------------
(* What messages lead to *)

LEMMA ReachClosed ==
  ASSUME NEW ids \in SUBSET Message, NEW lk \in [Message -> SUBSET Message]
  PROVE  ids \subseteq Reach(ids, lk) /\ Closed(Reach(ids, lk), lk) /\ Reach(ids, lk) \subseteq Message
<1>1. Reach(ids, lk) = {m \in Message : \A S \in SUBSET Message : ids \subseteq S /\ Closed(S, lk) => m \in S}
  BY DEF Reach
<1>2. ASSUME NEW l \in Reach(ids, lk), NEW k \in lk[l] PROVE k \in Reach(ids, lk)
  <2>1. k \in Message
    BY <1>1, <1>2
  <2>2. ASSUME NEW S \in SUBSET Message, ids \subseteq S, Closed(S, lk) PROVE k \in S
    <3>1. l \in S
      BY <1>1, <2>2
    <3> QED BY <1>2, <2>2, <3>1 DEF Closed
  <2> QED BY <1>1, <2>1, <2>2
<1> QED BY <1>1, <1>2 DEF Closed

\* Nothing more than a closed set that has them.
LEMMA ReachLeast ==
  ASSUME NEW lk, NEW ids, NEW S \in SUBSET Message, ids \subseteq S, Closed(S, lk)
  PROVE  Reach(ids, lk) \subseteq S
BY DEF Reach

LEMMA SameReach ==
  ASSUME NEW a \in SUBSET Message, NEW b \in SUBSET Message, NEW lk \in [Message -> SUBSET Message],
         a \subseteq Reach(b, lk), b \subseteq Reach(a, lk)
  PROVE  Reach(a, lk) = Reach(b, lk)
<1>1. Reach(a, lk) \subseteq Reach(b, lk)
  BY ReachClosed, ReachLeast
<1>2. Reach(b, lk) \subseteq Reach(a, lk)
  BY ReachClosed, ReachLeast
<1> QED BY <1>1, <1>2

\* A message takes the place of those it links to.
LEMMA MessageAdded ==
  ASSUME NEW ids \in SUBSET Message, NEW whole \in SUBSET Message, NEW m \in Message,
         NEW lk \in [Message -> SUBSET Message], Reach(ids, lk) = Reach(whole, lk)
  PROVE  Reach((ids \ lk[m]) \cup {m}, lk) = Reach(whole \cup {m}, lk)
<1> DEFINE a == (ids \ lk[m]) \cup {m}
           b == whole \cup {m}
<1>1. /\ a \in SUBSET Message /\ b \in SUBSET Message
      /\ a \subseteq Reach(a, lk) /\ Closed(Reach(a, lk), lk)
      /\ b \subseteq Reach(b, lk) /\ Closed(Reach(b, lk), lk)
      /\ Reach(a, lk) \in SUBSET Message /\ Reach(b, lk) \in SUBSET Message
  BY ReachClosed
<1>2. lk[m] \subseteq Reach(a, lk)
  BY <1>1 DEF Closed
<1>3. ids \subseteq Reach(a, lk)
  BY <1>1, <1>2
<1>4. Reach(ids, lk) \subseteq Reach(a, lk)
  BY <1>1, <1>3, ReachLeast
<1>5. whole \subseteq Reach(a, lk)
  BY <1>4, ReachClosed
<1>6. whole \subseteq Reach(b, lk) /\ m \in Reach(b, lk)
  BY <1>1
<1>7. Reach(whole, lk) \subseteq Reach(b, lk)
  BY <1>1, <1>6, ReachLeast
<1>8. ids \subseteq Reach(b, lk)
  BY <1>7, ReachClosed
<1>9. a \subseteq Reach(b, lk) /\ b \subseteq Reach(a, lk)
  BY <1>1, <1>5, <1>6, <1>8
<1> HIDE DEF a, b
<1>10. Reach(a, lk) = Reach(b, lk)
  BY <1>1, <1>9, SameReach
<1> QED BY <1>10 DEF a, b

\* A new message changes nothing of what the ones before lead to.
LEMMA PublishedLater ==
  ASSUME NEW lk \in [Message -> SUBSET Message], NEW new \in [Message -> SUBSET Message],
         NEW old \in SUBSET Message, Closed(old, lk),
         \A m \in old : new[m] = lk[m],
         NEW ids \in SUBSET old
  PROVE  Reach(ids, new) = Reach(ids, lk)
<1>1. \A S \in SUBSET Message : Closed(S, lk) => Closed(S \cap old, new)
  BY DEF Closed
<1>2. \A S \in SUBSET Message : Closed(S, new) => Closed(S \cap old, lk)
  BY DEF Closed
<1>3. ASSUME NEW m \in Reach(ids, lk) PROVE m \in Reach(ids, new)
  <2>1. ASSUME NEW S \in SUBSET Message, ids \subseteq S, Closed(S, new) PROVE m \in S
    BY <1>2, <2>1 DEF Reach
  <2> QED BY <2>1 DEF Reach
<1>4. ASSUME NEW m \in Reach(ids, new) PROVE m \in Reach(ids, lk)
  <2>1. ASSUME NEW S \in SUBSET Message, ids \subseteq S, Closed(S, lk) PROVE m \in S
    BY <1>1, <2>1 DEF Reach
  <2> QED BY <2>1 DEF Reach
<1> QED BY <1>3, <1>4

-----------------------------------------------------------------------------
(* The bootstrap *)

AnswerType == [from : Nodes, to : Nodes, ids : SUBSET Message]

\* What a change of a goroutine must not do, when nothing else changes but the answers.
LEMMA BootKeeps ==
  ASSUME Inv, NEW n \in Nodes, NEW s \in Session, NEW b \in BootType, SetBoot(n, s, b),
         UNCHANGED <<storedVars, session, open, flag, live, ghostVars>>,
         answers' \subseteq AnswerType, \A r \in answers' : r.ids \subseteq 1..count,
         b.ids \subseteq 1..count, b.at = "store" => b.ids # {},
         b.at = boot[n][s].at \/ (boot[n][s].at # "none" /\ b.at # "flag")
  PROVE  Inv'
<1>1. boot \in [Nodes -> [Session -> BootType]]
  BY DEF Inv, TypeOK
<1>2. boot' \in [Nodes -> [Session -> BootType]]
  BY <1>1 DEF SetBoot
<1>3. /\ boot'[n][s] = b
      /\ \A k \in Nodes, t \in Session : k # n \/ t # s => boot'[k][t] = boot[k][t]
  BY <1>1 DEF SetBoot
<1>4. /\ UNCHANGED <<count, links, inbox, head, session, open, flag, live, got, base, cut>>
  BY DEF storedVars, ghostVars
<1>5. TypeOK'
  BY <1>2, <1>4 DEF Inv, TypeOK, AnswerType
<1>6. Order'
  <2>1. ASSUME NEW k \in Nodes, NEW t \in Session PROVE boot'[k][t].ids \subseteq 1..count
    BY <1>3 DEF Inv, Order
  <2> QED BY <1>4, <2>1 DEF Inv, Order
<1>7. ASSUME NEW k \in Nodes PROVE Fresh(k)'
  <2>1. ASSUME NEW t \in Session
        PROVE  /\ t > session[k] => boot'[k][t].at = "none"
               /\ boot'[k][t].at = "store" => boot'[k][t].ids # {}
    BY <1>3 DEF Inv, Fresh
  <2> QED BY <1>4, <2>1 DEF Inv, Fresh
<1>8. ASSUME NEW k \in Nodes PROVE Whole(k)'
  <2>1. open[k] /\ boot'[k][session[k]].at = "flag" => boot[k][session[k]].at = "flag"
    BY <1>3 DEF Inv, Fresh
  <2> QED BY <1>4, <2>1 DEF Inv, Whole
<1>9. ASSUME NEW k \in Nodes PROVE Leads(k)'
  BY <1>4 DEF Inv, Leads
<1> QED BY <1>5, <1>6, <1>7, <1>8, <1>9 DEF Inv

LEMMA BootIs ==
  ASSUME Inv, NEW n \in Nodes, NEW s \in Session
  PROVE  /\ boot[n][s] \in BootType /\ boot[n][s].ids \subseteq 1..count
         /\ boot[n][s].at = "store" => boot[n][s].ids # {}
         /\ answers \subseteq AnswerType /\ \A r \in answers : r.ids \subseteq 1..count
BY DEF Inv, TypeOK, Order, Fresh, AnswerType

LEMMA BootPeersKeeps ==
  ASSUME Inv, NEW n \in Nodes, NEW s \in Session, BootPeers(n, s)
  PROVE  Inv'
<1>1. At(n, s, "peers") /\ UNCHANGED <<storedVars, session, open, flag, live, answers, ghostVars>>
  BY DEF BootPeers
<1>2. CASE BootMove(n, s, "done")
  <2> DEFINE b == [boot[n][s] EXCEPT !.at = "done"]
  <2>1. b \in BootType /\ b.at = "done" /\ b.ids = boot[n][s].ids
    BY BootIs DEF BootType
  <2>2. SetBoot(n, s, b)
    BY <1>2 DEF BootMove
  <2> HIDE DEF b
  <2> QED BY <1>1, <2>1, <2>2, BootKeeps, BootIs DEF At
<1>3. CASE \E peers \in SUBSET Nodes :
             SetBoot(n, s, [at |-> "ask", asked |-> peers, waiting |-> peers, ids |-> {}])
  <2>1. PICK peers \in SUBSET Nodes :
          SetBoot(n, s, [at |-> "ask", asked |-> peers, waiting |-> peers, ids |-> {}])
    BY <1>3
  <2> DEFINE b == [at |-> "ask", asked |-> peers, waiting |-> peers, ids |-> {}]
  <2>2. b \in BootType /\ b.at = "ask" /\ b.ids = {}
    BY DEF BootType
  <2>3. SetBoot(n, s, b)
    BY <2>1
  <2> HIDE DEF b
  <2> QED BY <1>1, <2>2, <2>3, BootKeeps, BootIs DEF At
<1> QED BY <1>2, <1>3 DEF BootPeers

LEMMA AnswerKeeps ==
  ASSUME Inv, NEW n \in Nodes, NEW s \in Session, NEW p \in Nodes, Answer(p, n, s)
  PROVE  Inv'
<1> DEFINE b == [boot[n][s] EXCEPT !.asked = @ \ {p}]
           r == [from |-> p, to |-> n, ids |-> head[p]]
<1>1. /\ SetBoot(n, s, b) /\ answers' = answers \cup {r}
      /\ UNCHANGED <<storedVars, session, open, flag, live, ghostVars>>
  BY DEF Answer
<1>2. b \in BootType /\ b.at = boot[n][s].at /\ b.ids = boot[n][s].ids
  BY BootIs DEF BootType
<1>3. head[p] \subseteq 1..count /\ 1..count \subseteq Message
  BY BoundsAssumption DEF Inv, TypeOK, Message
<1>4. r \in AnswerType /\ r.ids \subseteq 1..count
  BY <1>3 DEF AnswerType
<1> HIDE DEF b, r
<1> QED BY <1>1, <1>2, <1>4, BootKeeps, BootIs

LEMMA BootWithout ==
  ASSUME NEW old \in BootType, NEW p
  PROVE  LET b == [old EXCEPT !.waiting = @ \ {p}, !.asked = @ \ {p}]
         IN  b \in BootType /\ b.at = old.at /\ b.ids = old.ids
BY DEF BootType

LEMMA BootDone ==
  ASSUME NEW old \in BootType
  PROVE  LET b == [old EXCEPT !.at = "done", !.ids = {}]
         IN  b \in BootType /\ b.at = "done" /\ b.ids = {}
BY DEF BootType

LEMMA BootStores ==
  ASSUME NEW old \in BootType
  PROVE  LET b == [old EXCEPT !.at = "store"]
         IN  b \in BootType /\ b.at = "store" /\ b.ids = old.ids
BY DEF BootType

LEMMA TimeoutKeeps ==
  ASSUME Inv, NEW n \in Nodes, NEW s \in Session, NEW p \in Nodes, Timeout(n, s, p)
  PROVE  Inv'
<1> DEFINE b == [boot[n][s] EXCEPT !.waiting = @ \ {p}, !.asked = @ \ {p}]
<1>1. SetBoot(n, s, b) /\ UNCHANGED <<storedVars, session, open, flag, live, answers, ghostVars>>
  BY DEF Timeout
<1>2. b \in BootType /\ b.at = boot[n][s].at /\ b.ids = boot[n][s].ids
  BY BootIs, BootWithout
<1> HIDE DEF b
<1> QED BY <1>1, <1>2, BootKeeps, BootIs

LEMMA BootCheckKeeps ==
  ASSUME Inv, NEW n \in Nodes, NEW s \in Session, BootCheck(n, s)
  PROVE  Inv'
<1> DEFINE b == [boot[n][s] EXCEPT !.at = "done", !.ids = {}]
           c == [boot[n][s] EXCEPT !.at = "store"]
<1>1. /\ boot[n][s].at = "ask" /\ UNCHANGED <<storedVars, session, open, flag, live, answers, ghostVars>>
      /\ SetBoot(n, s, b) \/ (boot[n][s].ids # {} /\ SetBoot(n, s, c))
  BY DEF BootCheck, At, BootEnd, BootMove
<1>2. /\ b \in BootType /\ b.at = "done" /\ b.ids = {}
      /\ c \in BootType /\ c.at = "store" /\ c.ids = boot[n][s].ids
  BY BootIs, BootDone, BootStores
<1> HIDE DEF b, c
<1> QED BY <1>1, <1>2, BootKeeps, BootIs

LEMMA AnsweredKeeps ==
  ASSUME Inv, NEW r \in answers, Answered(r)
  PROVE  Inv'
<1> DEFINE n == r.to
           heard == [s \in Session |-> Hear(boot[n][s], r)]
<1>1. /\ boot \in [Nodes -> [Session -> BootType]] /\ n \in Nodes
      /\ r.ids \in SUBSET Message /\ r.ids \subseteq 1..count
  BY DEF Inv, TypeOK, Order
<1>2. /\ answers' \subseteq answers /\ boot' = [boot EXCEPT ![n] = heard]
      /\ UNCHANGED <<count, links, inbox, head, session, open, flag, live, got, base, cut>>
  BY DEF Answered, storedVars, ghostVars
<1>3. ASSUME NEW s \in Session
      PROVE  /\ Hear(boot[n][s], r) \in BootType
             /\ Hear(boot[n][s], r).at = boot[n][s].at
             /\ boot[n][s].ids \subseteq Hear(boot[n][s], r).ids
             /\ Hear(boot[n][s], r).ids \subseteq 1..count
  <2>1. boot[n][s] \in BootType /\ boot[n][s].ids \subseteq 1..count
    BY <1>1, BootIs
  <2>2. PICK b \in BootType : b = boot[n][s] /\ b.ids \subseteq 1..count
    BY <2>1
  <2>3. /\ Hear(b, r) \in BootType /\ Hear(b, r).at = b.at
        /\ b.ids \subseteq Hear(b, r).ids /\ Hear(b, r).ids \subseteq 1..count
    BY <1>1, <2>2 DEF Hear, BootType
  <2> QED BY <2>2, <2>3
<1>4. heard \in [Session -> BootType] /\ \A s \in Session : heard[s] = Hear(boot[n][s], r)
  BY <1>3
<1> HIDE DEF heard
<1>5. /\ boot' \in [Nodes -> [Session -> BootType]] /\ boot'[n] = heard
      /\ \A k \in Nodes \ {n} : boot'[k] = boot[k]
  BY <1>1, <1>2, <1>4
<1>6. ASSUME NEW k \in Nodes, NEW s \in Session
      PROVE  /\ boot'[k][s].at = boot[k][s].at /\ boot'[k][s].ids \subseteq 1..count
             /\ boot[k][s].ids \subseteq boot'[k][s].ids
  <2>1. CASE k = n
    BY <1>3, <1>4, <1>5, <2>1
  <2>2. CASE k # n
    BY <1>5, <2>2, BootIs
  <2> QED BY <2>1, <2>2
<1>7. TypeOK'
  BY <1>2, <1>5 DEF Inv, TypeOK
<1>8. Order'
  BY <1>2, <1>6 DEF Inv, Order
<1>9. ASSUME NEW k \in Nodes PROVE Fresh(k)'
  BY <1>2, <1>6 DEF Inv, Fresh
<1>10. ASSUME NEW k \in Nodes PROVE Whole(k)'
  <2>1. open[k] => boot'[k][session[k]].at = boot[k][session[k]].at
    BY <1>6 DEF Inv, Fresh
  <2> QED BY <1>2, <2>1 DEF Inv, Whole
<1>11. ASSUME NEW k \in Nodes PROVE Leads(k)'
  BY <1>2 DEF Inv, Leads
<1> QED BY <1>7, <1>8, <1>9, <1>10, <1>11 DEF Inv

-----------------------------------------------------------------------------
(* The other actions *)

\* Nothing changes for a node.
Same(k) ==
  /\ head'[k] = head[k] /\ session'[k] = session[k] /\ open'[k] = open[k]
  /\ flag'[k] = flag[k] /\ live'[k] = live[k] /\ boot'[k] = boot[k]
  /\ got'[k] = got[k] /\ base'[k] = base[k] /\ cut'[k] = cut[k]

\* What is to be shown of an action of one node that publishes nothing.
LEMMA LocalKeeps ==
  ASSUME Inv, NEW n \in Nodes, UNCHANGED <<count, links, answers>>, TypeOK',
         \A k \in Nodes \ {n} : Same(k),
         got'[n] \subseteq 1..count, base'[n] \subseteq 1..count,
         \A s \in Session : boot'[n][s].ids \subseteq 1..count,
         Fresh(n)', Whole(n)', Leads(n)'
  PROVE  Inv'
<1>1. Order'
  <2>1. ASSUME NEW k \in Nodes
        PROVE  /\ got'[k] \subseteq 1..count /\ base'[k] \subseteq 1..count
               /\ \A s \in Session : boot'[k][s].ids \subseteq 1..count
    BY DEF Same, Inv, Order
  <2> QED BY <2>1 DEF Inv, Order
<1>2. ASSUME NEW k \in Nodes PROVE Fresh(k)' /\ Whole(k)' /\ Leads(k)'
  <2>1. CASE k # n
    <3>1. Same(k)
      BY <2>1
    <3>2. Fresh(k)'
      BY <3>1 DEF Inv, Same, Fresh
    <3>3. Whole(k)'
      BY <3>1 DEF Inv, Same, Whole
    <3>4. Leads(k)'
      BY <3>1 DEF Inv, Same, Leads
    <3> QED BY <3>2, <3>3, <3>4
  <2>2. CASE k = n
    BY <2>2
  <2> QED BY <2>1, <2>2
<1> QED BY <1>1, <1>2 DEF Inv

\* The types, as the proofs need them.
LEMMA Known ==
  ASSUME Inv
  PROVE  /\ count \in Nat /\ links \in [Message -> SUBSET Message] /\ 1..count \subseteq Message
         /\ head \in [Nodes -> SUBSET (1..count)] /\ inbox \in [Nodes -> SUBSET (1..count)]
         /\ session \in [Nodes -> 0..MaxOpens] /\ open \in [Nodes -> BOOLEAN]
         /\ flag \in [Nodes -> [Session -> BOOLEAN]] /\ live \in [Nodes -> SUBSET Session]
         /\ boot \in [Nodes -> [Session -> BootType]]
         /\ got \in [Nodes -> SUBSET Message] /\ base \in [Nodes -> SUBSET Message]
         /\ cut \in [Nodes -> BOOLEAN]
         /\ \A n \in Nodes : /\ got[n] \subseteq 1..count /\ base[n] \subseteq 1..count
                            /\ \A s \in Session : boot[n][s].ids \subseteq 1..count
         /\ \A n \in Nodes : Fresh(n) /\ Whole(n) /\ Leads(n)
BY BoundsAssumption DEF Inv, TypeOK, Order, Message

LEMMA OpenChannelKeeps ==
  ASSUME Inv, NEW n \in Nodes, OpenChannel(n)
  PROVE  Inv'
<1> DEFINE s == session[n] + 1
           b == [boot[n][s] EXCEPT !.at = "peers"]
<1>1. /\ ~open[n] /\ session[n] < MaxOpens /\ open' = [open EXCEPT ![n] = TRUE]
      /\ session' = [session EXCEPT ![n] = s] /\ boot' = [boot EXCEPT ![n][s] = b]
      /\ UNCHANGED <<count, links, inbox, head, flag, live, answers, got, base, cut>>
  BY Known DEF OpenChannel, BootMove, SetBoot, storedVars, ghostVars
<1>2. session[n] \in Nat /\ s \in Session /\ s > session[n] /\ s \in 0..MaxOpens
  BY <1>1, Known, BoundsAssumption DEF Session
<1>3. b \in BootType /\ b.at = "peers" /\ b.ids = boot[n][s].ids
  BY <1>2, BootIs DEF BootType
<1> HIDE DEF s, b
<1>4. /\ boot' \in [Nodes -> [Session -> BootType]] /\ boot'[n][s] = b
      /\ \A t \in Session \ {s} : boot'[n][t] = boot[n][t]
      /\ \A k \in Nodes \ {n} : boot'[k] = boot[k]
  BY <1>1, <1>2, <1>3, Known
<1>5. /\ open' \in [Nodes -> BOOLEAN] /\ session' \in [Nodes -> 0..MaxOpens]
      /\ open'[n] = TRUE /\ session'[n] = s
      /\ \A k \in Nodes \ {n} : open'[k] = open[k] /\ session'[k] = session[k]
  BY <1>1, <1>2, Known
<1>6. TypeOK'
  BY <1>1, <1>4, <1>5 DEF Inv, TypeOK
<1>7. \A k \in Nodes \ {n} : Same(k)
  BY <1>1, <1>4, <1>5 DEF Same
<1>8. \A t \in Session : boot'[n][t].ids \subseteq 1..count
  BY <1>3, <1>4, Known
<1>9. ASSUME NEW t \in Session, t > s
      PROVE  ~flag[n][t] /\ t \notin live[n] /\ boot'[n][t].at = "none"
  <2>1. t > session[n] /\ t # s
    BY <1>2, <1>9 DEF Session
  <2> QED BY <1>4, <2>1, Known DEF Fresh
<1>10. ASSUME NEW t \in Session, boot'[n][t].at = "store" PROVE boot'[n][t].ids # {}
  <2>1. t # s
    BY <1>3, <1>4, <1>10
  <2>2. boot'[n][t] = boot[n][t]
    BY <1>4, <2>1
  <2> QED BY <1>10, <2>2, BootIs
<1>11. Fresh(n)'
  BY <1>1, <1>2, <1>5, <1>9, <1>10 DEF Fresh
<1>12. got[n] = {} /\ base[n] = {} /\ ~cut[n] /\ ~flag[n][s] /\ s \notin live[n]
  BY <1>1, <1>2, Known DEF Fresh
<1>13. Whole(n)'
  BY <1>1, <1>3, <1>4, <1>5, <1>12 DEF Whole
<1>14. Leads(n)'
  BY <1>1, <1>12 DEF Leads
<1> QED BY <1>1, <1>6, <1>7, <1>8, <1>11, <1>13, <1>14, Known, LocalKeeps

LEMMA CloseChannelKeeps ==
  ASSUME Inv, NEW n \in Nodes, CloseChannel(n)
  PROVE  Inv'
<1>1. /\ open' = [open EXCEPT ![n] = FALSE] /\ inbox' = [inbox EXCEPT ![n] = {}]
      /\ got' = [got EXCEPT ![n] = {}] /\ base' = [base EXCEPT ![n] = {}]
      /\ cut' = [cut EXCEPT ![n] = FALSE]
      /\ UNCHANGED <<count, links, head, session, flag, live, boot, answers>>
  BY DEF CloseChannel, Remember
<1>2. TypeOK'
  BY <1>1 DEF Inv, TypeOK
<1>3. /\ open'[n] = FALSE /\ got'[n] = {} /\ base'[n] = {} /\ cut'[n] = FALSE
      /\ \A k \in Nodes \ {n} : Same(k)
  BY <1>1, Known DEF Same
<1>4. Fresh(n)'
  BY <1>1, <1>3, Known DEF Fresh
<1>5. Whole(n)' /\ Leads(n)'
  BY <1>3 DEF Whole, Leads
<1> QED BY <1>1, <1>2, <1>3, <1>4, <1>5, Known, LocalKeeps

LEMMA PublishKeeps ==
  ASSUME Inv, NEW n \in Nodes, Publish(n)
  PROVE  Inv'
<1> DEFINE m == count + 1
           old == 1..count
<1>1. /\ count < MaxMessages /\ count' = m /\ links' = [links EXCEPT ![m] = head[n]]
      /\ inbox' = [p \in Nodes |-> IF open[p] THEN inbox[p] \cup {m} ELSE inbox[p]]
      /\ UNCHANGED <<head, session, open, flag, live, boot, answers, got, base, cut>>
  BY DEF Publish, ghostVars
<1>2. /\ m \in Message /\ m \in 1..count' /\ old \subseteq 1..count' /\ count' \in 0..MaxMessages
      /\ 1..(m - 1) = old /\ m \notin old /\ 1..count' \subseteq Message
  BY <1>1, Known, BoundsAssumption DEF Message
<1>3. /\ links \in [Message -> SUBSET Message] /\ head \in [Nodes -> SUBSET old] /\ old \subseteq Message
      /\ inbox \in [Nodes -> SUBSET old] /\ \A k \in Nodes : got[k] \subseteq old /\ base[k] \subseteq old
  BY Known
<1>4. \A l \in Message : links[l] \subseteq 1..(l - 1)
  BY DEF Inv, Order
<1>5. Closed(old, links)
  <2>1. ASSUME NEW l \in old PROVE 1..(l - 1) \subseteq old
    BY <1>3, Known
  <2> QED BY <1>3, <1>4, <2>1 DEF Closed
<1> HIDE DEF m, old
<1>6. /\ links' \in [Message -> SUBSET Message] /\ links'[m] = head[n]
      /\ \A l \in Message \ {m} : links'[l] = links[l]
  BY <1>1, <1>2, <1>3
<1>7. TypeOK'
  <2>1. inbox' \in [Nodes -> SUBSET (1..count')]
    BY <1>1, <1>2, <1>3
  <2>2. head' \in [Nodes -> SUBSET (1..count')]
    BY <1>1, <1>2, <1>3
  <2>3. \A k \in Nodes : ~open'[k] => inbox'[k] = {}
    BY <1>1 DEF Inv, TypeOK
  <2> QED BY <1>1, <1>2, <1>6, <2>1, <2>2, <2>3 DEF Inv, TypeOK
<1>8. Order'
  <2>1. \A l \in Message : links'[l] \subseteq 1..(l - 1)
    BY <1>2, <1>3, <1>4, <1>6
  <2>2. \A S : S \subseteq old => S \subseteq 1..count'
    BY <1>2
  <2>3. Order
    BY DEF Inv
  <2> QED BY <1>1, <2>1, <2>2, <2>3 DEF Order, old
<1>9. ASSUME NEW k \in Nodes PROVE Fresh(k)' /\ Whole(k)'
  BY <1>1, Known DEF Fresh, Whole
<1>10. ASSUME NEW k \in Nodes PROVE Leads(k)'
  <2>1. \A ids \in SUBSET old : Reach(ids, links') = Reach(ids, links)
    BY <1>2, <1>3, <1>5, <1>6, PublishedLater
  <2>2. head[k] \in SUBSET old /\ got[k] \cup base[k] \in SUBSET old
    BY <1>3
  <2>3. /\ Reach(head[k], links') = Reach(head[k], links)
        /\ Reach(got[k] \cup base[k], links') = Reach(got[k] \cup base[k], links)
    BY <2>1, <2>2
  <2> QED BY <1>1, <2>3, Known DEF Leads
<1> QED BY <1>7, <1>8, <1>9, <1>10 DEF Inv

LEMMA ReceivedKeeps ==
  ASSUME Inv, NEW n \in Nodes, NEW s \in Session, Received(n, s)
  PROVE  Inv'
<1>1. /\ s \in live[n] /\ live' = [live EXCEPT ![n] = live[n] \ {s}]
      /\ flag' = [flag EXCEPT ![n][s] = TRUE]
      /\ UNCHANGED <<count, links, inbox, head, session, open, boot, answers, got, base, cut>>
  BY DEF Received, SetFlag, storedVars, ghostVars
<1>2. flag' \in [Nodes -> [Session -> BOOLEAN]] /\ live' \in [Nodes -> SUBSET Session]
  BY <1>1, Known
<1>3. TypeOK'
  BY <1>1, <1>2 DEF Inv, TypeOK
<1>4. /\ flag'[n][s] /\ live'[n] = live[n] \ {s}
      /\ \A t \in Session \ {s} : flag'[n][t] = flag[n][t]
      /\ \A k \in Nodes \ {n} : Same(k)
  BY <1>1, Known DEF Same
<1>5. ASSUME NEW t \in Session, t > session[n]
      PROVE  t # s /\ ~flag[n][t] /\ t \notin live[n] /\ boot[n][t].at = "none"
  BY <1>1, <1>5, Known DEF Fresh
<1>6. Fresh(n)'
  BY <1>1, <1>4, <1>5, Known DEF Fresh
<1>7. Whole(n)'
  <2>1. CASE session[n] = s
    BY <1>1, <1>4, <2>1, Known DEF Whole
  <2>2. CASE session[n] # s
    <3>1. open[n] => flag'[n][session[n]] = flag[n][session[n]]
      BY <1>4, <2>2, Known DEF Fresh
    <3> QED BY <1>1, <1>4, <2>2, <3>1, Known DEF Whole
  <2> QED BY <2>1, <2>2
<1>8. Leads(n)'
  BY <1>1, Known DEF Leads
<1> QED BY <1>1, <1>3, <1>4, <1>6, <1>7, <1>8, Known, LocalKeeps

LEMMA BootFlagKeeps ==
  ASSUME Inv, NEW n \in Nodes, NEW s \in Session, BootFlag(n, s)
  PROVE  Inv'
<1> DEFINE b == [boot[n][s] EXCEPT !.at = "done", !.ids = {}]
<1>1. /\ boot[n][s].at = "flag" /\ boot' = [boot EXCEPT ![n][s] = b]
      /\ flag' = [flag EXCEPT ![n][s] = TRUE]
      /\ UNCHANGED <<count, links, inbox, head, session, open, live, answers, got, base, cut>>
  BY DEF BootFlag, At, BootEnd, SetBoot, SetFlag, storedVars, ghostVars
<1>2. b \in BootType /\ b.at = "done" /\ b.ids = {}
  BY BootIs, BootDone
<1> HIDE DEF b
<1>3. flag' \in [Nodes -> [Session -> BOOLEAN]] /\ boot' \in [Nodes -> [Session -> BootType]]
  BY <1>1, <1>2, Known
<1>4. TypeOK'
  BY <1>1, <1>3 DEF Inv, TypeOK
<1>5. /\ flag'[n][s] /\ boot'[n][s] = b
      /\ \A t \in Session \ {s} : flag'[n][t] = flag[n][t] /\ boot'[n][t] = boot[n][t]
      /\ \A k \in Nodes \ {n} : Same(k)
  BY <1>1, <1>2, Known DEF Same
<1>6. \A t \in Session : boot'[n][t].ids \subseteq 1..count
  BY <1>2, <1>5, Known
<1>7. ASSUME NEW t \in Session
      PROVE  /\ t > session[n] => t # s /\ ~flag[n][t] /\ t \notin live[n] /\ boot[n][t].at = "none"
             /\ boot[n][t].at = "store" => t # s /\ boot[n][t].ids # {}
  BY <1>1, Known DEF Fresh
<1>8. ASSUME NEW t \in Session
      PROVE  /\ t > session[n] => ~flag'[n][t] /\ t \notin live[n] /\ boot'[n][t].at = "none"
             /\ boot'[n][t].at = "store" => boot'[n][t].ids # {}
  BY <1>2, <1>5, <1>7
<1>9. Fresh(n)'
  BY <1>1, <1>8, Known DEF Fresh
<1>10. Whole(n)'
  <2>1. CASE session[n] = s
    BY <1>1, <1>2, <1>5, <2>1, Known DEF Whole
  <2>2. CASE session[n] # s
    <3>1. open[n] => flag'[n][session[n]] = flag[n][session[n]] /\ boot'[n][session[n]] = boot[n][session[n]]
      BY <1>5, <2>2, Known DEF Fresh
    <3> QED BY <1>1, <2>2, <3>1, Known DEF Whole
  <2> QED BY <2>1, <2>2
<1>11. Leads(n)'
  BY <1>1, Known DEF Leads
<1> QED BY <1>1, <1>4, <1>5, <1>6, <1>9, <1>10, <1>11, Known, LocalKeeps

LEMMA BootStoreKeeps ==
  ASSUME Inv, NEW n \in Nodes, NEW s \in Session, BootStore(n, s)
  PROVE  Inv'
<1> DEFINE b == [boot[n][s] EXCEPT !.at = "flag"]
           ids == boot[n][s].ids
           isCut == cut[n] \/ base[n] # {} \/ got[n] # {}
<1>1. /\ boot[n][s].at = "store" /\ boot' = [boot EXCEPT ![n][s] = b] /\ head' = [head EXCEPT ![n] = ids]
      /\ UNCHANGED <<count, links, inbox, session, open, flag, live, answers>>
  BY DEF BootStore, At, BootMove, SetBoot, SetHead
<1>2. \/ /\ open[n]
         /\ got' = [got EXCEPT ![n] = IF isCut THEN {} ELSE got[n]]
         /\ base' = [base EXCEPT ![n] = IF isCut THEN {} ELSE ids]
         /\ cut' = [cut EXCEPT ![n] = isCut]
      \/ ~open[n] /\ UNCHANGED <<got, base, cut>>
  BY Known DEF BootStore, Remember, ghostVars
<1>3. /\ b \in BootType /\ b.at = "flag" /\ b.ids = ids
      /\ ids \subseteq 1..count /\ ids # {} /\ ids \subseteq Message
  BY <1>1, BootIs DEF BootType
<1>4. isCut \in BOOLEAN
  BY Known
<1> HIDE DEF b, ids, isCut
<1>5. /\ head' \in [Nodes -> SUBSET (1..count)] /\ boot' \in [Nodes -> [Session -> BootType]]
      /\ got' \in [Nodes -> SUBSET Message] /\ base' \in [Nodes -> SUBSET Message]
      /\ cut' \in [Nodes -> BOOLEAN]
  <2>1. head' \in [Nodes -> SUBSET (1..count)] /\ boot' \in [Nodes -> [Session -> BootType]]
    BY <1>1, <1>3, Known
  <2>2. got' \in [Nodes -> SUBSET Message] /\ base' \in [Nodes -> SUBSET Message]
    BY <1>2, <1>3, Known
  <2>3. cut' \in [Nodes -> BOOLEAN]
    BY <1>2, <1>4, Known
  <2> QED BY <2>1, <2>2, <2>3
<1>6. TypeOK'
  BY <1>1, <1>5 DEF Inv, TypeOK
<1>7. /\ head'[n] = ids /\ boot'[n][s] = b
      /\ \A t \in Session \ {s} : boot'[n][t] = boot[n][t]
      /\ \A k \in Nodes \ {n} : Same(k)
  BY <1>1, <1>2, <1>3, Known DEF Same
<1>8. \/ open[n] /\ isCut /\ got'[n] = {} /\ base'[n] = {} /\ cut'[n]
      \/ open[n] /\ ~isCut /\ got'[n] = got[n] /\ base'[n] = ids /\ cut'[n] = FALSE
      \/ ~open[n] /\ got'[n] = got[n] /\ base'[n] = base[n] /\ cut'[n] = cut[n]
  BY <1>2, <1>4, Known
<1>9. got'[n] \subseteq 1..count /\ base'[n] \subseteq 1..count
  BY <1>3, <1>8, Known
<1>10. \A t \in Session : boot'[n][t].ids \subseteq 1..count
  BY <1>3, <1>7, Known
<1>11. ASSUME NEW t \in Session
      PROVE  /\ t > session[n] => t # s /\ ~flag[n][t] /\ t \notin live[n] /\ boot'[n][t].at = "none"
             /\ boot'[n][t].at = "store" => boot'[n][t].ids # {}
  <2>1. CASE t = s
    BY <1>1, <1>3, <1>7, <2>1, Known DEF Fresh
  <2>2. CASE t # s
    BY <1>7, <2>2, Known DEF Fresh
  <2> QED BY <2>1, <2>2
<1>12. Fresh(n)'
  BY <1>1, <1>8, <1>11, Known DEF Fresh
<1>13. CASE open[n] /\ ~isCut
  <2>1. got[n] = {} /\ base[n] = {} /\ ~cut[n]
    BY <1>13 DEF isCut
  <2>2. got'[n] = {} /\ base'[n] = ids
    BY <1>8, <1>13, <2>1
  <2>3. session[n] \notin live[n]
    BY <1>13, <2>1, Known DEF Whole
  <2>4. Whole(n)'
    BY <1>1, <1>3, <2>2, <2>3 DEF Whole
  <2>5. Leads(n)'
    BY <1>7, <2>2 DEF Leads
  <2> QED BY <1>1, <1>6, <1>7, <1>9, <1>10, <1>12, <2>4, <2>5, LocalKeeps
<1>14. CASE ~open[n] \/ isCut
  <2>1. Whole(n)' /\ Leads(n)'
    BY <1>1, <1>8, <1>14 DEF Whole, Leads
  <2> QED BY <1>1, <1>6, <1>7, <1>9, <1>10, <1>12, <2>1, LocalKeeps
<1> QED BY <1>13, <1>14

LEMMA ReceiveKeeps ==
  ASSUME Inv, NEW n \in Nodes, NEW m \in Message, Receive(n, m)
  PROVE  Inv'
<1> DEFINE s == session[n]
           isCut == \/ cut[n]
                    \/ flag[n][s] /\ Cardinality(head[n] \ links[m]) >= HeadLimit
                    \/ ~flag[n][s] /\ base[n] # {}
<1>1. /\ open[n] /\ s \notin live[n] /\ m \in inbox[n]
      /\ inbox' = [inbox EXCEPT ![n] = inbox[n] \ {m}]
      /\ live' = [live EXCEPT ![n] = live[n] \cup {s}]
      /\ got' = [got EXCEPT ![n] = IF isCut THEN {} ELSE got[n] \cup {m}]
      /\ base' = [base EXCEPT ![n] = IF isCut THEN {} ELSE base[n]]
      /\ cut' = [cut EXCEPT ![n] = isCut]
      /\ UNCHANGED <<count, links, session, open, flag, boot, answers>>
  BY DEF Receive, Remember
<1>2. PICK ids \in IF flag[n][s] THEN UpdatedHead(head[n], m) ELSE {{m}} : head' = [head EXCEPT ![n] = ids]
  BY DEF Receive, SetHead
<1>3. s \in Session /\ m \in 1..count /\ head[n] \subseteq 1..count
  BY <1>1, Known DEF Fresh
<1>4. ids \subseteq 1..count
  BY <1>2, <1>3 DEF UpdatedHead
<1>5. isCut \in BOOLEAN
  BY Known
<1>6. flag[n][s] /\ ~isCut => ids = (head[n] \ links[m]) \cup {m}
  <2> SUFFICES ASSUME flag[n][s], ~isCut PROVE ids = (head[n] \ links[m]) \cup {m}
    OBVIOUS
  <2>1. ~(Cardinality(head[n] \ links[m]) >= HeadLimit)
    OBVIOUS
  <2>2. IsFiniteSet(head[n] \ links[m])
    <3>1. count \in Int /\ head[n] \ links[m] \subseteq 1..count
      BY <1>3, Known
    <3>2. IsFiniteSet(1..count)
      BY <3>1, FS_Interval
    <3> QED BY <3>1, <3>2, FS_Subset
  <2>3. Cardinality(head[n] \ links[m]) < HeadLimit
    BY <2>1, <2>2, FS_CardinalityType, LimitAssumption
  <2> QED BY <1>2, <2>3 DEF UpdatedHead
<1>7. ~flag[n][s] => ids = {m}
  BY <1>2
<1>8. ~isCut => ~cut[n] /\ (~flag[n][s] => base[n] = {})
  OBVIOUS
<1> HIDE DEF isCut, s
<1>9. /\ head' \in [Nodes -> SUBSET (1..count)] /\ inbox' \in [Nodes -> SUBSET (1..count)]
      /\ live' \in [Nodes -> SUBSET Session]
      /\ got' \in [Nodes -> SUBSET Message] /\ base' \in [Nodes -> SUBSET Message]
      /\ cut' \in [Nodes -> BOOLEAN]
  <2>1. /\ head' \in [Nodes -> SUBSET (1..count)] /\ inbox' \in [Nodes -> SUBSET (1..count)]
        /\ live' \in [Nodes -> SUBSET Session]
    BY <1>1, <1>2, <1>3, <1>4, Known
  <2>2. got' \in [Nodes -> SUBSET Message] /\ base' \in [Nodes -> SUBSET Message]
    BY <1>1, Known
  <2>3. cut' \in [Nodes -> BOOLEAN]
    BY <1>1, <1>5, Known
  <2> QED BY <2>1, <2>2, <2>3
<1>10. TypeOK'
  <2>1. \A k \in Nodes : ~open[k] => inbox'[k] = {}
    BY <1>1, Known DEF Inv, TypeOK
  <2> QED BY <1>1, <1>9, <2>1 DEF Inv, TypeOK
<1>11. /\ head'[n] = ids /\ live'[n] = live[n] \cup {s}
       /\ isCut => got'[n] = {} /\ base'[n] = {} /\ cut'[n]
       /\ ~isCut => got'[n] = got[n] \cup {m} /\ base'[n] = base[n] /\ cut'[n] = FALSE
       /\ \A k \in Nodes \ {n} : Same(k)
  BY <1>1, <1>2, <1>5, Known DEF Same
<1>12. got'[n] \subseteq 1..count /\ base'[n] \subseteq 1..count
  BY <1>3, <1>11, Known
<1>13. ASSUME NEW t \in Session, t > session[n]
      PROVE  ~flag[n][t] /\ t \notin live'[n] /\ boot[n][t].at = "none"
  <2>1. t # s
    BY <1>3, <1>13 DEF s, Session
  <2> QED BY <1>11, <1>13, <2>1, Known DEF Fresh
<1>14. Fresh(n)'
  BY <1>1, <1>13, Known DEF Fresh
<1>15. CASE isCut
  <2>1. Whole(n)' /\ Leads(n)'
    BY <1>11, <1>15 DEF Whole, Leads
  <2> QED BY <1>1, <1>10, <1>11, <1>12, <1>14, <2>1, Known, LocalKeeps
<1>16. CASE ~isCut
  <2>1. Whole(n) /\ Leads(n) /\ open[n] /\ ~cut[n]
    BY <1>1, <1>8, <1>16, Known
  <2>2. Whole(n)'
    <3>1. boot[n][session[n]].at = "flag" => base[n] # {}
      BY <2>1 DEF Whole
    <3> QED BY <1>1, <1>11, <1>16, <3>1 DEF Whole, s
  <2>3. ASSUME flag[n][s] PROVE Leads(n)'
    <3>1. Reach(head[n], links) = Reach(got[n] \cup base[n], links)
      BY <2>1, <2>3 DEF Whole, Leads, s
    <3>2. Reach((head[n] \ links[m]) \cup {m}, links) = Reach((got[n] \cup base[n]) \cup {m}, links)
      <4>1. /\ head[n] \in SUBSET Message /\ got[n] \cup base[n] \in SUBSET Message
            /\ links \in [Message -> SUBSET Message]
        BY <1>3, Known
      <4> QED BY <3>1, <4>1, MessageAdded
    <3>3. /\ head'[n] = (head[n] \ links[m]) \cup {m}
          /\ got'[n] \cup base'[n] = (got[n] \cup base[n]) \cup {m}
      BY <1>6, <1>11, <1>16, <2>3
    <3> QED BY <1>1, <3>2, <3>3 DEF Leads
  <2>4. ASSUME ~flag[n][s] PROVE Leads(n)'
    <3>1. got[n] = {} /\ base[n] = {}
      BY <1>1, <1>8, <1>16, <2>1, <2>4 DEF Whole, s
    <3>2. head'[n] = {m} /\ got'[n] \cup base'[n] = {m}
      BY <1>7, <1>11, <1>16, <2>4, <3>1
    <3> QED BY <3>2 DEF Leads
  <2>5. Leads(n)'
    BY <2>3, <2>4
  <2> QED BY <1>1, <1>10, <1>11, <1>12, <1>14, <2>2, <2>5, Known, LocalKeeps
<1> QED BY <1>15, <1>16

-----------------------------------------------------------------------------
(* The theorems *)

LEMMA InitInv == Init => Inv
<1> SUFFICES ASSUME Init PROVE Inv
  OBVIOUS
<1>1. /\ count = 0 /\ links = [m \in Message |-> {}] /\ inbox = [n \in Nodes |-> {}]
      /\ head = [n \in Nodes |-> {}] /\ session = [n \in Nodes |-> 0] /\ open = [n \in Nodes |-> FALSE]
      /\ flag = [n \in Nodes |-> [s \in Session |-> FALSE]] /\ live = [n \in Nodes |-> {}]
      /\ boot = [n \in Nodes |-> [s \in Session |-> NoBoot]] /\ answers = {}
      /\ got = [n \in Nodes |-> {}] /\ base = [n \in Nodes |-> {}] /\ cut = [n \in Nodes |-> FALSE]
  BY DEF Init
<1>2. NoBoot \in BootType /\ NoBoot.at = "none" /\ NoBoot.ids = {}
  BY DEF NoBoot, BootType
<1>3. count \in 0..MaxMessages /\ session \in [Nodes -> 0..MaxOpens]
  BY <1>1, BoundsAssumption
<1>4. TypeOK
  BY <1>1, <1>2, <1>3 DEF TypeOK
<1>5. Order
  BY <1>1, <1>2 DEF Order
<1>6. ASSUME NEW n \in Nodes PROVE Fresh(n) /\ Whole(n) /\ Leads(n)
  BY <1>1, <1>2 DEF Fresh, Whole, Leads
<1> QED BY <1>4, <1>5, <1>6 DEF Inv

LEMMA NextInv == Inv /\ [Next]_vars => Inv'
<1> SUFFICES ASSUME Inv, [Next]_vars PROVE Inv'
  OBVIOUS
<1>1. CASE UNCHANGED vars
  <2>1. UNCHANGED <<count, links, inbox, head, session, open, flag, live, boot, answers, got, base, cut>>
    BY <1>1 DEF vars, storedVars, ghostVars
  <2> QED BY <2>1 DEF Inv, TypeOK, Order, Fresh, Whole, Leads
<1>2. CASE Next
  BY <1>2, OpenChannelKeeps, CloseChannelKeeps, PublishKeeps, ReceiveKeeps, BootPeersKeeps, BootCheckKeeps,
     BootStoreKeeps, BootFlagKeeps, ReceivedKeeps, AnswerKeeps, TimeoutKeeps, AnsweredKeeps DEF Next
<1> QED BY <1>1, <1>2

LEMMA Invariance == Spec => []Inv
BY InitInv, NextInv, PTL DEF Spec

\* Every variable has its type: heads and what is under way to a node are messages that
\* were published, and a closed channel has nothing to receive.
THEOREM TypeCorrect == Spec => []TypeOK
<1>1. Inv => TypeOK
  BY DEF Inv
<1> QED BY <1>1, Invariance, PTL

\* For any number of nodes, messages and times that the channel is opened, and in any
\* order in which messages, answers and restarts overtake each other, the head leads to
\* just what the session received and was bootstrapped with, unless it was cut or
\* overwritten.
THEOREM HeadLeadsToHistory == Spec => []HeadHasHistory
<1>1. \A ids : Messages(ids) = Reach(ids, links)
  BY DEF Messages, Reach, Closed
<1>2. Inv => HeadHasHistory
  <2> SUFFICES ASSUME Inv, NEW n \in Nodes, open[n], ~cut[n], got[n] # {}
               PROVE  Messages(head[n]) = Messages(got[n] \cup base[n])
    BY DEF HeadHasHistory
  <2>1. Reach(head[n], links) = Reach(got[n] \cup base[n], links)
    BY Known DEF Leads
  <2> QED BY <1>1, <2>1
<1> QED BY <1>2, Invariance, PTL
=============================================================================
