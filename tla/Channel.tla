------------------------------ MODULE Channel ------------------------------
(***************************************************************************)
(* A chat channel (channels/channel.go, core/channels.go): messages are    *)
(* broadcast over pubsub, each with links to the messages its author held  *)
(* for the latest, the head, so that the history can be loaded backwards.  *)
(* A node that opens the channel asks other nodes for their heads, while   *)
(* live messages already arrive.                                           *)
(***************************************************************************)
EXTENDS Integers, FiniteSets

CONSTANTS Nodes,
          HeadLimit,          \* UpdateHead cuts a head of this size (49)
          MaxBootstrapPeers,  \* nodes asked (maxBootstrapPeers)
          MaxMessages,        \* bound: messages published
          MaxOpens            \* bound: times a node opens the channel

ASSUME LimitAssumption == HeadLimit \in Nat \ {0} /\ MaxBootstrapPeers \in Nat \ {0}

ASSUME BoundsAssumption == MaxMessages \in Nat /\ MaxOpens \in Nat

Message == 1..MaxMessages

Session == 1..MaxOpens

VARIABLES
  count,      \* messages published
  links,      \* the links of each message
  inbox,      \* messages pubsub has still to bring to a node
  head,       \* the stored head of each node; {} when there is no record
  session,    \* how often a node has opened the channel
  open,       \* whether it is open
  flag,       \* "boostrapped", for each time the channel was opened
  live,       \* times the channel was opened whose loop stored a message and has
              \* the flag still to set
  boot,       \* bootstrapState, a goroutine for each time, which no close ends
  answers,    \* CHANNEL_RESPONSEs under way
  got, base,  \* live messages of this session; what its bootstrap stored
  cut         \* the head of this session gave way to another, or lost ids

storedVars == <<count, links, inbox, head>>
ghostVars == <<got, base, cut>>
vars == <<storedVars, session, open, flag, live, boot, answers, ghostVars>>

NoBoot == [at |-> "none", asked |-> {}, waiting |-> {}, ids |-> {}]

Init ==
  /\ count = 0 /\ links = [m \in Message |-> {}] /\ inbox = [n \in Nodes |-> {}]
  /\ head = [n \in Nodes |-> {}]
  /\ session = [n \in Nodes |-> 0] /\ open = [n \in Nodes |-> FALSE]
  /\ flag = [n \in Nodes |-> [s \in Session |-> FALSE]]
  /\ live = [n \in Nodes |-> {}]
  /\ boot = [n \in Nodes |-> [s \in Session |-> NoBoot]]
  /\ answers = {}
  /\ got = [n \in Nodes |-> {}] /\ base = [n \in Nodes |-> {}]
  /\ cut = [n \in Nodes |-> FALSE]

SetFlag(n, s) == flag' = [flag EXCEPT ![n][s] = TRUE]

SetHead(n, ids) == head' = [head EXCEPT ![n] = ids]

SetBoot(n, s, b) == boot' = [boot EXCEPT ![n][s] = b]

BootMove(n, s, place) == SetBoot(n, s, [boot[n][s] EXCEPT !.at = place])

\* What the property remembers of a session, nothing any more once the head is cut.
Remember(n, messages, stored, isCut) ==
  /\ got' = [got EXCEPT ![n] = IF isCut THEN {} ELSE messages]
  /\ base' = [base EXCEPT ![n] = IF isCut THEN {} ELSE stored]
  /\ cut' = [cut EXCEPT ![n] = isCut]

-----------------------------------------------------------------------------
(* Opening and closing *)

OpenChannel(n) ==
  /\ ~open[n] /\ session[n] < MaxOpens
  /\ open' = [open EXCEPT ![n] = TRUE] /\ session' = [session EXCEPT ![n] = @ + 1]
  /\ BootMove(n, session[n] + 1, "peers")
  /\ UNCHANGED <<storedVars, flag, live, answers, ghostVars>>

\* The subscription ends, and the bootstrap goes on.
CloseChannel(n) ==
  /\ open[n] /\ open' = [open EXCEPT ![n] = FALSE] /\ inbox' = [inbox EXCEPT ![n] = {}]
  /\ Remember(n, {}, {}, FALSE)
  /\ UNCHANGED <<count, links, head, session, flag, live, boot, answers>>

-----------------------------------------------------------------------------
(* Live messages *)

\* Mutant: nodes that closed the channel are still subscribed.
PublishToAll(n) ==
  /\ open[n] /\ count < MaxMessages
  /\ count' = count + 1
  /\ links' = [links EXCEPT ![count + 1] = head[n]]
  /\ inbox' = [p \in Nodes |-> inbox[p] \cup {count + 1}]
  /\ UNCHANGED <<head, session, open, flag, live, boot, answers, ghostVars>>

\* The message links to the author's head. Pubsub has it for all who are subscribed,
\* the author too; one that it loses is one that a node never comes to receive.
Publish(n) ==
  /\ open[n] /\ count < MaxMessages
  /\ count' = count + 1
  /\ links' = [links EXCEPT ![count + 1] = head[n]]
  /\ inbox' = [p \in Nodes |-> IF open[p] THEN inbox[p] \cup {count + 1} ELSE inbox[p]]
  /\ UNCHANGED <<head, session, open, flag, live, boot, answers, ghostVars>>

\* Mutant: the whole head gives way to a message that links to any of it.
UpdatedHeadAll(ids, m) ==
  IF ids \cap links[m] # {} THEN {{m}} ELSE {ids \cup {m}}

\* The message takes the place of those it links to. From HeadLimit on only one of
\* the others is kept: the loop that adds them tests the size of the whole map.
UpdatedHead(ids, m) ==
  LET rest == ids \ links[m]
  IN  IF Cardinality(rest) < HeadLimit THEN {rest \cup {m}} ELSE {{id, m} : id \in rest}

\* A live message is stored and added to the head, or becomes the head while the
\* channel is not bootstrapped ...
Receive(n, m) ==
  LET s == session[n] IN
  /\ open[n] /\ s \notin live[n] /\ m \in inbox[n]
  /\ inbox' = [inbox EXCEPT ![n] = @ \ {m}]
  /\ \E ids \in IF flag[n][s] THEN UpdatedHead(head[n], m) ELSE {{m}} : SetHead(n, ids)
  /\ live' = [live EXCEPT ![n] = @ \cup {s}]
  /\ Remember(n, got[n] \cup {m}, base[n],
              \/ cut[n]
              \/ flag[n][s] /\ Cardinality(head[n] \ links[m]) >= HeadLimit
              \/ ~flag[n][s] /\ base[n] # {})
  /\ UNCHANGED <<count, links, session, open, flag, boot, answers>>

\* ... and after the update the flag is set.
Received(n, s) ==
  /\ s \in live[n] /\ live' = [live EXCEPT ![n] = @ \ {s}]
  /\ SetFlag(n, s)
  /\ UNCHANGED <<storedVars, session, open, boot, answers, ghostVars>>

-----------------------------------------------------------------------------
(* Bootstrap *)

At(n, s, place) == boot[n][s].at = place

\* The requests that are under way are answered all the same.
BootEnd(n, s) == SetBoot(n, s, [boot[n][s] EXCEPT !.at = "done", !.ids = {}])

\* Every four seconds, until other nodes are subscribed.
BootPeers(n, s) ==
  /\ At(n, s, "peers")
  /\ IF flag[n][s] THEN BootMove(n, s, "done")
     ELSE \E peers \in SUBSET {p \in Nodes \ {n} : open[p]} \ {{}} :
            /\ Cardinality(peers) <= MaxBootstrapPeers
            /\ SetBoot(n, s, [at |-> "ask", asked |-> peers, waiting |-> peers, ids |-> {}])
  /\ UNCHANGED <<storedVars, session, open, flag, live, answers, ghostVars>>

\* handleChannelRequest: no answer without a record.
Answer(p, n, s) ==
  /\ p \in boot[n][s].asked /\ SetBoot(n, s, [boot[n][s] EXCEPT !.asked = @ \ {p}])
  /\ head[p] # {} /\ answers' = answers \cup {[from |-> p, to |-> n, ids |-> head[p]]}
  /\ UNCHANGED <<storedVars, session, open, flag, live, ghostVars>>

Hear(b, r) ==
  IF r.from \in b.waiting THEN [b EXCEPT !.waiting = @ \ {r.from}, !.ids = @ \cup r.ids] ELSE b

\* handleChannelResponse: the event reaches every goroutine that waits for the peer.
Answered(r) ==
  /\ r \in answers /\ answers' = answers \ {r}
  /\ boot' = [boot EXCEPT ![r.to] = [s \in Session |-> Hear(boot[r.to][s], r)]]
  /\ UNCHANGED <<storedVars, session, open, flag, live, ghostVars>>

\* After ten seconds, or when the request cannot be sent; an answer that comes
\* before the goroutine has subscribed to it is not heard either.
Timeout(n, s, p) ==
  /\ p \in boot[n][s].waiting
  /\ SetBoot(n, s, [boot[n][s] EXCEPT !.waiting = @ \ {p}, !.asked = @ \ {p}])
  /\ UNCHANGED <<storedVars, session, open, flag, live, answers, ghostVars>>

\* Without ids the channel stays as it is, not bootstrapped, and nobody tries again.
BootCheck(n, s) ==
  /\ At(n, s, "ask") /\ boot[n][s].waiting = {}
  /\ IF flag[n][s] \/ boot[n][s].ids = {} THEN BootEnd(n, s) ELSE BootMove(n, s, "store")
  /\ UNCHANGED <<storedVars, session, open, flag, live, answers, ghostVars>>

BootStore(n, s) ==
  /\ At(n, s, "store") /\ BootMove(n, s, "flag")
  /\ SetHead(n, boot[n][s].ids)
  /\ IF open[n] THEN Remember(n, got[n], boot[n][s].ids, cut[n] \/ base[n] # {} \/ got[n] # {})
     ELSE UNCHANGED ghostVars
  /\ UNCHANGED <<count, links, inbox, session, open, flag, live, answers>>

BootFlag(n, s) ==
  /\ At(n, s, "flag") /\ BootEnd(n, s)
  /\ SetFlag(n, s)
  /\ UNCHANGED <<storedVars, session, open, live, answers, ghostVars>>

Next ==
  \/ \E n \in Nodes :
       \/ OpenChannel(n) \/ CloseChannel(n) \/ Publish(n)
       \/ \E m \in Message : Receive(n, m)
       \/ \E s \in Session :
            \/ BootPeers(n, s) \/ BootCheck(n, s) \/ BootStore(n, s) \/ BootFlag(n, s)
            \/ Received(n, s)
            \/ \E p \in Nodes : Answer(p, n, s) \/ Timeout(n, s, p)
  \/ \E r \in answers : Answered(r)

Spec == Init /\ [][Next]_vars

-----------------------------------------------------------------------------
(* Properties *)

BootType == [at : {"none", "peers", "ask", "store", "flag", "done"},
             asked : SUBSET Nodes, waiting : SUBSET Nodes, ids : SUBSET Message]

\* Every variable has its type, and a closed channel has nothing to receive.
TypeOK ==
  /\ count \in 0..MaxMessages /\ links \in [Message -> SUBSET Message]
  /\ inbox \in [Nodes -> SUBSET (1..count)] /\ head \in [Nodes -> SUBSET (1..count)]
  /\ \A n \in Nodes : ~open[n] => inbox[n] = {}
  /\ session \in [Nodes -> 0..MaxOpens] /\ open \in [Nodes -> BOOLEAN]
  /\ flag \in [Nodes -> [Session -> BOOLEAN]] /\ live \in [Nodes -> SUBSET Session]
  /\ boot \in [Nodes -> [Session -> BootType]]
  /\ answers \subseteq [from : Nodes, to : Nodes, ids : SUBSET Message]
  /\ got \in [Nodes -> SUBSET Message] /\ base \in [Nodes -> SUBSET Message]
  /\ cut \in [Nodes -> BOOLEAN]

\* Messages, level after level from these on, with no limit: all that every set has which
\* has these and, with a message, those it links to.
Messages(ids) ==
  {m \in Message : \A S \in SUBSET Message :
                    ids \subseteq S /\ (\A l \in S : links[l] \subseteq S) => m \in S}

\* "A pointer to the previous message(s) in the channel so that the channel history
\* can be loaded by traversing the DAG backwards" (channel.go:92): whatever overtakes
\* what, the head leads to just what the node has received and was bootstrapped
\* with, as long as no bootstrap overwrote it and it was not cut.
HeadHasHistory ==
  \A n \in Nodes : open[n] /\ ~cut[n] /\ got[n] # {} =>
    Messages(head[n]) = Messages(got[n] \cup base[n])
=============================================================================
