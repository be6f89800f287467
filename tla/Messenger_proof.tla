-------------------------- MODULE Messenger_proof --------------------------
(***************************************************************************)
(* Proofs about Messenger, for any set of messages, any number of          *)
(* goroutines and any number of crashes and failures: the type invariant,  *)
(* that the messenger and the handlers of the recipient implement          *)
(* Delivery, and that no reader processes a message twice.                 *)
(*                                                                         *)
(* The inductive invariant follows a message round: what is saved, tried,  *)
(* stored or handled was sent, and what is marked or acknowledged (by the  *)
(* recipient, on the way, or in the update that deletes the row) was       *)
(* processed or failed to be.  What a reader went through is marked, or    *)
(* about to be.  The update that sends a message holds the database mutex  *)
(* alone, so nobody sends that message meanwhile.                          *)
(***************************************************************************)
EXTENDS Messenger, TLAPS

InUpdate(g) == g.at \in {"tx", "commit"}

\* Processed, well or badly.
Answered == received \cup failed

\* What a goroutine works on, by its kind.
Holds(g) ==
  \/ g.kind = "send" /\ InUpdate(g) /\ \E m \in Messages : m \notin sent /\ g.todo = {m}
  \/ g.kind = "ack" /\ g.at = "tx" /\ \E m \in Answered : g.todo = {m}
  \/ g.kind = "retry" /\ g.at \in {"read", "stamp", "loop"} /\ g.todo \subseteq sent

SenderOK ==
  /\ outgoing \subseteq sent
  /\ \A a \in attempts : a.m \in sent
  /\ \A g \in busy : Holds(g)
  /\ \A g, h \in busy : InUpdate(g) /\ InUpdate(h) => g = h

RecipientOK ==
  /\ store \subseteq sent /\ Answered \subseteq sent
  /\ marked \subseteq Answered /\ acks \subseteq Answered
  /\ \A lane \in Lane : \A h \in handling[lane] :
       h.m \in sent /\ (h.at \in {"mark", "ack"} => h.m \in Answered)

\* A reader handles one message at a time.
ReaderOK ==
  /\ \A lane \in Lane : \A h, k \in handling[lane] : h = k
  /\ \A lane \in Lane, m \in Messages : <<lane, m>> \in processed =>
       m \in marked \/ \E h \in handling[lane] : h.m = m /\ h.at = "mark"

Inv == TypeOK /\ SenderOK /\ RecipientOK /\ ReaderOK /\ NothingTwice

\* What every step does for Delivery.
Kept == Promise!Next \/ UNCHANGED <<sent, outgoing, received, failed>>

-----------------------------------------------------------------------------
(* Steps that leave the goroutines of the sender alone *)

\* A step that moves neither rows nor goroutines nor what the recipient has
\* processed keeps the sender's part.
LEMMA SenderRests ==
  ASSUME SenderOK, UNCHANGED <<sent, outgoing, received, failed>>, busy' \subseteq busy,
         attempts' \subseteq attempts
  PROVE  SenderOK'
BY DEF SenderOK, Holds, InUpdate, Answered

\* A step of the sender keeps the readers' part.
LEMMA ReaderRests ==
  ASSUME ReaderOK, NothingTwice, UNCHANGED <<handling, marked, processed>>
  PROVE  ReaderOK' /\ NothingTwice'
BY DEF ReaderOK, NothingTwice

\* A reader turns to what "next" holds.
LEMMA ReaderStep ==
  ASSUME Inv, NEW lane \in Lane, NEW next \in SUBSET Handling, \A h, k \in next : h = k,
         handling' = [handling EXCEPT ![lane] = next], marked \subseteq marked',
         \A l \in Lane \ {lane}, m \in Messages : <<l, m>> \in processed' => <<l, m>> \in processed,
         \A m \in Messages : <<lane, m>> \in processed' =>
           m \in marked' \/ \E h \in next : h.m = m /\ h.at = "mark",
         \A h \in next : h.at = "process" => <<lane, h.m>> \notin processed'
  PROVE  ReaderOK' /\ NothingTwice'
<1>1. \A l \in Lane : handling'[l] = IF l = lane THEN next ELSE handling[l]
  BY DEF Inv, TypeOK
<1>2. \A l \in Lane : \A h, k \in handling'[l] : h = k
  BY <1>1 DEF Inv, ReaderOK
<1>3. ASSUME NEW l \in Lane, NEW m \in Messages, <<l, m>> \in processed'
      PROVE  m \in marked' \/ \E h \in handling'[l] : h.m = m /\ h.at = "mark"
  <2>1. CASE l = lane
    BY <1>1, <1>3, <2>1
  <2>2. CASE l # lane
    BY <1>1, <1>3, <2>2 DEF Inv, ReaderOK
  <2> QED BY <2>1, <2>2
<1>4. ASSUME NEW l \in Lane, NEW h \in handling'[l], h.at = "process"
      PROVE  <<l, h.m>> \notin processed'
  <2>1. CASE l = lane
    BY <1>1, <1>4, <2>1
  <2>2. CASE l # lane
    <3>1. h \in handling[l] /\ h.m \in Messages
      BY <1>1, <2>2 DEF Inv, TypeOK, Handling
    <3> QED BY <1>4, <2>2, <3>1 DEF Inv, NothingTwice
  <2> QED BY <2>1, <2>2
<1> QED BY <1>2, <1>3, <1>4 DEF ReaderOK, NothingTwice

\* A message that is handed to a reader of the recipient was sent.
LEMMA RecipientReads ==
  ASSUME Inv, NEW lane \in Lane, NEW m \in sent, handling[lane] = {},
         handling' = [handling EXCEPT ![lane] = {[m |-> m, at |-> "check"]}],
         UNCHANGED <<sent, store, up, marked, received, failed, processed, acks, faults>>
  PROVE  RecipientOK' /\ ReaderOK' /\ NothingTwice' /\ handling' \in [Lane -> SUBSET Handling]
<1>1. m \in Messages
  BY DEF Inv, TypeOK
<1>2. [m |-> m, at |-> "check"] \in Handling
  BY <1>1 DEF Handling
<1>3. handling' \in [Lane -> SUBSET Handling]
  BY <1>2 DEF Inv, TypeOK
<1>4. \A l \in Lane : \A h \in handling'[l] :
        h.m \in sent /\ (h.at \in {"mark", "ack"} => h.m \in Answered)
  BY DEF Inv, TypeOK, RecipientOK
<1>5. RecipientOK'
  BY <1>4 DEF Inv, RecipientOK, Answered
<1>6. \A k \in Messages : <<lane, k>> \in processed => k \in marked
  BY DEF Inv, ReaderOK
<1> DEFINE next == {[m |-> m, at |-> "check"]}
<1>7. /\ next \in SUBSET Handling /\ \A h, k \in next : h = k
      /\ \A h \in next : h.at # "process"
  BY <1>2
<1>8. ReaderOK' /\ NothingTwice'
  <2>1. handling' = [handling EXCEPT ![lane] = next] /\ marked \subseteq marked' /\ UNCHANGED processed
    OBVIOUS
  <2> HIDE DEF next
  <2>2. /\ \A l \in Lane \ {lane}, k \in Messages : <<l, k>> \in processed' => <<l, k>> \in processed
        /\ \A k \in Messages : <<lane, k>> \in processed' =>
             k \in marked' \/ \E h \in next : h.m = k /\ h.at = "mark"
        /\ \A h \in next : h.at = "process" => <<lane, h.m>> \notin processed'
    BY <1>6, <1>7, <2>1
  <2> QED BY <1>7, <2>1, <2>2, ReaderStep
<1> QED BY <1>3, <1>5, <1>8

\* A reader moves on to the next place with the message it handles.
LEMMA RecipientProceeds ==
  ASSUME Inv, NEW lane \in Lane, NEW h \in handling[lane],
         NEW at \in {"process", "mark", "ack"}, Proceed(lane, h, at),
         at \in {"mark", "ack"} => h.m \in Answered',
         Answered \subseteq Answered', UNCHANGED sent, marked \subseteq marked',
         at = "process" => h.m \notin marked \/ <<lane, h.m>> \notin processed',
         h.at = "mark" => h.m \in marked' \/ <<lane, h.m>> \notin processed',
         processed' \ processed \subseteq {<<lane, h.m>>} /\ (at # "mark" => processed' \subseteq processed)
  PROVE  /\ handling' \in [Lane -> SUBSET Handling]
         /\ \A l \in Lane : \A k \in handling'[l] :
              k.m \in sent /\ (k.at \in {"mark", "ack"} => k.m \in Answered')
         /\ h.at # "mark" \/ at = "ack" => ReaderOK' /\ NothingTwice'
<1> DEFINE k == [h EXCEPT !.at = at]
<1>1. h \in Handling /\ h.m \in sent /\ h.m \in Messages
  BY DEF Inv, TypeOK, RecipientOK, Handling
<1>2. k \in Handling /\ k.m = h.m /\ k.at = at
  BY <1>1 DEF Handling
<1>3. handling' = [handling EXCEPT ![lane] = {k}]
  BY DEF Proceed
<1> HIDE DEF k
<1>4. handling' \in [Lane -> SUBSET Handling]
  BY <1>2, <1>3 DEF Inv, TypeOK
<1>5. \A l \in Lane : handling'[l] = IF l = lane THEN {k} ELSE handling[l]
  BY <1>3 DEF Inv, TypeOK
<1>6. \A l \in Lane : \A j \in handling[l] :
        j.m \in sent /\ (j.at \in {"mark", "ack"} => j.m \in Answered')
  BY DEF Inv, RecipientOK
<1>7. \A l \in Lane : \A j \in handling'[l] :
        j.m \in sent /\ (j.at \in {"mark", "ack"} => j.m \in Answered')
  BY <1>1, <1>2, <1>5, <1>6
\* What this reader went through is marked, or is the message it handles.
<1>8. \A m \in Messages : <<lane, m>> \in processed =>
        m \in marked \/ (m = h.m /\ h.at = "mark")
  BY DEF Inv, ReaderOK
<1>9. ASSUME h.at # "mark" \/ at = "ack" PROVE ReaderOK' /\ NothingTwice'
  <2>1. ASSUME NEW m \in Messages, <<lane, m>> \in processed'
        PROVE  m \in marked' \/ \E j \in {k} : j.m = m /\ j.at = "mark"
    <3>1. CASE <<lane, m>> \in processed
      BY <1>8, <2>1, <3>1
    <3>2. CASE <<lane, m>> \notin processed
      BY <1>2, <2>1, <3>2
    <3> QED BY <3>1, <3>2
  <2>2. at = "process" => <<lane, h.m>> \notin processed'
    BY <1>1, <1>8, <1>9
  <2>3. \A j \in {k} : j.at = "process" => <<lane, j.m>> \notin processed'
    BY <1>2, <2>2
  <2>4. \A l \in Lane \ {lane}, m \in Messages : <<l, m>> \in processed' => <<l, m>> \in processed
    OBVIOUS
  <2> DEFINE next == {k}
  <2>5. /\ next \in SUBSET Handling /\ \A i, j \in next : i = j
        /\ handling' = [handling EXCEPT ![lane] = next]
        /\ \A m \in Messages : <<lane, m>> \in processed' =>
             m \in marked' \/ \E j \in next : j.m = m /\ j.at = "mark"
        /\ \A j \in next : j.at = "process" => <<lane, j.m>> \notin processed'
    BY <1>2, <1>3, <2>1, <2>3
  <2> HIDE DEF next
  <2> QED BY <2>4, <2>5, ReaderStep
<1> QED BY <1>4, <1>7, <1>9

LEMMA HandleInv ==
  ASSUME Inv, NEW lane \in Lane, NEW h \in handling[lane], Handle(lane, h)
  PROVE  Inv' /\ Kept
<1>1. h \in Handling /\ h.m \in sent /\ h.m \in Messages
      /\ (h.at \in {"mark", "ack"} => h.m \in Answered)
  BY DEF Inv, TypeOK, RecipientOK, Handling
<1>f. ASSUME NEW kind, Fault(kind) PROVE faults' \in 0..MaxFaults
  BY <1>f, MessengerAssumption DEF Fault, Inv, TypeOK
\* The check: the message is found marked, is not found, or cannot be looked up.
<1>2. CASE CheckDuplicate(lane, h) \/ CheckFails(lane, h)
  <2>1. PICK at \in {"mark", "process"} :
          /\ Proceed(lane, h, at) /\ (at = "mark" => h.m \in marked)
          /\ at = "process" => h.m \notin marked \/ <<lane, h.m>> \notin processed'
    BY <1>2 DEF CheckDuplicate, CheckFails
  <2>2. /\ h.at = "check" /\ processed' \subseteq processed /\ faults' \in 0..MaxFaults
        /\ UNCHANGED <<senderVars, store, up, marked, received, failed, acks>>
    BY <1>2, <1>f DEF CheckDuplicate, CheckFails, reception, Inv, TypeOK
  <2>3. at \in {"mark", "ack"} => h.m \in Answered'
    BY <2>1, <2>2 DEF Inv, RecipientOK, Answered
  <2>4. /\ handling' \in [Lane -> SUBSET Handling]
        /\ \A l \in Lane : \A k \in handling'[l] :
             k.m \in sent /\ (k.at \in {"mark", "ack"} => k.m \in Answered')
        /\ ReaderOK' /\ NothingTwice'
    BY <2>1, <2>2, <2>3, RecipientProceeds DEF senderVars, Answered
  <2>5. TypeOK' /\ RecipientOK'
    BY <2>2, <2>4 DEF Inv, TypeOK, RecipientOK, Answered, senderVars
  <2> QED BY <2>2, <2>4, <2>5, SenderRests DEF Inv, Kept, senderVars
\* The processing, well or badly.
<1>3. CASE ProcessMessage(lane, h) \/ ProcessFails(lane, h)
  <2>1. /\ Proceed(lane, h, "mark") /\ processed' = processed \cup {<<lane, h.m>>} /\ h.at = "process"
        /\ received' \subseteq received \cup {h.m} /\ received \subseteq received'
        /\ failed' \subseteq failed \cup {h.m} /\ failed \subseteq failed'
        /\ h.m \in received' \cup failed' /\ faults' \in 0..MaxFaults
        /\ UNCHANGED <<senderVars, store, up, marked, acks>>
    BY <1>3, <1>f DEF ProcessMessage, ProcessFails, Inv, TypeOK
  <2>2. Answered' = Answered \cup {h.m}
    BY <2>1 DEF Answered
  <2>3. /\ handling' \in [Lane -> SUBSET Handling]
        /\ \A l \in Lane : \A k \in handling'[l] :
             k.m \in sent /\ (k.at \in {"mark", "ack"} => k.m \in Answered')
        /\ ReaderOK' /\ NothingTwice'
    BY <2>1, <2>2, RecipientProceeds DEF senderVars
  <2>4. TypeOK'
    BY <1>1, <2>1, <2>3 DEF Inv, TypeOK, senderVars
  <2>5. RecipientOK'
    BY <1>1, <2>1, <2>2, <2>3 DEF Inv, RecipientOK, senderVars
  <2>6. SenderOK'
    BY <2>1, <2>2 DEF Inv, SenderOK, Holds, InUpdate, senderVars
  <2>7. Promise!Receive(h.m) \/ Promise!Fail(h.m)
    BY <1>1, <1>3 DEF ProcessMessage, ProcessFails, Promise!Receive, Promise!Fail, senderVars
  <2> QED BY <1>1, <2>3, <2>4, <2>5, <2>6, <2>7 DEF Inv, Kept, Promise!Next
\* The mark, which is saved or is not.
<1>4. CASE Mark(lane, h) \/ MarkFails(lane, h)
  <2>1. /\ Proceed(lane, h, "ack") /\ h.at = "mark" /\ h.m \in Answered
        /\ marked' \subseteq marked \cup {h.m} /\ marked \subseteq marked'
        /\ processed' \subseteq processed /\ (h.m \in marked' \/ <<lane, h.m>> \notin processed')
        /\ faults' \in 0..MaxFaults
        /\ UNCHANGED <<senderVars, store, up, received, failed, acks>>
    BY <1>1, <1>4, <1>f DEF Mark, MarkFails, reception, Inv, TypeOK
  <2>2. /\ handling' \in [Lane -> SUBSET Handling]
        /\ \A l \in Lane : \A k \in handling'[l] :
             k.m \in sent /\ (k.at \in {"mark", "ack"} => k.m \in Answered')
        /\ ReaderOK' /\ NothingTwice'
    BY <2>1, RecipientProceeds DEF senderVars, Answered
  <2>3. TypeOK' /\ RecipientOK'
    BY <1>1, <2>1, <2>2 DEF Inv, TypeOK, RecipientOK, Answered, senderVars
  <2> QED BY <2>1, <2>2, <2>3, SenderRests DEF Inv, Kept, senderVars
<1>5. CASE SendACK(lane, h)
  <2>1. /\ handling' = [handling EXCEPT ![lane] = {}] /\ h.m \in Answered /\ h.at = "ack"
        /\ acks' \subseteq acks \cup {h.m} /\ store' \subseteq store
        /\ UNCHANGED <<senderVars, up, marked, received, failed, processed, faults>>
    BY <1>1, <1>5 DEF SendACK, reception
  <2>2. /\ handling' \in [Lane -> SUBSET Handling]
        /\ \A l \in Lane : handling'[l] \subseteq handling[l]
    BY <2>1 DEF Inv, TypeOK
  <2>3. TypeOK' /\ RecipientOK'
    BY <1>1, <2>1, <2>2 DEF Inv, TypeOK, RecipientOK, Answered, senderVars
  <2>4. \A m \in Messages : <<lane, m>> \in processed => m \in marked
    BY <2>1 DEF Inv, ReaderOK
  <2> DEFINE next == {}
  <2>5. ReaderOK' /\ NothingTwice'
    <3>1. /\ next \in SUBSET Handling /\ \A j, k \in next : j = k
          /\ handling' = [handling EXCEPT ![lane] = next] /\ marked \subseteq marked' /\ UNCHANGED processed
          /\ \A k \in next : k.at # "process"
      BY <2>1
    <3> HIDE DEF next
    <3> QED BY <2>4, <3>1, ReaderStep
  <2> QED BY <2>1, <2>3, <2>5, SenderRests DEF Inv, Kept, senderVars
<1> QED BY <1>2, <1>3, <1>4, <1>5 DEF Handle

LEMMA DownloadInv ==
  ASSUME Inv, NEW m \in Messages, Download(m)
  PROVE  Inv' /\ Kept
<1>1. /\ m \in sent /\ "offline" \in Lane /\ handling["offline"] = {}
      /\ handling' = [handling EXCEPT !["offline"] = {[m |-> m, at |-> "check"]}]
      /\ UNCHANGED <<senderVars, store, up, marked, received, failed, processed, acks, faults>>
  BY DEF Download, Inv, RecipientOK, Lane, reception
<1>2. RecipientOK' /\ ReaderOK' /\ NothingTwice' /\ handling' \in [Lane -> SUBSET Handling]
  BY <1>1, RecipientReads DEF senderVars
<1> QED BY <1>1, <1>2, SenderRests DEF Inv, TypeOK, Kept, senderVars

LEMMA TrySendMessageInv ==
  ASSUME Inv, NEW a \in attempts, TrySendMessage(a)
  PROVE  Inv' /\ Kept
<1>1. a.m \in sent /\ a.m \in Messages
  BY DEF Inv, TypeOK, SenderOK, Attempt
<1>2. CASE SendDirect(a)
  <2>1. /\ "direct" \in Lane /\ attempts' \subseteq attempts /\ handling["direct"] = {}
        /\ handling' = [handling EXCEPT !["direct"] = {[m |-> a.m, at |-> "check"]}]
        /\ UNCHANGED <<sent, outgoing, busy, store, up, marked, received, failed, processed, acks, faults>>
    BY <1>2 DEF SendDirect, Lane, reception
  <2>2. RecipientOK' /\ ReaderOK' /\ NothingTwice' /\ handling' \in [Lane -> SUBSET Handling]
    BY <1>1, <2>1, RecipientReads
  <2> QED BY <2>1, <2>2, SenderRests DEF Inv, TypeOK, Kept
<1>3. CASE SendOffline(a) \/ SendFails(a)
  <2>1. /\ store' \subseteq store \cup {a.m} /\ attempts' \subseteq attempts
        /\ UNCHANGED <<sent, outgoing, busy, recipientVars, acks, faults>>
    BY <1>3 DEF SendOffline, SendFails
  <2>2. TypeOK' /\ RecipientOK' /\ ReaderOK' /\ NothingTwice'
    BY <1>1, <2>1, ReaderRests DEF Inv, TypeOK, RecipientOK, Answered, recipientVars, reception
  <2> QED BY <2>1, <2>2, SenderRests DEF Inv, Kept, recipientVars, reception
<1> QED BY <1>2, <1>3 DEF TrySendMessage

\* The sender reads a row and tries its message again.
LEMMA SyncMessageInv ==
  ASSUME Inv, NEW m \in Messages, SyncMessage(m)
  PROVE  Inv' /\ Kept
<1>1. /\ m \in sent /\ attempts' = attempts \cup {[m |-> m, servers |-> FALSE]}
      /\ UNCHANGED <<sent, outgoing, busy, store, recipientVars, acks, faults>>
  BY DEF SyncMessage, Inv, SenderOK
<1>2. /\ [m |-> m, servers |-> FALSE] \in Attempt
      /\ [m |-> m, servers |-> FALSE].m \in sent
  BY <1>1 DEF Attempt
<1>3. TypeOK' /\ RecipientOK' /\ ReaderOK' /\ NothingTwice'
  BY ReaderRests, <1>1, <1>2 DEF Inv, TypeOK, RecipientOK, Answered, recipientVars, reception
<1>4. SenderOK'
  BY <1>1, <1>2 DEF Inv, SenderOK, Holds, InUpdate, Answered, recipientVars, reception
<1> QED BY <1>1, <1>3, <1>4 DEF Inv, Kept, recipientVars, reception

LEMMA CrashInv ==
  ASSUME Inv, SenderCrash \/ RecipientCrash \/ RecipientStart
  PROVE  Inv' /\ Kept
<1>1. /\ UNCHANGED <<sent, outgoing, store, marked, received, failed>>
      /\ busy' \subseteq busy /\ attempts' \subseteq attempts /\ acks' \subseteq acks
      /\ up' \in BOOLEAN
      /\ \/ UNCHANGED faults
         \/ faults < MaxFaults /\ faults' = faults + 1
      /\ \/ UNCHANGED <<handling, processed>>
         \/ handling' = [lane \in Lane |-> {}] /\ processed' = {p \in processed : p[2] \in marked}
  BY DEF SenderCrash, RecipientCrash, RecipientStart, senderVars, recipientVars, reception, Fault,
         Inv, TypeOK
<1>2. faults' \in 0..MaxFaults
  BY <1>1, MessengerAssumption DEF Inv, TypeOK
<1>3. handling' \in [Lane -> SUBSET Handling] /\ \A l \in Lane : handling'[l] \subseteq handling[l]
  BY <1>1 DEF Inv, TypeOK
<1>4. TypeOK'
  BY <1>1, <1>2, <1>3 DEF Inv, TypeOK
<1>5. RecipientOK'
  BY <1>1, <1>3 DEF Inv, RecipientOK, Answered
<1>6. ReaderOK' /\ NothingTwice'
  BY <1>1 DEF Inv, ReaderOK, NothingTwice
<1> QED BY <1>1, <1>4, <1>5, <1>6, SenderRests DEF Inv, Kept

-----------------------------------------------------------------------------
(* The goroutines of the sender *)

\* A goroutine starts, or goes on, as the record r: it holds what its kind may
\* hold, and the database mutex only if nobody else does.
LEMMA GoroutineStep ==
  ASSUME Inv, NEW old \in SUBSET busy, NEW r \in Goroutine,
         busy' = old \cup {r}, Holds(r),
         InUpdate(r) => \A h \in old : ~InUpdate(h),
         \A a \in attempts' : a \in attempts \/ (a \in Attempt /\ a.m \in sent),
         acks' \subseteq acks,
         UNCHANGED <<sent, outgoing, store, recipientVars, faults>>
  PROVE  Inv' /\ Kept
<1>1. /\ UNCHANGED <<sent, outgoing, store, up, handling, marked, received, failed, processed, faults>>
      /\ attempts' \subseteq Attempt
  BY DEF recipientVars, reception, Inv, TypeOK
<1>2. TypeOK' /\ RecipientOK' /\ ReaderOK' /\ NothingTwice'
  BY ReaderRests, <1>1 DEF Inv, TypeOK, RecipientOK, Answered
<1>3. \A g \in busy' : Holds(g)
  BY DEF Inv, SenderOK
<1>4. \A g \in busy' : Holds(g)'
  BY <1>1, <1>3 DEF Holds, InUpdate, Answered
<1>5. \A g, h \in busy' : InUpdate(g) /\ InUpdate(h) => g = h
  BY DEF Inv, SenderOK
<1>6. \A a \in attempts' : a.m \in sent
  BY DEF Inv, SenderOK
<1>7. SenderOK'
  BY <1>1, <1>4, <1>5, <1>6 DEF Inv, SenderOK, InUpdate
<1> QED BY <1>1, <1>2, <1>7 DEF Inv, Kept

LEMMA GoInv ==
  ASSUME Inv, NEW kind \in {"send", "ack", "retry"}, NEW at \in {"tx", "read"},
         NEW todo \in SUBSET Messages, Go(kind, at, todo),
         at = "tx" => DBFree,
         \A id \in Id : Holds([id |-> id, kind |-> kind, at |-> at, todo |-> todo]),
         acks' \subseteq acks,
         UNCHANGED <<sent, outgoing, attempts, store, recipientVars, faults>>
  PROVE  Inv' /\ Kept
<1>1. PICK id \in Id :
        busy' = busy \cup {[id |-> id, kind |-> kind, at |-> at, todo |-> todo]}
  BY DEF Go
<1> DEFINE r == [id |-> id, kind |-> kind, at |-> at, todo |-> todo]
<1>2. r \in Goroutine /\ Holds(r) /\ r.at = at
  BY DEF Goroutine
<1>3. InUpdate(r) => \A h \in busy : ~InUpdate(h)
  BY <1>2 DEF InUpdate, DBFree
<1> HIDE DEF r
<1> QED BY <1>1, <1>2, <1>3, GoroutineStep DEF r

LEMMA CallInv ==
  ASSUME Inv, NEW m \in Messages, Call(m)
  PROVE  Inv' /\ Kept
<1>1. \A id \in Id : Holds([id |-> id, kind |-> "send", at |-> "tx", todo |-> {m}])
  BY DEF Call, Holds, InUpdate
<1> QED BY <1>1, GoInv DEF Call

LEMMA HandleAckInv ==
  ASSUME Inv, NEW m \in Messages, HandleAck(m)
  PROVE  Inv' /\ Kept
<1>1. m \in Answered /\ acks' \subseteq acks
  BY DEF HandleAck, Inv, RecipientOK
<1>2. CASE m \in outgoing
  <2>1. \A id \in Id : Holds([id |-> id, kind |-> "ack", at |-> "tx", todo |-> {m}])
    BY <1>1 DEF Holds
  <2> QED BY <1>1, <1>2, <2>1, GoInv DEF HandleAck
<1>3. CASE m \notin outgoing
  <2>1. UNCHANGED <<sent, outgoing, busy, attempts, store, recipientVars, faults>>
    BY <1>3 DEF HandleAck
  <2>2. TypeOK' /\ RecipientOK' /\ ReaderOK' /\ NothingTwice'
    BY ReaderRests, <1>1, <2>1 DEF Inv, TypeOK, RecipientOK, Answered, recipientVars, reception
  <2> QED BY <2>1, <2>2, SenderRests DEF Inv, Kept, recipientVars, reception
<1> QED BY <1>2, <1>3

LEMMA RetryInv ==
  ASSUME Inv, Retry
  PROVE  Inv' /\ Kept
<1>1. \A id \in Id : Holds([id |-> id, kind |-> "retry", at |-> "read", todo |-> {}])
  BY DEF Holds
<1> QED BY <1>1, GoInv DEF Retry

\* A goroutine goes on at another place, with less to do or, after it has read
\* the table, with the rows it read.
LEMMA ContinueInv ==
  ASSUME Inv, NEW g \in busy, NEW at \in {"commit", "stamp", "loop"},
         NEW todo \in SUBSET Messages, Continue(g, at, todo),
         Holds([g EXCEPT !.at = at, !.todo = todo]),
         at = "commit" => InUpdate(g),
         \A a \in attempts' : a \in attempts \/ (a \in Attempt /\ a.m \in sent),
         UNCHANGED <<sent, outgoing, store, recipientVars, acks, faults>>
  PROVE  Inv' /\ Kept
<1> DEFINE r == [g EXCEPT !.at = at, !.todo = todo]
           old == busy \ {g}
<1>1. g \in Goroutine
  BY DEF Inv, TypeOK
<1>2. r \in Goroutine /\ Holds(r) /\ r.at = at
  BY <1>1 DEF Goroutine
<1>3. InUpdate(r) => \A h \in old : ~InUpdate(h)
  BY <1>2 DEF InUpdate, Inv, SenderOK
<1>4. busy' = old \cup {r} /\ old \in SUBSET busy
  BY DEF Continue
<1> HIDE DEF r, old
<1> QED BY <1>2, <1>3, <1>4, GoroutineStep

LEMMA WorkInv ==
  ASSUME Inv, NEW g \in busy, Work(g)
  PROVE  Inv' /\ Kept
<1>1. g \in Goroutine /\ Holds(g) /\ g.todo \in SUBSET Messages
  BY DEF Inv, TypeOK, SenderOK, Goroutine
<1>2. CASE ReliablySendMessage(g)
  <2>1. Holds([g EXCEPT !.at = "commit", !.todo = g.todo])
    BY <1>1, <1>2 DEF ReliablySendMessage, Holds, InUpdate, Goroutine
  <2>2. /\ Continue(g, "commit", g.todo) /\ InUpdate(g)
        /\ UNCHANGED <<sent, outgoing, attempts, store, recipientVars, acks, faults>>
    BY <1>2 DEF ReliablySendMessage, InUpdate
  <2> QED BY <1>1, <2>1, <2>2, ContinueInv
<1>3. CASE Commit(g)
  <2>1. PICK m \in Messages : m \notin sent /\ g.todo = {m} /\ g.kind = "send"
    BY <1>1, <1>3 DEF Commit, Holds
  <2>2. /\ busy' = busy \ {g} /\ InUpdate(g)
        /\ sent' = sent \cup {m} /\ outgoing' = outgoing \cup {m}
        /\ attempts' = attempts \cup {[m |-> m, servers |-> TRUE]}
        /\ UNCHANGED <<store, up, handling, marked, received, failed, processed, acks, faults>>
    BY <1>3, <2>1 DEF Commit, Return, InUpdate, recipientVars, reception
  <2>3. [m |-> m, servers |-> TRUE] \in Attempt /\ [m |-> m, servers |-> TRUE].m = m
    BY DEF Attempt
  <2>4. TypeOK' /\ RecipientOK' /\ ReaderOK' /\ NothingTwice'
    BY ReaderRests, <2>2, <2>3 DEF Inv, TypeOK, RecipientOK, Answered
  <2>5. \A h \in busy' : ~InUpdate(h) /\ h \in busy
    BY <2>2 DEF Inv, SenderOK
  <2>6. \A h \in busy' : Holds(h)'
    BY <2>2, <2>5 DEF Inv, SenderOK, Holds, InUpdate, Answered
  <2>7. SenderOK'
    BY <2>2, <2>3, <2>5, <2>6 DEF Inv, SenderOK, InUpdate
  <2>8. Promise!Send(m)
    BY <2>1, <2>2 DEF Promise!Send
  <2> QED BY <2>4, <2>7, <2>8 DEF Inv, Kept, Promise!Next
<1>4. CASE ProcessACK(g)
  <2>1. PICK m \in Answered : g.todo = {m}
    BY <1>1, <1>4 DEF ProcessACK, Holds
  <2>2. /\ busy' \subseteq busy /\ outgoing' = outgoing \ {m}
        /\ UNCHANGED <<sent, attempts, store, up, handling, marked, received, failed, processed, acks, faults>>
    BY <1>4, <2>1 DEF ProcessACK, Return, recipientVars, reception
  <2>3. TypeOK' /\ RecipientOK' /\ ReaderOK' /\ NothingTwice'
    BY ReaderRests, <2>2 DEF Inv, TypeOK, RecipientOK, Answered
  <2>4. SenderOK'
    BY <2>2 DEF Inv, SenderOK, Holds, InUpdate, Answered
  <2>5. Promise!Settle(m) /\ m \in Messages
    BY <2>1, <2>2 DEF Promise!Settle, Inv, TypeOK, Answered
  <2> QED BY <2>3, <2>4, <2>5 DEF Inv, Kept, Promise!Next
<1>5. CASE Rollback(g) \/ RetryReturn(g)
  <2>1. /\ busy' \subseteq busy
        /\ UNCHANGED <<sent, outgoing, attempts, store, up, handling, marked, received, failed, processed, acks, faults>>
    BY <1>5 DEF Rollback, RetryReturn, Return, recipientVars, reception
  <2>2. TypeOK' /\ RecipientOK' /\ ReaderOK' /\ NothingTwice'
    BY ReaderRests, <2>1 DEF Inv, TypeOK, RecipientOK, Answered
  <2> QED BY <2>1, <2>2, SenderRests DEF Inv, Kept
<1>6. CASE RetryRead(g)
  <2>1. /\ Continue(g, "loop", outgoing) /\ g.at = "read"
        /\ UNCHANGED <<sent, outgoing, attempts, store, recipientVars, acks, faults>>
    BY <1>6 DEF RetryRead
  <2>2. outgoing \in SUBSET Messages /\ outgoing \subseteq sent
    BY DEF Inv, TypeOK, SenderOK
  <2>3. Holds([g EXCEPT !.at = "loop", !.todo = outgoing])
    BY <1>1, <2>1, <2>2 DEF Holds, InUpdate, Goroutine
  <2> QED BY <2>1, <2>2, <2>3, ContinueInv
<1>7. ASSUME NEW m \in Messages, RetryMessage(g, m)
      PROVE  Inv' /\ Kept
  <2>1. /\ Continue(g, "stamp", g.todo \ {m}) /\ g.at = "loop" /\ m \in g.todo
        /\ attempts' = attempts \cup {[m |-> m, servers |-> TRUE]}
        /\ UNCHANGED <<sent, outgoing, store, recipientVars, acks, faults>>
    BY <1>7 DEF RetryMessage
  <2>2. m \in sent /\ Holds([g EXCEPT !.at = "stamp", !.todo = g.todo \ {m}])
    BY <1>1, <2>1 DEF Holds, InUpdate, Goroutine
  <2>3. [m |-> m, servers |-> TRUE] \in Attempt /\ [m |-> m, servers |-> TRUE].m = m
    BY DEF Attempt
  <2>4. \A a \in attempts' : a \in attempts \/ (a \in Attempt /\ a.m \in sent)
    BY <2>1, <2>2, <2>3
  <2>5. g.todo \ {m} \in SUBSET Messages
    BY <1>1
  <2> QED BY <2>1, <2>2, <2>4, <2>5, ContinueInv
<1>8. ASSUME NEW m \in Messages, RetryLater(g, m)
      PROVE  Inv' /\ Kept
  <2>1. /\ Continue(g, "loop", g.todo \ {m}) /\ g.at = "loop"
        /\ UNCHANGED <<sent, outgoing, attempts, store, recipientVars, acks, faults>>
    BY <1>8 DEF RetryLater
  <2>2. Holds([g EXCEPT !.at = "loop", !.todo = g.todo \ {m}])
    BY <1>1, <2>1 DEF Holds, InUpdate, Goroutine
  <2>3. g.todo \ {m} \in SUBSET Messages
    BY <1>1
  <2> QED BY <2>1, <2>2, <2>3, ContinueInv
<1>9. CASE RetryStamp(g)
  <2>1. /\ Continue(g, "loop", g.todo) /\ g.at = "stamp"
        /\ UNCHANGED <<sent, outgoing, attempts, store, recipientVars, acks, faults>>
    BY <1>9 DEF RetryStamp
  <2>2. Holds([g EXCEPT !.at = "loop", !.todo = g.todo])
    BY <1>1, <2>1 DEF Holds, InUpdate, Goroutine
  <2> QED BY <1>1, <2>1, <2>2, ContinueInv
<1> QED BY <1>2, <1>3, <1>4, <1>5, <1>6, <1>7, <1>8, <1>9 DEF Work

-----------------------------------------------------------------------------
(* The theorems *)

LEMMA InitInv == Init => Inv
<1> SUFFICES ASSUME Init PROVE Inv
  OBVIOUS
<1>1. TypeOK
  BY MessengerAssumption DEF Init, TypeOK
<1>2. SenderOK /\ RecipientOK /\ ReaderOK /\ NothingTwice
  BY DEF Init, SenderOK, RecipientOK, ReaderOK, NothingTwice, Answered
<1> QED BY <1>1, <1>2 DEF Inv

LEMMA NextInv ==
  ASSUME Inv, [Next]_vars
  PROVE  Inv' /\ Kept
<1>1. CASE UNCHANGED vars
  <2>1. UNCHANGED <<sent, outgoing, busy, attempts, store, up, handling, marked,
                    received, failed, processed, acks, faults>>
    BY <1>1 DEF vars
  <2>2. TypeOK' /\ RecipientOK' /\ ReaderOK' /\ NothingTwice'
    BY ReaderRests, <2>1 DEF Inv, TypeOK, RecipientOK, Answered
  <2> QED BY <2>1, <2>2, SenderRests DEF Inv, Kept
<1>2. ASSUME NEW m \in Messages, Call(m) \/ HandleAck(m) \/ SyncMessage(m) \/ Download(m)
      PROVE  Inv' /\ Kept
  BY <1>2, CallInv, HandleAckInv, SyncMessageInv, DownloadInv
<1>3. CASE Retry
  BY <1>3, RetryInv
<1>4. ASSUME NEW g \in busy, Work(g)
      PROVE  Inv' /\ Kept
  BY <1>4, WorkInv
<1>5. ASSUME NEW a \in attempts, TrySendMessage(a)
      PROVE  Inv' /\ Kept
  BY <1>5, TrySendMessageInv
<1>6. ASSUME NEW lane \in Lane, NEW h \in handling[lane], Handle(lane, h)
      PROVE  Inv' /\ Kept
  BY <1>6, HandleInv
<1>7. CASE SenderCrash \/ RecipientCrash \/ RecipientStart
  BY <1>7, CrashInv
<1> QED BY <1>1, <1>2, <1>3, <1>4, <1>5, <1>6, <1>7 DEF Next

\* In every behaviour the inductive invariant holds.
LEMMA Invariance == Spec => []Inv
BY InitInv, NextInv, PTL DEF Spec

\* The type invariant of the messenger, whatever the interleaving of its
\* goroutines (net/messenger.go) and the handlers (core/network.go).
THEOREM TypeCorrect == Spec => []TypeOK
BY Invariance, PTL DEF Inv

\* The messenger implements Delivery: the row of a message is deleted only after
\* the recipient has processed the message or has failed to, across crashes of both
\* nodes, failures, lost attempts, lost acknowledgements and duplicates.
THEOREM DeliveryRefinement == Spec => ImplementsDelivery
<1>1. Init => Promise!Init
  BY DEF Init, Promise!Init
<1>2. Inv /\ [Next]_vars => [Promise!Next]_<<sent, outgoing, received, failed>>
  BY NextInv DEF Kept
<1> QED BY <1>1, <1>2, Invariance, PTL DEF Spec, ImplementsDelivery, Promise!Spec

\* A reader goes through a message at most once while its mark is kept (core/network.go,
\* isDuplicate and sendAckMessage), for any interleaving of the two readers.
THEOREM NoDuplicates == Spec => []NothingTwice
BY Invariance, PTL DEF Inv
=============================================================================
