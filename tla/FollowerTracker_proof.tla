------------------------ MODULE FollowerTracker_proof ------------------------
(***************************************************************************)
(* Proofs about FollowerTracker, for any peers, limits and channel sizes,  *)
(* any number of events, of handlers and of ticks at once.                 *)
(*                                                                         *)
(* Typed says who emits, where each thread can be, and who holds which     *)
(* mutex by where it is.  From it: no circle of mutexes alone, because     *)
(* the bus's holder waits for a full channel at most, the database's for   *)
(* the bus, and the tracker's for the database.                            *)
(*                                                                         *)
(* Turns says that the handlers emit in turn what they changed, but for    *)
(* the peers that are blurred.  Truths and Maps follow an event from the   *)
(* network's callback or a handler to the loop: what it tells is so, or an *)
(* event about the same peer is behind it; and the maps are right, or one  *)
(* is pending.                                                             *)
(***************************************************************************)
EXTENDS FollowerTracker, TLAPS

Links == {"connected", "disconnected"}
Follows == {"follow", "unfollow"}

PeerEvents(types) == [type : types, peer : Peers]

Emitters == {"network", "order"} \cup Handlers

Place == {"idle", "load", "look", "subscribe", "emit", "select", "lock", "save", "done",
          "count", "stats", "try", "send", "close"}

\* Where each thread can be.
PlacesOK ==
  /\ at \in [Threads -> Place]
  /\ at["loop"] \in {"load", "look", "subscribe", "emit", "select", "lock", "save", "done"}
  /\ \A t \in Ticks : at[t] \in {"idle", "look", "count", "stats", "try", "lock", "send"}
  /\ at["stop"] \in {"idle", "close", "done"}
  /\ at["notifier"] \in {"select", "save"} /\ at["sync"] \in {"select", "save"}
  /\ \A t \in Emitters : at[t] = "idle"

\* The tracker's mutex is held while its loop saves, while a peer is sent to be
\* dialled, and while Close saves.
MutexOK ==
  /\ mtx \in {None, "loop", "stop"} \cup Ticks
  /\ mtx = "loop" <=> at["loop"] = "save"
  /\ \A t \in Ticks : mtx = t <=> at[t] = "send"
  /\ mtx = "stop" <=> at["stop"] = "close"

\* What the loop and the ticker's goroutines hold, by where they are.
HandOK ==
  /\ DOMAIN hand = Threads
  /\ at["loop"] \in {"lock", "save"} => hand["loop"] \in PeerEvents(TrackerSubs)
  /\ at["loop"] = "save" => hand["loop"].type = "disconnected"
  /\ \A t \in Ticks : at[t] \in {"lock", "send"} =>
       hand[t] \in Peers /\ attempts[t] < TrackerAttemptsPerInterval

ThreadsOK ==
  /\ PlacesOK /\ MutexOK /\ HandOK
  /\ db \in {None, "order"} /\ rest \in [Ticks -> BOOLEAN] /\ shutdown \in BOOLEAN
  /\ attempts \in [Ticks -> 0..TrackerAttemptsPerInterval]

SetsOK ==
  /\ up \subseteq Peers /\ fans \subseteq Peers /\ stats \subseteq Peers
  /\ followers \subseteq Peers /\ connected \subseteq Peers /\ tried \subseteq Peers
  /\ dials \subseteq Peers /\ todo \in [Ticks -> SUBSET Peers] /\ blurred \subseteq Peers

BusTypes ==
  /\ subs \in Seq(Subs) /\ IsInjective(subs)
  /\ queue \in [Subs -> Seq(Events)]
  /\ \A s \in Subs : Len(queue[s]) <= Buffer
  /\ \A s \in Subs : \A e \in ToSet(queue[s]) : e.type \in Takes[s]
  /\ bus \in [by : Emitters \cup {None}, sinks : SUBSET ToSet(subs)]
  /\ bus.by = None <=> bus.sinks = {}
  /\ bus.by # None => /\ want[bus.by] # None
                      /\ \A s \in bus.sinks : want[bus.by].type \in Takes[s]

\* The network's callbacks, the handlers and an order's update emit, each its own events.
WantOK ==
  /\ want \in [Threads -> Events \cup {None}]
  /\ want["network"] \in PeerEvents(Links) \cup {None}
  /\ \A h \in Handlers : want[h] \in PeerEvents(Follows) \cup {None}
  /\ want["order"] \in {[type |-> "order"], None}
  /\ \A t \in Threads \ Emitters : want[t] = None
  /\ news \in [Peers -> Seq(PeerEvents(Links))]
  /\ \A p \in Peers : \A e \in ToSet(news[p]) : e.peer = p

BusOK == BusTypes /\ WantOK

\* The threads are different from each other, and None is none of them.
LEMMA Names ==
  /\ \A h \in Handlers : h \notin Ticks /\ h # None /\ h # "network" /\ h # "order"
                         /\ h # "loop" /\ h # "notifier" /\ h # "sync" /\ h # "stop"
  /\ \A t \in Ticks : t \notin Handlers /\ t # None /\ t # "network" /\ t # "order"
                      /\ t # "loop" /\ t # "notifier" /\ t # "sync" /\ t # "stop"
  /\ None # "network" /\ None # "order" /\ None # "loop" /\ None # "stop"
BY NoneAssumption, ThreadsAssumption DEF Threads, Singles

-----------------------------------------------------------------------------
(* Sequences *)

LEMMA ToSetAppend ==
  ASSUME NEW S, NEW q \in Seq(S), NEW e \in S
  PROVE  ToSet(Append(q, e)) = ToSet(q) \cup {e} /\ Append(q, e) \in Seq(S)
         /\ Len(Append(q, e)) = Len(q) + 1
<1>1. /\ Append(q, e) \in Seq(S) /\ Len(Append(q, e)) = Len(q) + 1
      /\ \A i \in 1..Len(q) : Append(q, e)[i] = q[i]
      /\ Append(q, e)[Len(q) + 1] = e
  OBVIOUS
<1>2. DOMAIN Append(q, e) = DOMAIN q \cup {Len(q) + 1} /\ DOMAIN q = 1..Len(q)
  BY <1>1
<1> QED BY <1>1, <1>2 DEF ToSet

LEMMA ToSetTail ==
  ASSUME NEW S, NEW q \in Seq(S), q # <<>>
  PROVE  /\ Head(q) \in ToSet(q) /\ Head(q) \in S /\ Tail(q) \in Seq(S)
         /\ ToSet(q) = {Head(q)} \cup ToSet(Tail(q))
         /\ Len(Tail(q)) = Len(q) - 1
<1>1. Head(q) = q[1] /\ 1 \in DOMAIN q /\ Tail(q) \in Seq(S) /\ Len(Tail(q)) = Len(q) - 1
  OBVIOUS
<1>2. \A i \in 1..Len(Tail(q)) : Tail(q)[i] = q[i + 1]
  OBVIOUS
<1>3. \A i \in DOMAIN q : i = 1 \/ i - 1 \in 1..Len(Tail(q))
  BY <1>1
<1>4. ToSet(q) \subseteq {Head(q)} \cup ToSet(Tail(q))
  BY <1>1, <1>2, <1>3 DEF ToSet
<1>5. {Head(q)} \cup ToSet(Tail(q)) \subseteq ToSet(q)
  BY <1>1, <1>2 DEF ToSet
<1> QED BY <1>1, <1>4, <1>5

LEMMA LastOfTail ==
  ASSUME NEW S, NEW q \in Seq(S), q # <<>>
  PROVE  /\ Tail(q) = <<>> => Len(q) = 1
         /\ Tail(q) # <<>> => Tail(q)[Len(Tail(q))] = q[Len(q)]
<1>1. Len(q) \in Nat /\ Len(q) # 0 /\ Tail(q) \in Seq(S) /\ Len(Tail(q)) = Len(q) - 1
  OBVIOUS
<1>2. \A i \in 1..Len(Tail(q)) : Tail(q)[i] = q[i + 1]
  OBVIOUS
<1>3. Tail(q) = <<>> => Len(q) = 1
  <2>1. Len(<<>>) = 0
    OBVIOUS
  <2>2. Tail(q) = <<>> => Len(Tail(q)) = 0
    BY <2>1, Zenon
  <2> QED BY <1>1, <2>2
<1>4. Tail(q) # <<>> => Len(Tail(q)) \in 1..Len(Tail(q)) /\ Len(Tail(q)) + 1 = Len(q)
  <2>1. Tail(q) # <<>> => Len(Tail(q)) # 0
    BY <1>1
  <2> QED BY <1>1, <2>1
<1> QED BY <1>2, <1>3, <1>4

LEMMA ToSetTyped ==
  ASSUME NEW S, NEW q \in Seq(S)
  PROVE  ToSet(q) \subseteq S
BY DEF ToSet

LEMMA ToSetEmpty == ToSet(<<>>) = {}
BY DEF ToSet

-----------------------------------------------------------------------------
(* The event bus *)

LEMMA InitBus == Init => BusOK
<1> SUFFICES ASSUME Init PROVE BusOK
  OBVIOUS
<1>1. /\ subs = <<"notifications", "messages">> /\ queue = [s \in Subs |-> <<>>]
      /\ want = [t \in Threads |-> None] /\ bus = [by |-> None, sinks |-> {}]
      /\ news = [p \in Peers |-> <<>>]
  BY DEF Init, BusInit, Free
<1>2. BusTypes
  BY <1>1, ToSetEmpty, BufferAssumption DEF BusTypes, IsInjective, Subs
<1>3. WantOK
  BY <1>1, ToSetEmpty, Names DEF WantOK, Threads, Singles
<1> QED BY <1>2, <1>3 DEF BusOK

LEMMA ReportBus ==
  ASSUME BusOK, NEW p \in Peers, Report(p)
  PROVE  BusOK'
<1>1. /\ want["network"] = None /\ bus.by = None
      /\ want' = [want EXCEPT !["network"] = Head(news[p])]
      /\ news' = [news EXCEPT ![p] = Tail(@)] /\ news[p] # <<>>
      /\ UNCHANGED <<subs, queue, bus>>
  BY DEF Report, Unlocked, Free
<1>2. news[p] \in Seq(PeerEvents(Links))
  BY DEF BusOK, WantOK
<1>3. /\ Head(news[p]) \in PeerEvents(Links) /\ Tail(news[p]) \in Seq(PeerEvents(Links))
      /\ ToSet(Tail(news[p])) \subseteq ToSet(news[p])
  BY <1>1, <1>2, ToSetTail
<1>4. WantOK'
  BY <1>1, <1>3, Names
     DEF BusOK, WantOK, Events, PeerEvents, Links, TrackerSubs, Threads, Singles, Emitters
<1>5. BusTypes'
  BY <1>1 DEF BusOK, BusTypes
<1> QED BY <1>4, <1>5 DEF BusOK

LEMMA ChangeBus ==
  ASSUME BusOK, NEW p \in Peers, Toggle(p), UNCHANGED busVars
  PROVE  BusOK'
<1> DEFINE e == Event(IF p \in up THEN "disconnected" ELSE "connected", p)
<1>1. e \in PeerEvents(Links) /\ e.peer = p
  BY DEF PeerEvents, Links, Event
<1>2. news' = [news EXCEPT ![p] = Append(@, e)]
  BY DEF Toggle
<1> HIDE DEF e
<1>3. news[p] \in Seq(PeerEvents(Links))
  BY DEF BusOK, WantOK
<1>4. /\ Append(news[p], e) \in Seq(PeerEvents(Links))
      /\ ToSet(Append(news[p], e)) = ToSet(news[p]) \cup {e}
  BY <1>1, <1>3, ToSetAppend
<1>5. WantOK'
  BY <1>1, <1>2, <1>4 DEF BusOK, WantOK, busVars
<1> QED BY <1>5 DEF BusOK, BusTypes, busVars

\* An event that a thread other than the bus's holder wants to emit.
LEMMA WantBus ==
  ASSUME BusOK, NEW t \in Handlers \cup {"order"}, want[t] = None,
         NEW e \in Events, want' = [want EXCEPT ![t] = e],
         t \in Handlers => e \in PeerEvents(Follows),
         t = "order" => e = [type |-> "order"],
         UNCHANGED <<subs, queue, bus, news>>
  PROVE  BusOK'
<1>1. WantOK'
  BY Names DEF BusOK, WantOK, Threads, Singles, Emitters
<1>2. bus.by # t
  BY Names DEF BusOK, BusTypes
<1>3. BusTypes'
  BY <1>2 DEF BusOK, BusTypes, WantOK
<1> QED BY <1>1, <1>3 DEF BusOK

\* The bus goes on to its next sink, or is given back.
LEMMA ContinueBus ==
  ASSUME BusOK, NEW t \in Emitters, want[t] # None, Unlocked \/ bus.by = t,
         NEW sinks \in SUBSET ToSet(subs), \A s \in sinks : want[t].type \in Takes[s],
         Continue(t, sinks), UNCHANGED <<subs, news>>,
         queue' \in [Subs -> Seq(Events)],
         \A s \in Subs : Len(queue'[s]) <= Buffer,
         \A s \in Subs : \A e \in ToSet(queue'[s]) : e.type \in Takes[s]
  PROVE  BusOK'
<1>1. CASE sinks = {}
  <2>1. bus' = [by |-> None, sinks |-> {}] /\ want' = [want EXCEPT ![t] = None]
    BY <1>1 DEF Continue, Free
  <2>2. WantOK'
    BY <2>1, Names DEF BusOK, WantOK, Threads, Singles, Emitters
  <2>3. BusTypes'
    BY <2>1 DEF BusOK, BusTypes
  <2> QED BY <2>2, <2>3 DEF BusOK
<1>2. CASE sinks # {}
  <2>1. bus' = [by |-> t, sinks |-> sinks] /\ want' = want
    BY <1>2 DEF Continue
  <2>2. WantOK'
    BY <2>1 DEF BusOK, WantOK
  <2>3. BusTypes'
    BY <2>1, <1>2, Names DEF BusOK, BusTypes, Emitters
  <2> QED BY <2>2, <2>3 DEF BusOK
<1> QED BY <1>1, <1>2

LEMMA EmitLockBus ==
  ASSUME BusOK, NEW t \in Threads, EmitLock(t)
  PROVE  BusOK'
<1>1. want[t] # None /\ Unlocked /\ Continue(t, Sinks(want[t]))
      /\ UNCHANGED <<subs, queue, news>>
  BY DEF EmitLock, Lock, worldVars
<1>2. t \in Emitters
  BY <1>1 DEF BusOK, WantOK
<1>3. Sinks(want[t]) \in SUBSET ToSet(subs)
      /\ \A s \in Sinks(want[t]) : want[t].type \in Takes[s]
  BY DEF Sinks
<1> HIDE DEF Sinks
<1>4. /\ queue' \in [Subs -> Seq(Events)]
      /\ \A s \in Subs : Len(queue'[s]) <= Buffer
      /\ \A s \in Subs : \A e \in ToSet(queue'[s]) : e.type \in Takes[s]
  BY <1>1 DEF BusOK, BusTypes
<1> QED BY <1>1, <1>2, <1>3, <1>4, ContinueBus

LEMMA EmitSendBus ==
  ASSUME BusOK, EmitSend
  PROVE  BusOK'
<1>1. PICK s \in Subs :
        /\ s \in bus.sinks /\ ~Full(s)
        /\ queue' = [queue EXCEPT ![s] = Append(@, want[bus.by])]
        /\ Continue(bus.by, bus.sinks \ {s})
  BY DEF EmitSend, Send, NextSink
<1>2. bus.by # None /\ UNCHANGED <<subs, news>>
  BY <1>1 DEF EmitSend, Send, worldVars, BusOK, BusTypes
<1> DEFINE t == bus.by
           e == want[t]
<1>3. t \in Emitters /\ t \in Threads /\ e # None /\ bus.sinks \subseteq ToSet(subs)
      /\ \A z \in bus.sinks : e.type \in Takes[z]
  BY <1>2, Names DEF BusOK, BusTypes, Emitters, Threads, Singles
<1>4. e \in Events
  BY <1>3 DEF BusOK, WantOK
<1>5. bus.by = t /\ Continue(t, bus.sinks \ {s}) /\ want[t] # None
      /\ queue' = [queue EXCEPT ![s] = Append(@, e)]
  BY <1>1, <1>3
<1> HIDE DEF e, t
<1>6. queue[s] \in Seq(Events) /\ Len(queue[s]) < Buffer
  BY <1>1, BufferAssumption DEF BusOK, BusTypes, Full
<1>7. /\ Append(queue[s], e) \in Seq(Events) /\ Len(Append(queue[s], e)) = Len(queue[s]) + 1
      /\ ToSet(Append(queue[s], e)) = ToSet(queue[s]) \cup {e}
  BY <1>4, <1>6, ToSetAppend
<1>8. queue' \in [Subs -> Seq(Events)]
  BY <1>5, <1>7 DEF BusOK, BusTypes
<1>9. \A z \in Subs : Len(queue'[z]) <= Buffer
  <2> SUFFICES ASSUME NEW z \in Subs PROVE Len(queue'[z]) <= Buffer
    OBVIOUS
  <2>1. CASE z = s
    BY <2>1, <1>5, <1>6, <1>7, BufferAssumption DEF BusOK, BusTypes
  <2>2. CASE z # s
    BY <2>2, <1>5 DEF BusOK, BusTypes
  <2> QED BY <2>1, <2>2
<1>10. \A z \in Subs : \A x \in ToSet(queue'[z]) : x.type \in Takes[z]
  BY <1>1, <1>3, <1>5, <1>7 DEF BusOK, BusTypes
<1>11. PICK h \in Emitters, left \in SUBSET ToSet(subs) : h = t /\ left = bus.sinks \ {s}
  BY <1>3
<1>12. /\ Continue(h, left) /\ want[h] # None /\ bus.by = h
       /\ \A z \in left : want[h].type \in Takes[z]
  BY <1>3, <1>5, <1>11 DEF e, Continue
<1>13. UNCHANGED <<subs, news>>
  BY <1>2
<1> QED BY <1>8, <1>9, <1>10, <1>12, <1>13, ContinueBus

LEMMA SubscribeBus ==
  ASSUME BusOK, TrackerSubscribe
  PROVE  BusOK'
<1>1. PICK s \in TrackerSubs : Subscribe(s)
  BY DEF TrackerSubscribe
<1>2. /\ s \in Subs /\ bus.by = None /\ s \notin ToSet(subs) /\ subs' = Append(subs, s)
      /\ UNCHANGED <<queue, want, bus, news>>
  BY <1>1 DEF TrackerSubscribe, Subscribe, Unlocked, Free, Subscribed, Subs, worldVars
<1>3. /\ subs' \in Seq(Subs) /\ ToSet(subs') = ToSet(subs) \cup {s}
  BY <1>2, ToSetAppend DEF BusOK, BusTypes
<1>4. IsInjective(subs')
  <2>1. /\ DOMAIN subs = 1..Len(subs) /\ DOMAIN subs' = 1..(Len(subs) + 1)
        /\ \A i \in 1..Len(subs) : subs'[i] = subs[i] /\ subs[i] # s
        /\ subs'[Len(subs) + 1] = s
    BY <1>2 DEF BusOK, BusTypes, ToSet
  <2>2. \A i, j \in 1..Len(subs) : subs[i] = subs[j] => i = j
    BY <2>1 DEF BusOK, BusTypes, IsInjective
  <2> QED BY <2>1, <2>2 DEF BusOK, BusTypes, IsInjective
<1>5. BusTypes'
  BY <1>2, <1>3, <1>4 DEF BusOK, BusTypes
<1>6. WantOK'
  BY <1>2 DEF BusOK, WantOK
<1> QED BY <1>5, <1>6 DEF BusOK

LEMMA ReceiveBus ==
  ASSUME BusOK, NEW s \in Subs, Receive(s), UNCHANGED <<subs, want, bus, news>>
  PROVE  BusOK'
<1>1. queue[s] # <<>> /\ queue' = [queue EXCEPT ![s] = Tail(@)]
      /\ queue[s] \in Seq(Events)
  BY DEF Receive, BusOK, BusTypes
<1>2. /\ Tail(queue[s]) \in Seq(Events) /\ Len(Tail(queue[s])) = Len(queue[s]) - 1
      /\ ToSet(Tail(queue[s])) \subseteq ToSet(queue[s])
  BY <1>1, ToSetTail
<1>3. queue' \in [Subs -> Seq(Events)]
  BY <1>1, <1>2 DEF BusOK, BusTypes
<1>4. \A z \in Subs : Len(queue'[z]) <= Buffer
  <2> SUFFICES ASSUME NEW z \in Subs PROVE Len(queue'[z]) <= Buffer
    OBVIOUS
  <2>1. CASE z = s
    <3>1. Len(queue[s]) <= Buffer /\ Len(queue[s]) \in Nat
      BY <1>1 DEF BusOK, BusTypes
    <3>2. queue'[z] = Tail(queue[s])
      BY <2>1, <1>1 DEF BusOK, BusTypes
    <3> QED BY <3>1, <3>2, <1>2, BufferAssumption
  <2>2. CASE z # s
    BY <2>2, <1>1 DEF BusOK, BusTypes
  <2> QED BY <2>1, <2>2
<1>5. \A z \in Subs : \A x \in ToSet(queue'[z]) : x.type \in Takes[z]
  BY <1>1, <1>2 DEF BusOK, BusTypes
<1>6. BusTypes'
  BY <1>3, <1>4, <1>5 DEF BusOK, BusTypes
<1>7. WantOK'
  BY DEF BusOK, WantOK
<1> QED BY <1>6, <1>7 DEF BusOK

LEMMA RestBus ==
  ASSUME BusOK, UNCHANGED <<busVars, news>>
  PROVE  BusOK'
BY DEF BusOK, BusTypes, WantOK, busVars

\* The steps of the loop, of the ticker's goroutines and of Close that leave the bus
\* and the network alone.
Aside ==
  \/ LoadFollowers \/ LookAtPeers
  \/ HandleConnected \/ HandleDisconnected \/ SaveConnection
  \/ HandleFollowEvent \/ HandleUnfollowEvent \/ LoopEmit \/ LoopEnd
  \/ Close
  \/ \E t \in Ticks : LoopDial(t) \/ Tick(t) \/ TryConnect(t)
  \/ \E t \in DOMAIN Reader : ReaderSave(t)

LEMMA AsideRests ==
  ASSUME Aside
  PROVE  UNCHANGED <<busVars, news>>
<1>1. CASE LoadFollowers \/ LookAtPeers \/ HandleConnected \/ HandleDisconnected
  BY <1>1 DEF LoadFollowers, LookAtPeers, HandleConnected, HandleDisconnected, worldVars
<1>2. CASE SaveConnection \/ HandleFollowEvent \/ HandleUnfollowEvent
  BY <1>2 DEF SaveConnection, HandleFollowEvent, HandleUnfollowEvent, worldVars
<1>3. CASE LoopEmit \/ LoopEnd
  BY <1>3 DEF LoopEmit, LoopEnd, worldVars
<1>4. CASE \E t \in Ticks : LoopDial(t) \/ Tick(t) \/ TryConnect(t)
  BY <1>4 DEF LoopDial, Tick, TryConnect, TickLook, TickCount, TickStats, TickFollowers, TickEnd,
              TickTry, TickLock, worldVars
<1>5. CASE Close
  BY <1>5 DEF Close, StopLock, StopSave, StopEnd, worldVars
<1>6. CASE \E t \in DOMAIN Reader : ReaderSave(t)
  BY <1>6 DEF ReaderSave, worldVars
<1> QED BY <1>1, <1>2, <1>3, <1>4, <1>5, <1>6 DEF Aside

LEMMA AsideRestsFile ==
  ASSUME Aside
  PROVE  fans' = fans /\ blurred \subseteq blurred'
<1>1. CASE LoadFollowers \/ LookAtPeers \/ HandleConnected \/ HandleDisconnected
  BY <1>1 DEF LoadFollowers, LookAtPeers, HandleConnected, HandleDisconnected, worldVars
<1>2. CASE SaveConnection \/ HandleFollowEvent \/ HandleUnfollowEvent
  BY <1>2 DEF SaveConnection, HandleFollowEvent, HandleUnfollowEvent, worldVars
<1>3. CASE LoopEmit \/ LoopEnd
  BY <1>3 DEF LoopEmit, LoopEnd, worldVars
<1>4. CASE \E t \in Ticks : LoopDial(t) \/ Tick(t) \/ TryConnect(t)
  BY <1>4 DEF LoopDial, Tick, TryConnect, TickLook, TickCount, TickStats, TickFollowers, TickEnd,
              TickTry, TickLock, worldVars
<1>5. CASE Close
  BY <1>5 DEF Close, StopLock, StopSave, StopEnd, worldVars
<1>6. CASE \E t \in DOMAIN Reader : ReaderSave(t)
  BY <1>6 DEF ReaderSave, worldVars
<1> QED BY <1>1, <1>2, <1>3, <1>4, <1>5, <1>6 DEF Aside

LEMMA NextIs ==
  ASSUME Next
  PROVE  \/ \E p \in Peers : Change(p) \/ Dialled(p) \/ Report(p)
         \/ \E h \in Handlers, p \in Peers : HandleFollow(h, p)
         \/ UpdateOrder \/ EmitSend \/ (\E t \in Threads : EmitLock(t)) \/ TrackerSubscribe
         \/ (\E s \in TrackerSubs : LoopTake(s)) \/ (\E t \in DOMAIN Reader : ReaderTake(t))
         \/ Aside
BY DEF Next, Emit, Loop, Aside, Read

LEMMA NextBus ==
  ASSUME BusOK, Next
  PROVE  BusOK'
<1>1. ASSUME NEW p \in Peers, Change(p) PROVE BusOK'
  BY <1>1, ChangeBus DEF Change
<1>2. ASSUME NEW p \in Peers, Dialled(p) PROVE BusOK'
  <2>1. UNCHANGED busVars /\ (Toggle(p) \/ UNCHANGED news)
    BY <1>2 DEF Dialled
  <2> QED BY <2>1, ChangeBus, RestBus
<1>3. ASSUME NEW p \in Peers, Report(p) PROVE BusOK'
  BY <1>3, ReportBus
<1>4. ASSUME NEW h \in Handlers, NEW p \in Peers, HandleFollow(h, p) PROVE BusOK'
  <2>1. PICK type \in Follows :
          want[h] = None /\ want' = [want EXCEPT ![h] = Event(type, p)]
          /\ UNCHANGED <<subs, queue, bus, news>>
    BY <1>4 DEF HandleFollow, Follows
  <2>2. Event(type, p) \in Events /\ Event(type, p) \in PeerEvents(Follows)
    BY <2>1 DEF Event, Events, PeerEvents, Follows, TrackerSubs
  <2> QED BY <2>1, <2>2, Names, WantBus
<1>5. CASE UpdateOrder
  <2>1. want["order"] = None /\ want' = [want EXCEPT !["order"] = [type |-> "order"]]
        /\ UNCHANGED <<subs, queue, bus, news>> /\ [type |-> "order"] \in Events
    BY <1>5 DEF UpdateOrder, Events
  <2> QED BY <2>1, Names, WantBus
<1>6. CASE EmitSend \/ \E t \in Threads : EmitLock(t)
  BY <1>6, EmitSendBus, EmitLockBus
<1>7. CASE TrackerSubscribe
  BY <1>7, SubscribeBus
<1>8. ASSUME NEW s \in TrackerSubs, LoopTake(s) PROVE BusOK'
  BY <1>8, ReceiveBus DEF LoopTake, worldVars, Subs
<1>9. ASSUME NEW t \in DOMAIN Reader, ReaderTake(t) PROVE BusOK'
  <2>1. PICK s \in Subs : Receive(s) /\ UNCHANGED <<subs, want, bus, news>>
    BY <1>9 DEF ReaderTake, worldVars, Subs, Reader
  <2> QED BY <2>1, ReceiveBus
<1>10. CASE Aside
  BY <1>10, AsideRests, RestBus
<1> QED BY <1>1, <1>2, <1>3, <1>4, <1>5, <1>6, <1>7, <1>8, <1>9, <1>10, NextIs

-----------------------------------------------------------------------------
(* The threads *)

LEMMA NoAttempts == 0 \in 0..TrackerAttemptsPerInterval
BY LimitAssumption

LEMMA InitThreads == Init => ThreadsOK
<1> SUFFICES ASSUME Init PROVE ThreadsOK
  OBVIOUS
<1>1. /\ at \in [Threads -> Place] /\ DOMAIN hand = Threads /\ mtx = None
      /\ at["loop"] = "load" /\ at["stop"] = "idle" /\ \A t \in Ticks : at[t] = "idle"
      /\ at["notifier"] = "select" /\ at["sync"] = "select"
      /\ \A t \in Emitters : at[t] = "idle"
  BY Names DEF Init, Threads, Singles, Place, Emitters
<1>2. PlacesOK /\ MutexOK /\ HandOK
  BY <1>1, Names DEF PlacesOK, MutexOK, HandOK
<1>3. /\ attempts = [t \in Ticks |-> 0] /\ rest = [t \in Ticks |-> FALSE]
      /\ db = None /\ shutdown = FALSE
  BY DEF Init
<1> QED BY <1>2, <1>3, NoAttempts DEF ThreadsOK

LEMMA ThreadsRest ==
  ASSUME ThreadsOK, UNCHANGED <<at, hand, mtx, rest, attempts, shutdown>>,
         db' \in {None, "order"}
  PROVE  ThreadsOK'
BY DEF ThreadsOK, PlacesOK, MutexOK, HandOK

LoopPlace == {"load", "look", "subscribe", "emit", "select", "lock", "save", "done"}

StopPlace == {"idle", "close", "done"}

\* The loop or Close goes on, and the others stay where they are.
LEMMA MovesOn ==
  ASSUME ThreadsOK, NEW t \in {"loop", "stop"}, NEW place, Move(t, place),
         t = "loop" => place \in LoopPlace, t = "stop" => place \in StopPlace
  PROVE  PlacesOK' /\ at'[t] = place /\ \A u \in Threads : u # t => at'[u] = at[u]
<1>1. at \in [Threads -> Place] /\ t \in Threads /\ place \in Place
  BY DEF ThreadsOK, PlacesOK, Threads, Singles, Place, LoopPlace, StopPlace
<1>2. at' \in [Threads -> Place] /\ at'[t] = place /\ \A u \in Threads : u # t => at'[u] = at[u]
  BY <1>1 DEF Move
<1>3. Ticks \cup Emitters \subseteq Threads \ {t}
  BY Names DEF Threads, Singles, Emitters
<1>4. PlacesOK'
  BY <1>2, <1>3 DEF ThreadsOK, PlacesOK, Threads, Singles, LoopPlace, StopPlace
<1> QED BY <1>2, <1>4

LEMMA LoopMovesOn ==
  ASSUME ThreadsOK, NEW place \in LoopPlace, Move("loop", place),
         mtx' = mtx, at["loop"] # "save", place # "save",
         place = "lock" => hand'["loop"] \in PeerEvents(TrackerSubs),
         DOMAIN hand' = Threads, \A t \in Ticks : hand'[t] = hand[t],
         UNCHANGED <<db, rest, attempts, shutdown>>
  PROVE  ThreadsOK'
<1>1. PlacesOK' /\ at'["loop"] = place /\ \A u \in Threads : u # "loop" => at'[u] = at[u]
  BY MovesOn
<1>2. at'["stop"] = at["stop"] /\ \A t \in Ticks : at'[t] = at[t]
  BY <1>1, Names DEF Threads, Singles
<1>3. MutexOK'
  BY <1>1, <1>2 DEF ThreadsOK, MutexOK
<1>4. HandOK'
  BY <1>1, <1>2 DEF ThreadsOK, HandOK
<1> QED BY <1>1, <1>3, <1>4 DEF ThreadsOK

LEMMA LoopThreads ==
  ASSUME ThreadsOK, BusOK,
         \/ LoadFollowers \/ LookAtPeers \/ TrackerSubscribe \/ HandleConnected
         \/ HandleDisconnected \/ SaveConnection \/ HandleFollowEvent
         \/ HandleUnfollowEvent \/ LoopEmit \/ LoopEnd
  PROVE  ThreadsOK'
<1>0. DOMAIN hand = Threads /\ \A t \in Ticks : t \in Threads /\ t # "loop"
  BY Names DEF ThreadsOK, HandOK, Threads
<1>1. CASE LoadFollowers \/ LookAtPeers \/ TrackerSubscribe
  <2>1. PICK place \in LoopPlace \ {"save", "lock"} : Move("loop", place)
    BY <1>1 DEF LoadFollowers, LookAtPeers, TrackerSubscribe, Go, LoopPlace
  <2>2. at["loop"] # "save" /\ UNCHANGED <<hand, mtx, db, rest, attempts, shutdown>>
    BY <1>1 DEF LoadFollowers, LookAtPeers, TrackerSubscribe, Go, tickVars, worldVars
  <2> QED BY <1>0, <2>1, <2>2, LoopMovesOn
<1>2. CASE HandleConnected \/ HandleFollowEvent \/ HandleUnfollowEvent
  <2>1. Move("loop", "emit") /\ "emit" \in LoopPlace
    BY <1>2 DEF HandleConnected, HandleFollowEvent, HandleUnfollowEvent, LoopPlace
  <2>2. at["loop"] = "lock" /\ UNCHANGED <<hand, mtx, db, rest, attempts, shutdown>>
    BY <1>2 DEF HandleConnected, HandleFollowEvent, HandleUnfollowEvent, LoopHolds, tickVars, worldVars
  <2> QED BY <1>0, <2>1, <2>2, LoopMovesOn
<1>3. CASE HandleDisconnected
  <2> DEFINE p == hand["loop"].peer
             place == IF p \notin followers THEN "emit" ELSE IF p \in connected THEN "save" ELSE "select"
  <2>1. /\ at["loop"] = "lock" /\ mtx = None /\ hand["loop"].type = "disconnected" /\ Move("loop", place)
        /\ mtx' = (IF place = "save" THEN "loop" ELSE mtx)
        /\ hand' = (IF place = "select" THEN [hand EXCEPT !["loop"] = None] ELSE hand)
        /\ UNCHANGED <<db, rest, attempts, shutdown>>
    BY <1>3 DEF HandleDisconnected, LoopHolds, tickVars, worldVars
  <2>2. place \in {"emit", "save", "select"}
    OBVIOUS
  <2> HIDE DEF place
  <2>3. PlacesOK' /\ at'["loop"] = place /\ \A u \in Threads : u # "loop" => at'[u] = at[u]
    BY <2>1, <2>2, MovesOn DEF LoopPlace
  <2>4. at'["stop"] = at["stop"] /\ \A t \in Ticks : at'[t] = at[t] /\ hand'[t] = hand[t]
    BY <1>0, <2>1, <2>3 DEF Threads, Singles
  <2>5. MutexOK'
    BY <2>1, <2>2, <2>3, <2>4, Names DEF ThreadsOK, MutexOK
  <2>6. HandOK'
    BY <2>1, <2>2, <2>3, <2>4 DEF ThreadsOK, HandOK
  <2> QED BY <2>1, <2>3, <2>5, <2>6 DEF ThreadsOK
<1>4. CASE SaveConnection
  <2>1. /\ at["loop"] = "save" /\ Move("loop", "emit") /\ mtx' = None
        /\ UNCHANGED <<hand, db, rest, attempts, shutdown>>
    BY <1>4 DEF SaveConnection, Go, tickVars, worldVars
  <2>2. PlacesOK' /\ at'["loop"] = "emit" /\ \A u \in Threads : u # "loop" => at'[u] = at[u]
    BY <2>1, MovesOn DEF LoopPlace
  <2>3. at'["stop"] = at["stop"] /\ \A t \in Ticks : at'[t] = at[t]
    BY <1>0, <2>2 DEF Threads, Singles
  <2>4. MutexOK'
    BY <2>1, <2>2, <2>3, Names DEF ThreadsOK, MutexOK
  <2>5. HandOK'
    BY <2>1, <2>2, <2>3 DEF ThreadsOK, HandOK
  <2> QED BY <2>1, <2>2, <2>4, <2>5 DEF ThreadsOK
<1>5. CASE LoopEmit \/ LoopEnd
  <2>1. PICK place \in LoopPlace \ {"save", "lock"} : Move("loop", place)
    BY <1>5 DEF LoopEmit, LoopEnd, Go, LoopPlace
  <2>2. /\ at["loop"] # "save" /\ UNCHANGED <<mtx, db, rest, attempts, shutdown>>
        /\ DOMAIN hand' = Threads /\ \A t \in Ticks : hand'[t] = hand[t]
    BY <1>0, <1>5 DEF LoopEmit, LoopEnd, Go, tickVars, worldVars
  <2> QED BY <2>1, <2>2, LoopMovesOn
<1> QED BY <1>1, <1>2, <1>3, <1>4, <1>5

LEMMA LoopDialThreads ==
  ASSUME ThreadsOK, NEW t \in Ticks, LoopDial(t)
  PROVE  ThreadsOK'
BY Names, LimitAssumption
   DEF LoopDial, Move, ThreadsOK, PlacesOK, MutexOK, HandOK, Threads, Singles, Place, Emitters

\* What the select takes is an event of the subscription.
LEMMA TakenIs ==
  ASSUME BusOK, NEW s \in TrackerSubs, queue[s] # <<>>
  PROVE  Head(queue[s]) \in PeerEvents({s}) /\ Head(queue[s]) \in PeerEvents(TrackerSubs)
<1>1. queue[s] \in Seq(Events) /\ \A e \in ToSet(queue[s]) : e.type \in Takes[s]
  BY DEF BusOK, BusTypes, Subs
<1>2. Head(queue[s]) \in Events /\ Head(queue[s]).type \in Takes[s]
  BY <1>1, ToSetTail
<1>3. Takes[s] = {s}
  BY DEF Takes, Subs, TrackerSubs
<1> QED BY <1>2, <1>3 DEF Events, PeerEvents, TrackerSubs

LEMMA LoopTakeThreads ==
  ASSUME ThreadsOK, BusOK, NEW s \in TrackerSubs, LoopTake(s)
  PROVE  ThreadsOK'
<1>1. Head(queue[s]) \in PeerEvents(TrackerSubs)
  BY TakenIs DEF LoopTake, Receive
<1> QED BY <1>1, Names
        DEF LoopTake, ThreadsOK, PlacesOK, MutexOK, HandOK, Threads, Singles, Place, Emitters,
            Go, Move, tickVars, worldVars

LEMMA TickThreads ==
  ASSUME ThreadsOK, SetsOK, NEW t \in Ticks, Tick(t) \/ TryConnect(t)
  PROVE  ThreadsOK'
<1> USE Names DEF ThreadsOK, PlacesOK, MutexOK, HandOK, Threads, Singles, Place,
                  Emitters, Go, Move, tickVars, worldVars, threadVars
<1>1. CASE Tick(t) \/ TickLook(t) \/ TickCount(t)
  <2>1. PICK place \in {"look", "count", "idle", "stats"} :
          Move(t, place) /\ at[t] \in {"idle", "look", "count"}
    BY <1>1 DEF Tick, TickLook, TickCount
  <2>2. UNCHANGED <<hand, mtx, db, rest, attempts, shutdown>>
    BY <1>1 DEF Tick, TickLook, TickCount
  <2>3. PlacesOK'
    BY <2>1
  <2>4. MutexOK' /\ HandOK'
    BY <2>1, <2>2
  <2> QED BY <2>2, <2>3, <2>4
<1>2. CASE TickStats(t)
  BY <1>2 DEF TickStats
<1>3. CASE TickEnd(t)
  <2>1. PlacesOK' /\ MutexOK' /\ HandOK'
    BY <1>3 DEF TickEnd
  <2> QED BY <1>3, <2>1, NoAttempts DEF TickEnd
<1>4. CASE TickFollowers(t)
  BY <1>4 DEF TickFollowers
<1>5. CASE TickLock(t)
  BY <1>5 DEF TickLock
<1>6. ASSUME NEW p \in Peers, TickTry(t, p) PROVE ThreadsOK'
  <2>1. CASE p \in connected \cup tried
    BY <1>6, <2>1 DEF TickTry
  <2>2. CASE p \notin connected \cup tried
    <3>1. /\ Move(t, "lock") /\ hand' = [hand EXCEPT ![t] = p]
          /\ attempts[t] < TrackerAttemptsPerInterval /\ at[t] = "try"
          /\ UNCHANGED <<mtx, db, rest, attempts, shutdown>>
      BY <1>6, <2>2, LimitAssumption DEF TickTry, Exhausted
    <3>2. PlacesOK' /\ MutexOK'
      BY <3>1
    <3>3. HandOK'
      BY <3>1
    <3> QED BY <3>1, <3>2, <3>3
  <2> QED BY <2>1, <2>2
<1> QED BY <1>1, <1>2, <1>3, <1>4, <1>5, <1>6 DEF TryConnect

LEMMA CloseThreads ==
  ASSUME ThreadsOK, Close
  PROVE  ThreadsOK'
<1>1. CASE StopLock \/ StopEnd
  <2>1. PICK place \in {"close", "done"} :
          /\ Move("stop", place) /\ mtx' = (IF place = "close" THEN "stop" ELSE None)
          /\ place = "close" => mtx = None
          /\ place = "done" => at["stop"] = "close"
    BY <1>1 DEF StopLock, StopEnd, Go
  <2>2. UNCHANGED <<hand, db, rest, attempts>> /\ shutdown' \in {shutdown, TRUE}
    BY <1>1 DEF StopLock, StopEnd, tickVars
  <2>3. PlacesOK' /\ at'["stop"] = place /\ \A u \in Threads : u # "stop" => at'[u] = at[u]
    BY <2>1, MovesOn DEF StopPlace
  <2>4. at'["loop"] = at["loop"] /\ \A t \in Ticks : at'[t] = at[t]
    BY <2>3, Names DEF Threads, Singles
  <2>5. MutexOK'
    BY <2>1, <2>3, <2>4, Names DEF ThreadsOK, MutexOK
  <2>6. HandOK'
    BY <2>2, <2>4 DEF ThreadsOK, HandOK
  <2> QED BY <2>2, <2>3, <2>5, <2>6 DEF ThreadsOK
<1>2. ASSUME NEW p \in Peers, StopSave(p) PROVE ThreadsOK'
  BY <1>2, ThreadsRest DEF StopSave, threadVars, tickVars, worldVars, ThreadsOK
<1> QED BY <1>1, <1>2 DEF Close

LEMMA ReadThreads ==
  ASSUME ThreadsOK, NEW t \in DOMAIN Reader, ReaderTake(t) \/ ReaderSave(t)
  PROVE  ThreadsOK'
<1>1. PICK place \in {"select", "save"} : Move(t, place)
  BY DEF ReaderTake, ReaderSave, Go
<1>2. UNCHANGED <<hand, mtx, db, rest, attempts, shutdown>>
  BY DEF ReaderTake, ReaderSave, tickVars, worldVars
<1>3. t \in {"notifier", "sync"} /\ t \in Threads /\ place \in Place
  BY DEF Reader, Threads, Singles, Place
<1>4. at' \in [Threads -> Place] /\ at'[t] = place /\ \A u \in Threads \ {t} : at'[u] = at[u]
  BY <1>1, <1>3 DEF Move, ThreadsOK, PlacesOK
<1>5. {"loop", "stop"} \cup Ticks \cup Emitters \subseteq Threads \ {t}
  BY <1>3, Names DEF Threads, Singles, Emitters
<1>6. PlacesOK'
  BY <1>1, <1>3, <1>4, <1>5 DEF ThreadsOK, PlacesOK, Threads, Singles
<1>7. at'["loop"] = at["loop"] /\ at'["stop"] = at["stop"] /\ \A u \in Ticks : at'[u] = at[u]
  BY <1>4, <1>5
<1>8. MutexOK' /\ HandOK'
  BY <1>2, <1>7 DEF ThreadsOK, MutexOK, HandOK
<1> QED BY <1>2, <1>6, <1>8 DEF ThreadsOK

LEMMA NextThreads ==
  ASSUME ThreadsOK, SetsOK, BusOK, Next
  PROVE  ThreadsOK'
<1>1. ASSUME NEW p \in Peers,
             Change(p) \/ Dialled(p) \/ Report(p) \/ \E h \in Handlers : HandleFollow(h, p)
      PROVE  ThreadsOK'
  BY <1>1, ThreadsRest DEF Change, Dialled, Report, HandleFollow, threadVars, tickVars, ThreadsOK
<1>2. CASE UpdateOrder
  BY <1>2, ThreadsRest DEF UpdateOrder, tickVars
<1>3. CASE Emit
  BY <1>3, ThreadsRest DEF Emit, EmitSend, EmitLock, threadVars, tickVars, worldVars, ThreadsOK
<1>4. CASE Loop
  BY <1>4, LoopThreads, LoopDialThreads, LoopTakeThreads DEF Loop
<1>5. CASE Close \/ \E t \in Ticks : Tick(t) \/ TryConnect(t)
  BY <1>5, TickThreads, CloseThreads
<1>6. ASSUME NEW t \in DOMAIN Reader, Read(t) PROVE ThreadsOK'
  BY <1>6, ReadThreads DEF Read
<1> QED BY <1>1, <1>2, <1>3, <1>4, <1>5, <1>6 DEF Next

LEMMA InitSets == Init => SetsOK
BY DEF Init, SetsOK

\* A thread that emits brings no new name of a peer into the blurred.
LEMMA UnheardPeers ==
  ASSUME BusOK, NEW t \in Threads, want[t] # None
  PROVE  Unheard(t) \subseteq Peers
<1>1. want[t] \in Events
  BY DEF BusOK, WantOK
<1> QED BY <1>1 DEF Unheard, Events, TrackerSubs

LEMMA LoopSets ==
  ASSUME BusOK, ThreadsOK, SetsOK, Loop
  PROVE  SetsOK'
<1>1. CASE LoadFollowers \/ LookAtPeers \/ TrackerSubscribe
  BY <1>1 DEF LoadFollowers, LookAtPeers, TrackerSubscribe, SetsOK, mapVars, tickVars, worldVars
<1>2. CASE HandleConnected
  BY <1>2 DEF HandleConnected, SetsOK, mapVars, tickVars, worldVars
<1>3. CASE HandleDisconnected \/ SaveConnection
  <2>1. at["loop"] = "save" => hand["loop"].peer \in Peers
    BY DEF ThreadsOK, HandOK, PeerEvents
  <2> QED BY <1>3, <2>1 DEF HandleDisconnected, SaveConnection, Go, SetsOK, mapVars, tickVars, worldVars
<1>4. CASE HandleFollowEvent \/ HandleUnfollowEvent
  <2>1. hand["loop"].peer \in Peers
    BY <1>4 DEF HandleFollowEvent, HandleUnfollowEvent, LoopHolds, ThreadsOK, HandOK, PeerEvents
  <2> QED BY <1>4, <2>1 DEF HandleFollowEvent, HandleUnfollowEvent, SetsOK, mapVars, tickVars, worldVars
<1>5. CASE LoopEmit \/ LoopEnd
  BY <1>5 DEF LoopEmit, LoopEnd, SetsOK, mapVars, tickVars, worldVars
<1>6. ASSUME NEW t \in Ticks, LoopDial(t) PROVE SetsOK'
  <2>1. hand[t] \in Peers
    BY <1>6 DEF LoopDial, ThreadsOK, HandOK
  <2> QED BY <1>6, <2>1 DEF LoopDial, SetsOK
<1>7. ASSUME NEW s \in TrackerSubs, LoopTake(s) PROVE SetsOK'
  <2>1. Head(queue[s]).peer \in Peers
    BY <1>7, TakenIs DEF LoopTake, Receive, PeerEvents
  <2> QED BY <1>7, <2>1 DEF LoopTake, SetsOK, mapVars, tickVars, worldVars
<1> QED BY <1>1, <1>2, <1>3, <1>4, <1>5, <1>6, <1>7 DEF Loop

LEMMA NextSets ==
  ASSUME BusOK, ThreadsOK, SetsOK, Next
  PROVE  SetsOK'
<1>1. ASSUME NEW p \in Peers,
             Change(p) \/ Dialled(p) \/ Report(p) \/ \E h \in Handlers : HandleFollow(h, p)
      PROVE  SetsOK'
  BY <1>1 DEF Change, Dialled, Toggle, Report, HandleFollow, SetsOK, mapVars, tickVars
<1>2. CASE UpdateOrder
  BY <1>2 DEF UpdateOrder, SetsOK, mapVars, tickVars
<1>3. CASE Emit
  <2>1. CASE EmitSend
    BY <2>1 DEF EmitSend, SetsOK, mapVars, tickVars, worldVars
  <2>2. ASSUME NEW t \in Threads, EmitLock(t) PROVE SetsOK'
    <3>1. Unheard(t) \subseteq Peers
      BY <2>2, UnheardPeers DEF EmitLock, Lock
    <3> QED BY <2>2, <3>1 DEF EmitLock, SetsOK, mapVars, tickVars, worldVars
  <2> QED BY <1>3, <2>1, <2>2 DEF Emit
<1>4. CASE Loop
  BY <1>4, LoopSets
<1>5. ASSUME NEW t \in Ticks, Tick(t) \/ TryConnect(t) PROVE SetsOK'
  BY <1>5 DEF Tick, TryConnect, TickLook, TickCount, TickStats, TickFollowers, TickEnd, TickTry,
              TickLock, SetsOK, mapVars, tickVars, worldVars
<1>6. CASE Close
  BY <1>6 DEF Close, StopLock, StopSave, StopEnd, SetsOK, mapVars, tickVars, worldVars
<1>7. ASSUME NEW t \in DOMAIN Reader, Read(t) PROVE SetsOK'
  BY <1>7 DEF Read, ReaderTake, ReaderSave, SetsOK, mapVars, tickVars, worldVars
<1> QED BY <1>1, <1>2, <1>3, <1>4, <1>5, <1>6, <1>7 DEF Next

Typed == BusOK /\ ThreadsOK /\ SetsOK

LEMMA StutterTyped ==
  ASSUME Typed, UNCHANGED vars
  PROVE  Typed'
BY RestBus, ThreadsRest
   DEF Typed, SetsOK, ThreadsOK, vars, busVars, threadVars, tickVars, mapVars, worldVars

LEMMA TypedInvariance == Spec => []Typed
<1>1. Init => Typed
  BY InitBus, InitThreads, InitSets DEF Typed
<1>2. Typed /\ [Next]_vars => Typed'
  BY NextBus, NextThreads, NextSets, StutterTyped DEF Typed
<1> QED BY <1>1, <1>2, PTL DEF Spec

\* The bus, the threads and the tracker's maps have their types; a subscription holds
\* no more events than its channel and only of the types it takes, and the bus is
\* held by a thread with an event to send.
THEOREM TypeCorrect == Spec => []TypeOK
<1>1. Typed => TypeOK
  <2> SUFFICES ASSUME Typed PROVE TypeOK
    OBVIOUS
  <2>1. subs \in Seq(Subs) /\ \A s \in Subs : queue[s] \in Seq(Events)
    BY DEF Typed, BusOK, BusTypes
  <2>2. ToSet(subs) \subseteq Subs /\ \A s \in Subs : ToSet(queue[s]) \subseteq Events
    BY <2>1, ToSetTyped
  <2>3. \A p \in Peers : news[p] \in Seq(PeerEvents(Links))
    BY DEF Typed, BusOK, WantOK
  <2>4. \A p \in Peers : \A e \in ToSet(news[p]) : e.peer = p /\ e.type \in Links
    <3>1. \A p \in Peers : ToSet(news[p]) \subseteq PeerEvents(Links)
      BY <2>3, ToSetTyped
    <3> QED BY <3>1 DEF Typed, BusOK, WantOK, PeerEvents
  <2>5. BusTypeOK
    <3>1. /\ bus.by \in Emitters \cup {None} /\ bus.sinks \subseteq ToSet(subs)
          /\ want \in [Threads -> Events \cup {None}]
      BY DEF Typed, BusOK, BusTypes, WantOK
    <3>2. bus.by \in Threads \cup {None}
      BY <3>1 DEF Emitters, Threads, Singles
    <3> QED BY <2>2, <3>1, <3>2 DEF Typed, BusOK, BusTypes, BusTypeOK
  <2> QED BY <2>4, <2>5 DEF Typed, ThreadsOK, PlacesOK, MutexOK, HandOK, SetsOK, TypeOK, Links
<1> QED BY <1>1, TypedInvariance, PTL

-----------------------------------------------------------------------------
(* Circles of threads that wait for each other *)

\* The bus's holder, at rest but for its event, waits for nobody when no channel is full.
LEMMA EmitterGoesOn ==
  ASSUME Typed, \A s \in Subs : ~Full(s), NEW t \in Threads, bus.by = t
  PROVE  WaitsFor(t) = {}
<1>1. t \in Emitters
  BY NoneAssumption DEF Typed, BusOK, BusTypes
<1>2. at[t] = "idle"
  BY <1>1 DEF Typed, ThreadsOK, PlacesOK
<1>3. ~NeedsBus(t)
  BY <1>1, Names DEF NeedsBus, Emitters
<1> QED BY <1>2, <1>3 DEF WaitsFor, NeedsMutex, NeedsDB

\* The database's holder waits for the bus at most.
LEMMA UpdateWaitsForBus ==
  ASSUME Typed, \A s \in Subs : ~Full(s), NEW u \in WaitsFor("order")
  PROVE  u = bus.by
<1>1. at["order"] = "idle"
  BY DEF Typed, ThreadsOK, PlacesOK, Emitters
<1> QED BY <1>1 DEF WaitsFor, NeedsMutex, NeedsDB

\* The holder of the tracker's mutex waits for the database at most, but for a
\* goroutine of the ticker that sends a peer.
LEMMA SaverWaitsForUpdate ==
  ASSUME Typed, \A s \in Subs : ~Full(s), \A k \in Ticks : at[k] # "send",
         NEW t \in Threads, mtx = t, NEW u \in WaitsFor(t)
  PROVE  u = db
<1>1. (t = "loop" /\ at[t] = "save") \/ (t = "stop" /\ at[t] = "close")
  BY NoneAssumption DEF Typed, ThreadsOK, MutexOK
<1>2. want[t] = None /\ bus.by # t
  BY <1>1, Names DEF Typed, BusOK, BusTypes, WantOK, Emitters
<1> QED BY <1>1, <1>2, Names DEF WaitsFor, NeedsBus, NeedsMutex

LEMMA WaitsForHolder ==
  ASSUME Typed, \A s \in Subs : ~Full(s), \A k \in Ticks : at[k] # "send",
         NEW t \in Threads, NEW u \in WaitsFor(t)
  PROVE  u = bus.by \/ u = mtx \/ u = db
<1>1. at[t] # "send"
  BY DEF Typed, ThreadsOK, PlacesOK, Threads, Singles, Emitters
<1> QED BY <1>1 DEF WaitsFor

\* Threads wait in a circle only when a channel is full or while a peer is sent to the
\* loop: the mutexes alone are taken in one order, the tracker's, the database's, the
\* bus's.
THEOREM NoCircleOfMutexes == Spec => []DeadlockNeedsChannel
<1>1. Typed => DeadlockNeedsChannel
  <2> SUFFICES ASSUME Typed, \A s \in Subs : ~Full(s), \A k \in Ticks : at[k] # "send", Stuck
               PROVE  FALSE
    BY DEF DeadlockNeedsChannel
  <2>1. PICK C : /\ C \subseteq Threads /\ C # {}
                 /\ \A t \in C : WaitsFor(t) # {} /\ \E u \in C : u \in WaitsFor(t)
    <3> DEFINE waiting == {t \in Threads : WaitsFor(t) # {}}
    <3>1. PICK C \in (SUBSET waiting) \ {{}} : \A t \in C : WaitsFor(t) \cap C # {}
      BY DEF Stuck
    <3>2. \A t \in C : \E u \in C : u \in WaitsFor(t)
      BY <3>1
    <3> QED BY <3>1, <3>2
  <2>2. bus.by \notin C
    BY <2>1, EmitterGoesOn
  <2>3. db \notin C
    <3> SUFFICES ASSUME db \in C PROVE FALSE
      OBVIOUS
    <3>1. db = "order"
      BY <2>1, NoneAssumption DEF Typed, ThreadsOK
    <3> QED BY <2>1, <2>2, <3>1, UpdateWaitsForBus
  <2>4. mtx \notin C
    BY <2>1, <2>3, SaverWaitsForUpdate
  <2> QED BY <2>1, <2>2, <2>3, <2>4, WaitsForHolder
<1> QED BY <1>1, TypedInvariance, PTL

-----------------------------------------------------------------------------
(* What the tracker knows *)

PeerEvent == PeerEvents(TrackerSubs)

\* One event undoes the other.
Opposed(e, c) == c.peer = e.peer /\ c.type = Opposite(e.type)

\* What e tells is so.
IsSo(e) ==
  IF e.type \in Follows THEN e.type = "follow" <=> e.peer \in fans
  ELSE e.type = "connected" <=> e.peer \in up

\* The places of an event on its way to the tracker's loop: not reported by the network,
\* not sent to the tracker's channel yet, in the channel, in the loop's hand.
Unreported(e) == e.type \in Links /\ news[e.peer] # <<>>

OnBus(e) == \E t \in Emitters : want[t] = e /\ (bus.by = t => e.type \in bus.sinks)

Queued(e) == e \in ToSet(queue[e.type])

Held(e) == at["loop"] \in {"lock", "save"} /\ hand["loop"] = e

Behind(e, c) == Unreported(e) \/ OnBus(e) \/ OnBus(c)

Waits(e, c) == Behind(e, c) \/ Queued(e) \/ Queued(c)

Pending(e, c) == Waits(e, c) \/ Held(e) \/ Held(c)

\* An event is so, or another one is behind it.
EventTrue(e, c) ==
  /\ OnBus(e) => Unreported(e) \/ OnBus(c) \/ IsSo(e)
  /\ Queued(e) => Behind(e, c) \/ Queued(c) \/ IsSo(e)
  /\ Held(e) => Waits(e, c) \/ IsSo(e)

NewsTrue == \A p \in Peers : news[p] # <<>> => IsSo(news[p][Len(news[p])])

Truths ==
  /\ NewsTrue
  /\ \A e, c \in PeerEvent : Opposed(e, c) /\ e.peer \notin blurred => EventTrue(e, c)

\* The maps are right, or an event is pending.
MapTrue(e, c) ==
  /\ e.type = "follow" =>
       Pending(e, c) \/ at["loop"] = "load" \/ (e.peer \in followers <=> e.peer \in fans)
  /\ e.type = "connected" => Pending(e, c) \/ (e.peer \in connected => e.peer \in up)

Maps ==
  /\ at["loop"] = "load" => followers = {} /\ connected = {}
  /\ connected \ blurred \subseteq followers
  /\ \A e, c \in PeerEvent : Opposed(e, c) /\ e.peer \notin blurred => MapTrue(e, c)

LEMMA OpposedIs ==
  ASSUME NEW e \in PeerEvent, NEW c \in PeerEvent, Opposed(e, c)
  PROVE  /\ Opposed(c, e) /\ c # e /\ c.peer = e.peer
         /\ e.peer \in Peers /\ e.type \in TrackerSubs /\ c.type = Opposite(e.type)
         /\ c.type \in Links <=> e.type \in Links
         /\ IsSo(c) <=> ~IsSo(e)
BY DEF PeerEvent, PeerEvents, Opposed, Opposite, TrackerSubs, Links, Follows, IsSo

\* Each thread emits its own events.
LEMMA EmitterOf ==
  ASSUME Typed, NEW e \in PeerEvent, NEW t \in Emitters, want[t] = e
  PROVE  IF e.type \in Links THEN t = "network" ELSE t \in Handlers
<1>1. e # None /\ e.type \in TrackerSubs /\ e # [type |-> "order"]
  BY NoneAssumption DEF PeerEvent, PeerEvents, Events, TrackerSubs
<1>2. CASE t = "network"
  BY <1>1, <1>2 DEF Typed, BusOK, WantOK, PeerEvents
<1>3. CASE t \in Handlers
  <2>1. e.type \in Follows
    BY <1>1, <1>3 DEF Typed, BusOK, WantOK, PeerEvents
  <2> QED BY <1>3, <2>1 DEF Links, Follows
<1>4. CASE t = "order"
  BY <1>1, <1>4 DEF Typed, BusOK, WantOK
<1> QED BY <1>2, <1>3, <1>4 DEF Emitters

\* What a handler's event tells is so.
Tells(e) == e.type = "follow" <=> e.peer \in fans

\* Two handlers have an event of one peer each.
Fellows(h, k) ==
  h # k /\ want[h] # None /\ want[k] # None /\ want[h].peer = want[k].peer

\* Of two handlers with an event of one peer the first has the bus, and the last tells
\* what is so, as does one alone.
InTurn(h) ==
  /\ (\A k \in Handlers : ~Fellows(h, k)) => Tells(want[h])
  /\ \A k \in Handlers : Fellows(h, k) => bus.by \in {h, k} /\ (Tells(want[h]) <=> bus.by # h)

Turns ==
  \A h \in Handlers : want[h] # None /\ want[h].peer \notin blurred => InTurn(h)

LEMMA TurnsKept ==
  ASSUME Turns, blurred \subseteq blurred', UNCHANGED <<bus, fans>>,
         \A h \in Handlers : want'[h] = want[h]
  PROVE  Turns'
BY DEF Turns, InTurn, Fellows, Tells

\* An emit takes the bus, goes on or ends.
LEMMA TurnsContinue ==
  ASSUME Typed, Turns, NEW t \in Emitters, bus.by = None \/ bus.by = t, NEW sinks,
         Continue(t, sinks), blurred \subseteq blurred', fans' = fans
  PROVE  Turns'
<1> SUFFICES ASSUME NEW h \in Handlers, want'[h] # None, want'[h].peer \notin blurred'
             PROVE  InTurn(h)'
  BY DEF Turns
<1>1. /\ want \in [Threads -> Events \cup {None}] /\ Handlers \subseteq Threads /\ t \in Threads
      /\ \A k \in Handlers : k # None
  BY Names DEF Typed, BusOK, WantOK, Threads, Singles, Emitters
<1>2. CASE sinks = {}
  <2>1. bus'.by = None /\ \A k \in Handlers : want'[k] = IF k = t THEN None ELSE want[k]
    BY <1>1, <1>2 DEF Continue, Free
  <2>2. h # t /\ want'[h] = want[h] /\ InTurn(h)
    BY <2>1 DEF Turns
  <2>3. \A k \in Handlers : ~Fellows(h, k)'
    BY <1>1, <2>1, <2>2 DEF InTurn, Fellows
  <2>4. Tells(want[h])
    <3>1. CASE \A k \in Handlers : ~Fellows(h, k)
      BY <2>2, <3>1 DEF InTurn
    <3>2. CASE \E k \in Handlers : Fellows(h, k)
      <4>1. bus.by # h
        BY <1>1, <2>2
      <4> QED BY <2>2, <3>2, <4>1 DEF InTurn
    <3> QED BY <3>1, <3>2
  <2> QED BY <2>2, <2>3, <2>4 DEF InTurn, Tells
<1>3. CASE sinks # {}
  <2>1. bus'.by = t /\ want' = want
    BY <1>3 DEF Continue
  <2>2. InTurn(h)
    BY <2>1 DEF Turns
  <2>3. CASE bus.by = t
    BY <2>1, <2>2, <2>3 DEF InTurn, Fellows, Tells
  <2>4. CASE bus.by = None
    <3>1. \A k \in Handlers : ~Fellows(h, k)
      BY <1>1, <2>2, <2>4 DEF InTurn
    <3> QED BY <2>1, <2>2, <3>1 DEF InTurn, Fellows, Tells
  <2> QED BY <2>3, <2>4
<1> QED BY <1>2, <1>3

\* A handler changes the file for p: an event of p that has the bus is not so any more,
\* and one that has not blurs p.
LEMMA TurnsChange ==
  ASSUME Typed, Turns, NEW h0 \in Handlers, NEW p \in Peers, HandleFollow(h0, p)
  PROVE  Turns'
<1> DEFINE x == Event(IF p \in fans THEN "unfollow" ELSE "follow", p)
<1>1. /\ want[h0] = None /\ want' = [want EXCEPT ![h0] = x] /\ bus' = bus
      /\ fans' = (IF p \in fans THEN fans \ {p} ELSE fans \cup {p})
      /\ blurred' = IF Unsent(p) THEN blurred \cup {p} ELSE blurred
  BY DEF HandleFollow
<1>2. x.peer = p /\ x # None /\ (x.type = "follow" <=> p \in fans')
  <2>1. x \in Events
    BY DEF Event, Events, TrackerSubs
  <2> QED BY <2>1, <1>1, NoneAssumption DEF Event
<1> HIDE DEF x
<1>3. /\ want \in [Threads -> Events \cup {None}] /\ Handlers \subseteq Threads
      /\ \A k \in Handlers : k # None /\ (bus.by = k => want[k] # None)
  BY Names DEF Typed, BusOK, BusTypes, WantOK, Threads
<1>4. bus.by # h0 /\ \A k \in Handlers : want'[k] = IF k = h0 THEN x ELSE want[k]
  BY <1>1, <1>3
<1>5. p \notin blurred' => \A k \in Handlers : want[k] # None /\ want[k].peer = p => bus.by = k
  BY <1>1 DEF Unsent
<1> SUFFICES ASSUME NEW h \in Handlers, want'[h] # None, want'[h].peer \notin blurred'
             PROVE  InTurn(h)'
  BY DEF Turns
<1>6. CASE want'[h].peer # p
  <2>1. h # h0 /\ want'[h] = want[h] /\ InTurn(h)
    BY <1>1, <1>2, <1>4, <1>6 DEF Turns
  <2>2. \A k \in Handlers : Fellows(h, k)' <=> Fellows(h, k)
    BY <1>1, <1>2, <1>4, <1>6, <2>1 DEF Fellows
  <2>3. Tells(want[h])' <=> Tells(want[h])
    BY <1>1, <1>6, <2>1 DEF Tells
  <2> QED BY <1>1, <2>1, <2>2, <2>3 DEF InTurn
<1>7. CASE want'[h].peer = p /\ h = h0
  <2>1. Tells(want[h])' /\ want'[h] = x
    BY <1>2, <1>4, <1>7 DEF Tells
  <2>2. \A k \in Handlers : Fellows(h, k)' => bus.by = k
    BY <1>4, <1>5, <1>7, <2>1 DEF Fellows
  <2> QED BY <1>1, <1>4, <1>7, <2>1, <2>2 DEF InTurn
<1>8. CASE want'[h].peer = p /\ h # h0
  <2>1. want'[h] = want[h] /\ bus.by = h /\ InTurn(h)
    BY <1>1, <1>4, <1>5, <1>8 DEF Turns
  <2>2. \A k \in Handlers : ~Fellows(h, k)
    BY <1>1, <1>4, <1>5, <1>8, <2>1 DEF Fellows
  <2>3. Tells(want[h])
    BY <2>1, <2>2 DEF InTurn
  <2>4. ~Tells(want[h])'
    BY <1>1, <1>8, <2>1, <2>3 DEF Tells
  <2>5. Fellows(h, h0)' /\ \A k \in Handlers : Fellows(h, k)' => bus.by \in {h, k}
    BY <1>2, <1>4, <1>8, <2>1 DEF Fellows
  <2> QED BY <1>1, <2>1, <2>4, <2>5 DEF InTurn
<1> QED BY <1>6, <1>7, <1>8

LEMMA NextTurns ==
  ASSUME Typed, Turns, Next
  PROVE  Turns'
<1>1. ASSUME NEW p \in Peers, Change(p) \/ Dialled(p) PROVE Turns'
  BY <1>1, TurnsKept DEF Change, Dialled, Toggle, busVars
<1>2. ASSUME NEW p \in Peers, Report(p) PROVE Turns'
  <2>1. /\ want' = [want EXCEPT !["network"] = Head(news[p])]
        /\ UNCHANGED <<bus, fans, blurred>>
    BY <1>2 DEF Report
  <2>2. \A h \in Handlers : want'[h] = want[h]
    BY <2>1, Names DEF Typed, BusOK, WantOK, Threads
  <2> QED BY <2>1, <2>2, TurnsKept
<1>3. ASSUME NEW h \in Handlers, NEW p \in Peers, HandleFollow(h, p) PROVE Turns'
  BY <1>3, TurnsChange
<1>4. CASE UpdateOrder
  <2>1. /\ want' = [want EXCEPT !["order"] = [type |-> "order"]]
        /\ UNCHANGED <<bus, fans, blurred>>
    BY <1>4 DEF UpdateOrder
  <2>2. \A h \in Handlers : want'[h] = want[h]
    BY <2>1, Names DEF Typed, BusOK, WantOK, Threads
  <2> QED BY <2>1, <2>2, TurnsKept
<1>5. CASE EmitSend
  <2>1. PICK s \in Subs : s \in bus.sinks /\ Continue(bus.by, bus.sinks \ {s})
    BY <1>5 DEF EmitSend, Send, NextSink
  <2>2. PICK t \in Emitters : bus.by = t
    BY <2>1 DEF Typed, BusOK, BusTypes
  <2>3. Continue(t, bus.sinks \ {s}) /\ UNCHANGED <<blurred, fans>>
    BY <1>5, <2>1, <2>2 DEF EmitSend, worldVars, Continue
  <2> QED BY <2>2, <2>3, TurnsContinue
<1>6. ASSUME NEW t \in Threads, EmitLock(t) PROVE Turns'
  <2>1. /\ want[t] # None /\ bus.by = None /\ Continue(t, Sinks(want[t]))
        /\ blurred \subseteq blurred' /\ fans' = fans
    BY <1>6 DEF EmitLock, Lock, Unlocked, Free, worldVars
  <2>2. t \in Emitters
    BY <2>1 DEF Typed, BusOK, WantOK
  <2> QED BY <2>1, <2>2, TurnsContinue
<1>7. CASE TrackerSubscribe
  BY <1>7, TurnsKept DEF TrackerSubscribe, Subscribe, worldVars
<1>8. ASSUME NEW s \in TrackerSubs, LoopTake(s) PROVE Turns'
  BY <1>8, TurnsKept DEF LoopTake, worldVars
<1>9. ASSUME NEW t \in DOMAIN Reader, ReaderTake(t) PROVE Turns'
  BY <1>9, TurnsKept DEF ReaderTake, worldVars
<1>10. CASE Aside
  <2>1. UNCHANGED busVars
    BY <1>10, AsideRests
  <2>2. blurred \subseteq blurred' /\ fans' = fans
    BY <1>10, AsideRestsFile
  <2> QED BY <2>1, <2>2, TurnsKept DEF busVars
<1> QED BY <1>1, <1>2, <1>3, <1>4, <1>5, <1>6, <1>7, <1>8, <1>9, <1>10, NextIs

\* A step that leaves events where they are, or that takes one out of the loop's hand.
LEMMA TruthsKept ==
  ASSUME Truths, blurred \subseteq blurred', UNCHANGED <<up, fans, news>>,
         \A e \in PeerEvent : e.peer \notin blurred' =>
            /\ OnBus(e)' <=> OnBus(e)
            /\ Queued(e)' <=> Queued(e)
            /\ Held(e)' => Held(e)
  PROVE  Truths'
<1>1. NewsTrue'
  BY DEF Truths, NewsTrue, IsSo
<1>2. ASSUME NEW e \in PeerEvent, NEW c \in PeerEvent, Opposed(e, c), e.peer \notin blurred'
      PROVE  EventTrue(e, c)'
  <2>1. EventTrue(e, c) /\ c.peer = e.peer
    BY <1>2 DEF Truths, Opposed
  <2>2. (Unreported(e)' <=> Unreported(e)) /\ (IsSo(e)' <=> IsSo(e))
    BY DEF Unreported, IsSo
  <2> QED BY <2>1, <2>2, <1>2 DEF EventTrue, Behind, Waits
<1> QED BY <1>1, <1>2 DEF Truths

\* With e0 sent to s, the event e moves to its channel when it is the one sent.
Sends(e0, s, e) ==
  /\ Queued(e)' <=> Queued(e) \/ (e = e0 /\ s = e.type)
  /\ OnBus(e)' <=> OnBus(e) /\ ~(e = e0 /\ s = e.type)

\* The bus sends the event to the tracker's channel for it, or to another sink.
LEMMA SendMoves ==
  ASSUME Typed, Turns, EmitSend
  PROVE  \E e0 \in Events, s \in Subs :
           /\ \E t \in Emitters : want[t] = e0 /\ bus.by = t /\ s \in bus.sinks
           /\ s \in TrackerSubs => s = e0.type
           /\ \A e \in PeerEvent : e.peer \notin blurred => Sends(e0, s, e)
           /\ \A e \in PeerEvent : Opposed(e, e0) /\ e.peer \notin blurred /\ OnBus(e) => IsSo(e)
<1>1. PICK s \in Subs :
        /\ s \in bus.sinks /\ queue' = [queue EXCEPT ![s] = Append(@, want[bus.by])]
        /\ Continue(bus.by, bus.sinks \ {s})
  BY DEF EmitSend, Send, NextSink
<1>2. PICK t \in Emitters : bus.by = t
  BY <1>1 DEF Typed, BusOK, BusTypes
<1>3. PICK e0 \in Events : want[t] = e0 /\ \A z \in bus.sinks : e0.type \in Takes[z]
  BY <1>2, NoneAssumption, Names DEF Typed, BusOK, BusTypes, WantOK, Emitters, Threads, Singles
<1>4. s \in TrackerSubs => s = e0.type
  BY <1>1, <1>3 DEF Takes, Subs, TrackerSubs
<1>5. queue[s] \in Seq(Events) /\ queue' = [queue EXCEPT ![s] = Append(@, e0)]
      /\ ToSet(Append(queue[s], e0)) = ToSet(queue[s]) \cup {e0}
  BY <1>1, <1>2, <1>3, ToSetAppend DEF Typed, BusOK, BusTypes
<1>6. ASSUME NEW e \in PeerEvent
      PROVE  Queued(e)' <=> Queued(e) \/ (e = e0 /\ s = e.type)
  <2>1. e.type \in Subs
    BY DEF PeerEvent, PeerEvents, Subs
  <2>2. queue'[e.type] = IF e.type = s THEN Append(queue[s], e0) ELSE queue[e.type]
    BY <1>5, <2>1 DEF Typed, BusOK, BusTypes
  <2> QED BY <1>5, <2>2 DEF Queued
<1>7. ASSUME NEW e \in PeerEvent, e.peer \notin blurred
      PROVE  OnBus(e)' <=> OnBus(e) /\ ~(e = e0 /\ s = e.type)
  <2>1. None # t /\ t \in Threads /\ None # e
    BY NoneAssumption, Names DEF Emitters, Threads, Singles, PeerEvent, PeerEvents, Events
  <2>2. \A u \in Emitters : want[u] = e0 /\ e0 = e => u = t
    <3> SUFFICES ASSUME NEW u \in Emitters, want[u] = e, e0 = e, u # t PROVE FALSE
      OBVIOUS
    <3>1. u \in Handlers /\ t \in Handlers
      BY <1>3, EmitterOf
    <3>2. Fellows(t, u) /\ Fellows(u, t)
      BY <1>3, <2>1 DEF Fellows
    <3>3. InTurn(t) /\ InTurn(u)
      BY <1>3, <1>7, <2>1, <3>1 DEF Turns
    <3> QED BY <1>2, <1>3, <3>1, <3>2, <3>3 DEF InTurn
  <2>3. want \in [Threads -> Events \cup {None}] /\ Emitters \subseteq Threads
    BY DEF Typed, BusOK, WantOK, Emitters, Threads, Singles
  <2>4. CASE bus.sinks \ {s} = {}
    <3>1. bus' = Free /\ want' = [want EXCEPT ![t] = None]
      BY <1>1, <1>2, <2>4 DEF Continue
    <3>2. bus'.by = None /\ bus.sinks = {s}
      BY <3>1, <2>4, <1>1 DEF Free
    <3>3. \A u \in Emitters : want'[u] = IF u = t THEN None ELSE want[u]
      BY <3>1, <2>3
    <3>4. OnBus(e)' <=> \E u \in Emitters : u # t /\ want[u] = e
      BY <3>2, <3>3, <2>1, Names DEF OnBus, Emitters
    <3>5. OnBus(e) <=> (e = e0 /\ e.type = s) \/ \E u \in Emitters : u # t /\ want[u] = e
      BY <1>2, <1>3, <3>2 DEF OnBus
    <3> QED BY <3>4, <3>5, <2>2
  <2>5. CASE bus.sinks \ {s} # {}
    <3>1. bus' = [by |-> t, sinks |-> bus.sinks \ {s}] /\ want' = want
      BY <1>1, <1>2, <2>5 DEF Continue
    <3>2. OnBus(e)' <=> \E u \in Emitters : want[u] = e /\ (t = u => e.type \in bus.sinks \ {s})
      BY <3>1 DEF OnBus
    <3> QED BY <3>2, <1>2, <1>3, <2>2 DEF OnBus
  <2> QED BY <2>4, <2>5
<1>8. \A e \in PeerEvent : e.peer \notin blurred => Sends(e0, s, e)
  BY <1>6, <1>7 DEF Sends
<1>9. ASSUME NEW e \in PeerEvent, Opposed(e, e0), e.peer \notin blurred, OnBus(e)
      PROVE  IsSo(e)
  <2>1. e0 \in PeerEvent /\ e0 # e /\ e0.peer = e.peer /\ (e0.type \in Links <=> e.type \in Links)
        /\ e # None /\ e0 # None
    BY <1>9, NoneAssumption
       DEF Opposed, Opposite, PeerEvent, PeerEvents, Events, TrackerSubs, Links
  <2>2. PICK u \in Emitters : want[u] = e
    BY <1>9 DEF OnBus
  <2>3. u # t
    BY <1>3, <2>1, <2>2
  <2>4. u \in Handlers /\ t \in Handlers /\ e.type \notin Links
    BY <1>3, <2>1, <2>2, <2>3, EmitterOf
  <2>5. Fellows(u, t) /\ InTurn(u)
    BY <1>3, <1>9, <2>1, <2>2, <2>3, <2>4 DEF Fellows, Turns
  <2>6. Tells(e)
    BY <1>2, <2>2, <2>3, <2>4, <2>5 DEF InTurn
  <2> QED BY <2>4, <2>6 DEF IsSo, Tells, Links, Follows, PeerEvent, PeerEvents, TrackerSubs
<1> QED BY <1>1, <1>2, <1>3, <1>4, <1>8, <1>9

LEMMA SendTruths ==
  ASSUME Typed, Turns, Truths, EmitSend
  PROVE  Truths'
<1>1. PICK e0 \in Events, s \in Subs :
           /\ \E t \in Emitters : want[t] = e0 /\ bus.by = t /\ s \in bus.sinks
           /\ \A e \in PeerEvent : e.peer \notin blurred => Sends(e0, s, e)
           /\ \A e \in PeerEvent : Opposed(e, e0) /\ e.peer \notin blurred /\ OnBus(e) => IsSo(e)
  BY SendMoves
<1>2. UNCHANGED <<at, hand, up, fans, news, blurred>>
  BY DEF EmitSend, worldVars
<1>3. NewsTrue'
  BY <1>2 DEF Truths, NewsTrue, IsSo
<1>4. ASSUME NEW e \in PeerEvent, NEW c \in PeerEvent, Opposed(e, c), e.peer \notin blurred
      PROVE  EventTrue(e, c)'
  <2>1. EventTrue(e, c)
    BY <1>4 DEF Truths
  <2>2. (Unreported(e)' <=> Unreported(e)) /\ (IsSo(e)' <=> IsSo(e)) /\ (Held(e)' <=> Held(e))
    BY <1>2 DEF Unreported, IsSo, Held
  <2>3. e = e0 /\ s = e.type => OnBus(e)
    BY <1>1 DEF OnBus
  <2>4. Sends(e0, s, e) /\ Sends(e0, s, c)
    BY <1>1, <1>4 DEF Opposed
  <2>5. c = e0 /\ OnBus(e) => IsSo(e)
    BY <1>1, <1>4
  <2> QED BY <2>1, <2>2, <2>3, <2>4, <2>5 DEF Sends, EventTrue, Waits, Behind
<1> QED BY <1>2, <1>3, <1>4 DEF Truths

\* A step that leaves the maps alone, with every pending event still pending.
LEMMA MapsKept ==
  ASSUME Maps, blurred \subseteq blurred', UNCHANGED <<up, fans, followers, connected>>,
         at'["loop"] = "load" <=> at["loop"] = "load",
         \A e, c \in PeerEvent : Opposed(e, c) /\ e.peer \notin blurred' =>
           (Pending(e, c) => Pending(e, c)')
  PROVE  Maps'
BY DEF Maps, MapTrue

LEMMA SendMaps ==
  ASSUME Typed, Turns, Maps, EmitSend
  PROVE  Maps'
<1>1. PICK e0 \in Events, s \in Subs :
           /\ s \in TrackerSubs => s = e0.type
           /\ \A e \in PeerEvent : e.peer \notin blurred => Sends(e0, s, e)
  BY SendMoves
<1>2. UNCHANGED <<at, hand, up, fans, news, blurred, followers, connected>>
  BY DEF EmitSend, worldVars, mapVars
<1>3. \A e, c \in PeerEvent :
        Opposed(e, c) /\ e.peer \notin blurred' => (Pending(e, c) => Pending(e, c)')
  <2> SUFFICES ASSUME NEW e \in PeerEvent, NEW c \in PeerEvent, Opposed(e, c),
                      e.peer \notin blurred', Pending(e, c)
               PROVE  Pending(e, c)'
    OBVIOUS
  <2>1. (Unreported(e)' <=> Unreported(e)) /\ (Held(e)' <=> Held(e)) /\ (Held(c)' <=> Held(c))
    BY <1>2 DEF Unreported, Held
  <2>2. Sends(e0, s, e) /\ Sends(e0, s, c)
    BY <1>1, <1>2 DEF Opposed
  <2> QED BY <2>1, <2>2 DEF Sends, Pending, Waits, Behind
<1> QED BY <1>2, <1>3, MapsKept

\* An event that is emitted is on its way, unless the tracker does not hear it.
LEMMA LockMoves ==
  ASSUME Typed, NEW t \in Threads, EmitLock(t)
  PROVE  \A e \in PeerEvent : e.peer \notin blurred' => (OnBus(e)' <=> OnBus(e))
<1>1. want[t] # None /\ bus.by = None /\ Continue(t, Sinks(want[t])) /\ subs' = subs
      /\ blurred' = blurred \cup Unheard(t)
  BY DEF EmitLock, Lock, Unlocked, Free
<1>2. t \in Emitters /\ want[t] \in Events
  BY <1>1 DEF Typed, BusOK, WantOK
<1> SUFFICES ASSUME NEW e \in PeerEvent, e.peer \notin blurred'
             PROVE  OnBus(e)' <=> OnBus(e)
  OBVIOUS
<1>3. e # None /\ want \in [Threads -> Events \cup {None}] /\ Emitters \subseteq Threads
      /\ None \notin Emitters
  BY NoneAssumption, Names
     DEF Typed, BusOK, WantOK, PeerEvent, PeerEvents, Events, Emitters, Threads, Singles
<1>4. want[t] = e => e.type \in ToSet(subs)
  BY <1>1 DEF Unheard, PeerEvent, PeerEvents
<1>5. e.type \in Takes[e.type]
  BY DEF PeerEvent, PeerEvents, Takes, Subs, TrackerSubs
<1>6. OnBus(e) <=> \E u \in Emitters : want[u] = e
  BY <1>1, <1>3 DEF OnBus
<1>7. CASE Sinks(want[t]) = {}
  <2>1. bus'.by = None /\ want' = [want EXCEPT ![t] = None]
    BY <1>1, <1>7 DEF Continue, Free
  <2>2. want[t] # e
    BY <1>4, <1>5, <1>7 DEF Sinks
  <2> QED BY <2>1, <2>2, <1>3, <1>6 DEF OnBus
<1>8. CASE Sinks(want[t]) # {}
  <2>1. bus' = [by |-> t, sinks |-> Sinks(want[t])] /\ want' = want
    BY <1>1, <1>8 DEF Continue
  <2>2. want[t] = e => e.type \in Sinks(want[t])
    BY <1>4, <1>5 DEF Sinks
  <2> QED BY <2>1, <2>2, <1>6 DEF OnBus
<1> QED BY <1>7, <1>8

LEMMA LockKnows ==
  ASSUME Typed, Truths, Maps, NEW t \in Threads, EmitLock(t)
  PROVE  Truths' /\ Maps'
<1>1. /\ UNCHANGED <<queue, at, hand, up, fans, news, followers, connected>>
      /\ blurred \subseteq blurred'
  BY DEF EmitLock, Lock, worldVars, mapVars, threadVars
<1>2. \A e \in PeerEvent : e.peer \notin blurred' =>
         /\ OnBus(e)' <=> OnBus(e)
         /\ Queued(e)' <=> Queued(e)
         /\ Held(e)' <=> Held(e)
         /\ Unreported(e)' <=> Unreported(e)
  BY <1>1, LockMoves DEF Queued, Held, Unreported
<1>3. Truths'
  BY <1>1, <1>2, TruthsKept
<1>4. \A e, c \in PeerEvent : Opposed(e, c) /\ e.peer \notin blurred' => (Pending(e, c) => Pending(e, c)')
  BY <1>2 DEF Pending, Waits, Behind, Opposed
<1> QED BY <1>1, <1>3, <1>4, MapsKept

\* With e0 taken, e leaves the channel at most when it is the one taken.
Takings(e0, e) ==
  /\ Queued(e)' => Queued(e)
  /\ Queued(e) => Queued(e)' \/ e = e0
  /\ Held(e)' <=> e = e0
  /\ ~Held(e)
  /\ UNCHANGED <<OnBus(e), Unreported(e), IsSo(e)>>

LEMMA TakeMoves ==
  ASSUME Typed, NEW s \in TrackerSubs, LoopTake(s)
  PROVE  \E e0 \in PeerEvent :
           /\ Queued(e0)
           /\ \A c \in PeerEvent : Opposed(e0, c) /\ Queued(c) => e0.peer \in blurred'
           /\ \A e \in PeerEvent : Takings(e0, e)
<1>1. /\ queue[s] # <<>> /\ queue' = [queue EXCEPT ![s] = Tail(@)] /\ s \in Subs
      /\ at["loop"] = "select" /\ at' = [at EXCEPT !["loop"] = "lock"]
      /\ UNCHANGED <<want, bus, up, fans, news>>
  BY DEF LoopTake, Receive, Go, Move, worldVars, Subs
<1>2. PICK e0 \in PeerEvent : e0 = Head(queue[s]) /\ e0.type = s
  BY <1>1, TakenIs DEF Typed, PeerEvent, PeerEvents
<1>3. /\ hand' = [hand EXCEPT !["loop"] = e0]
      /\ blurred' = IF Event(Opposite(s), e0.peer) \in ToSet(queue[Opposite(s)])
                    THEN blurred \cup {e0.peer} ELSE blurred
  BY <1>2 DEF LoopTake
<1>4. queue[s] \in Seq(Events)
  BY <1>1 DEF Typed, BusOK, BusTypes
<1>5. e0 \in ToSet(queue[s]) /\ ToSet(queue[s]) = {e0} \cup ToSet(Tail(queue[s]))
  BY <1>1, <1>2, <1>4, ToSetTail
<1>6. ASSUME NEW c \in PeerEvent, Opposed(e0, c), Queued(c)
      PROVE  e0.peer \in blurred'
  <2>1. c = Event(Opposite(s), e0.peer) /\ c.type = Opposite(s)
    BY <1>2, <1>6 DEF Opposed, Event, PeerEvent, PeerEvents
  <2> QED BY <2>1, <1>3, <1>6 DEF Queued
<1>7. ASSUME NEW e \in PeerEvent PROVE Takings(e0, e)
  <2>1. queue'[e.type] = IF e.type = s THEN Tail(queue[s]) ELSE queue[e.type]
    BY <1>1 DEF Typed, BusOK, BusTypes, PeerEvent, PeerEvents, Subs
  <2>2. (Queued(e)' => Queued(e)) /\ (Queued(e) => Queued(e)' \/ e = e0)
    BY <2>1, <1>5 DEF Queued
  <2>3. at'["loop"] = "lock" /\ hand'["loop"] = e0
    BY <1>1, <1>3 DEF Typed, ThreadsOK, PlacesOK, HandOK, Threads, Singles
  <2>4. (Held(e)' <=> e = e0) /\ ~Held(e)
    BY <2>3, <1>1 DEF Held
  <2>5. UNCHANGED <<OnBus(e), Unreported(e), IsSo(e)>>
    BY <1>1 DEF OnBus, Unreported, IsSo
  <2> QED BY <2>2, <2>4, <2>5 DEF Takings
<1>8. Queued(e0)
  BY <1>2, <1>5 DEF Queued
<1> QED BY <1>6, <1>7, <1>8

LEMMA TakeKnows ==
  ASSUME Typed, Truths, Maps, NEW s \in TrackerSubs, LoopTake(s)
  PROVE  Truths' /\ Maps'
<1>1. PICK e0 \in PeerEvent :
           /\ Queued(e0)
           /\ \A c \in PeerEvent : Opposed(e0, c) /\ Queued(c) => e0.peer \in blurred'
           /\ \A e \in PeerEvent : Takings(e0, e)
  BY TakeMoves
<1>2. /\ UNCHANGED <<up, fans, news, followers, connected>> /\ blurred \subseteq blurred'
      /\ at["loop"] = "select" /\ at'["loop"] = "lock"
  BY Names DEF LoopTake, Go, Move, worldVars, mapVars, Typed, ThreadsOK, PlacesOK, Threads, Singles
<1>3. NewsTrue'
  BY <1>2 DEF Truths, NewsTrue, IsSo
<1>4. ASSUME NEW e \in PeerEvent, NEW c \in PeerEvent, Opposed(e, c), e.peer \notin blurred'
      PROVE  EventTrue(e, c)' /\ (Pending(e, c) => Pending(e, c)')
  <2>1. EventTrue(e, c)
    BY <1>2, <1>4 DEF Truths
  <2>2. Takings(e0, e) /\ Takings(e0, c)
    BY <1>1
  <2>3. Opposed(c, e) /\ c.peer = e.peer
    BY <1>4, OpposedIs
  <2>4. /\ e = e0 => ~Queued(c)
        /\ c = e0 => ~Queued(e)
    BY <1>1, <1>4, <2>3
  <2>5. EventTrue(e, c)'
    BY <2>1, <2>2, <2>4, <1>1 DEF Takings, EventTrue, Waits, Behind
  <2>6. Pending(e, c) => Pending(e, c)'
    BY <2>2 DEF Takings, Pending, Waits, Behind
  <2> QED BY <2>5, <2>6
<1>5. Truths'
  BY <1>3, <1>4 DEF Truths
<1>6. Maps'
  BY <1>2, <1>4, MapsKept
<1> QED BY <1>5, <1>6

\* What the loop's side sees of a step of those who emit: nothing moves in channels or
\* in the loop.
Elsewhere == UNCHANGED <<queue, bus, at, hand, followers, connected, blurred>>

LEMMA StaysPut ==
  ASSUME Elsewhere, NEW e
  PROVE  (Queued(e)' <=> Queued(e)) /\ (Held(e)' <=> Held(e))
BY DEF Elsewhere, Queued, Held

LEMMA ToggleKnows ==
  ASSUME Typed, Truths, Maps, NEW p \in Peers, Toggle(p),
         UNCHANGED <<busVars, at, hand, followers, connected, fans, blurred>>
  PROVE  Truths' /\ Maps'
<1>1. PICK x \in PeerEvents(Links) :
        /\ x.peer = p /\ (x.type = "connected" <=> p \notin up)
        /\ news' = [news EXCEPT ![p] = Append(@, x)]
  <2>1. CASE p \in up
    <3>1. Event("disconnected", p) \in PeerEvents(Links)
      BY DEF Event, PeerEvents, Links
    <3>2. news' = [news EXCEPT ![p] = Append(@, Event("disconnected", p))]
      BY <2>1 DEF Toggle
    <3> QED BY <3>1, <3>2, <2>1 DEF Event
  <2>2. CASE p \notin up
    <3>1. Event("connected", p) \in PeerEvents(Links)
      BY DEF Event, PeerEvents, Links
    <3>2. news' = [news EXCEPT ![p] = Append(@, Event("connected", p))]
      BY <2>2 DEF Toggle
    <3> QED BY <3>1, <3>2, <2>2 DEF Event
  <2> QED BY <2>1, <2>2
<1>2. /\ news \in [Peers -> Seq(PeerEvents(Links))] /\ news[p] \in Seq(PeerEvents(Links))
      /\ up' = (IF p \in up THEN up \ {p} ELSE up \cup {p})
  BY DEF Typed, BusOK, WantOK, Toggle
<1>3. IsSo(x)'
  BY <1>1, <1>2 DEF IsSo, PeerEvents, Links, Follows
<1>5. news'[p] # <<>> /\ news'[p][Len(news'[p])] = x
  BY <1>1, <1>2
<1>6. \A q \in Peers \ {p} : news'[q] = news[q] /\ (q \in up' <=> q \in up)
  BY <1>1, <1>2
<1>7. Elsewhere
  BY DEF Elsewhere, busVars
<1>8. ASSUME NEW q \in Peers, news'[q] # <<>> PROVE IsSo(news[q][Len(news[q])])'
  <2>1. CASE q = p
    BY <2>1, <1>3, <1>5 DEF IsSo
  <2>2. CASE q # p
    <3>1. IsSo(news[q][Len(news[q])]) /\ news[q] # <<>>
      BY <2>2, <1>6, <1>8 DEF Truths, NewsTrue
    <3>2. news[q][Len(news[q])].peer = q
      <4>1. news[q] \in Seq(PeerEvents(Links)) /\ Len(news[q]) \in DOMAIN news[q]
        BY <1>2, <3>1
      <4> QED BY <4>1 DEF Typed, BusOK, WantOK, ToSet
    <3> QED BY <2>2, <3>1, <3>2, <1>6 DEF IsSo
  <2> QED BY <2>1, <2>2
<1>9. NewsTrue'
  BY <1>8 DEF NewsTrue
<1>10. ASSUME NEW e \in PeerEvent, NEW c \in PeerEvent, Opposed(e, c), e.peer \notin blurred
       PROVE  EventTrue(e, c)' /\ MapTrue(e, c)'
  <2>1. EventTrue(e, c) /\ MapTrue(e, c) /\ e.peer \in Peers
    BY <1>10, OpposedIs DEF Truths, Maps
  <2>2. /\ (Queued(e)' <=> Queued(e)) /\ (Held(e)' <=> Held(e))
        /\ (Queued(c)' <=> Queued(c)) /\ (Held(c)' <=> Held(c))
    BY <1>7, StaysPut
  <2>3. (OnBus(e)' <=> OnBus(e)) /\ (OnBus(c)' <=> OnBus(c))
    BY DEF OnBus, busVars
  <2>4. CASE e.peer = p /\ e.type \in Links
    <3>1. Unreported(e)'
      BY <2>4, <1>5 DEF Unreported
    <3> QED BY <3>1, <2>4 DEF EventTrue, MapTrue, Pending, Waits, Behind, Links
  <2>5. CASE ~(e.peer = p /\ e.type \in Links)
    <3>1. Unreported(e)' <=> Unreported(e)
      BY <2>1, <2>5, <1>6 DEF Unreported
    <3>2. IsSo(e)' <=> IsSo(e)
      BY <2>1, <2>5, <1>6 DEF IsSo, Links, Follows, PeerEvent, PeerEvents, TrackerSubs
    <3>3. e.type = "connected" => (e.peer \in up' <=> e.peer \in up)
      BY <2>1, <2>5, <1>6 DEF Links
    <3>4. EventTrue(e, c)'
      BY <3>1, <3>2, <2>1, <2>2, <2>3 DEF EventTrue, Waits, Behind
    <3>5. MapTrue(e, c)'
      BY <3>1, <3>3, <2>1, <2>2, <2>3 DEF MapTrue, Pending, Waits, Behind
    <3> QED BY <3>4, <3>5
  <2> QED BY <2>4, <2>5
<1>11. Truths'
  BY <1>9, <1>10 DEF Truths
<1>12. Maps'
  BY <1>10 DEF Maps
<1> QED BY <1>11, <1>12

\* The network's thread takes over the event x, and one more is on its way.
Reports(x, e) ==
  /\ OnBus(e)' <=> OnBus(e) \/ e = x
  /\ OnBus(e) => e.type \notin Links
  /\ UNCHANGED <<IsSo(e), Queued(e), Held(e)>>

LEMMA ReportKnows ==
  ASSUME Typed, Truths, Maps, NEW p \in Peers, Report(p)
  PROVE  Truths' /\ Maps'
<1>1. /\ want["network"] = None /\ bus.by = None /\ news[p] # <<>>
      /\ want' = [want EXCEPT !["network"] = Head(news[p])]
      /\ news' = [news EXCEPT ![p] = Tail(@)]
      /\ UNCHANGED <<queue, bus, at, hand, up, fans, followers, connected, blurred>>
  BY DEF Report, Unlocked, Free, threadVars, mapVars
<1>2. news \in [Peers -> Seq(PeerEvents(Links))] /\ news[p] \in Seq(PeerEvents(Links))
  BY DEF Typed, BusOK, WantOK
<1>3. PICK x \in PeerEvents(Links) : x = Head(news[p]) /\ x.peer = p /\ x = news[p][1]
  <2>1. Head(news[p]) \in PeerEvents(Links) /\ Head(news[p]) \in ToSet(news[p])
    BY <1>1, <1>2, ToSetTail
  <2>2. Head(news[p]).peer = p
    BY <2>1 DEF Typed, BusOK, WantOK
  <2> QED BY <1>1, <1>2, <2>1, <2>2
<1>4. /\ news'[p] # <<>> => news'[p][Len(news'[p])] = news[p][Len(news[p])]
      /\ news'[p] = <<>> => Len(news[p]) = 1
  <2>1. news'[p] = Tail(news[p])
    BY <1>1, <1>2
  <2> QED BY <2>1, <1>1, <1>2, LastOfTail
<1>5. \A q \in Peers \ {p} : news'[q] = news[q]
  BY <1>1, <1>2
<1>6. NewsTrue'
  <2> SUFFICES ASSUME NEW q \in Peers, news'[q] # <<>> PROVE IsSo(news[q][Len(news[q])])'
    BY DEF NewsTrue
  <2>1. news[q] # <<>> /\ news'[q][Len(news'[q])] = news[q][Len(news[q])]
    BY <1>1, <1>4, <1>5
  <2>2. IsSo(news[q][Len(news[q])])
    BY <2>1 DEF Truths, NewsTrue
  <2> QED BY <1>1, <2>1, <2>2 DEF IsSo
<1>7. news'[p] = <<>> => IsSo(x)
  BY <1>1, <1>3, <1>4 DEF Truths, NewsTrue
<1>8. ASSUME NEW e \in PeerEvent PROVE Reports(x, e)
  <2>1. want \in [Threads -> Events \cup {None}] /\ "network" \in Threads /\ Emitters \subseteq Threads
        /\ e # None /\ None \notin Emitters
    BY NoneAssumption, Names
       DEF Typed, BusOK, WantOK, Threads, Singles, Emitters, PeerEvent, PeerEvents, Events
  <2>2. \A t \in Emitters : want'[t] = IF t = "network" THEN x ELSE want[t]
    BY <1>1, <1>3, <2>1
  <2>3. OnBus(e) <=> \E t \in Emitters : want[t] = e
    BY <1>1, <2>1 DEF OnBus
  <2>4. OnBus(e)' <=> \E t \in Emitters : want'[t] = e
    BY <1>1, <2>1 DEF OnBus
  <2>5. OnBus(e)' <=> OnBus(e) \/ e = x
    BY <1>1, <2>1, <2>2, <2>3, <2>4 DEF Emitters
  <2>6. OnBus(e) => e.type \notin Links
    BY <1>1, <2>1, <2>3, EmitterOf
  <2> QED BY <1>1, <2>5, <2>6 DEF Reports, IsSo, Queued, Held
<1>9. ASSUME NEW e \in PeerEvent, NEW c \in PeerEvent, Opposed(e, c), e.peer \notin blurred
      PROVE  EventTrue(e, c)' /\ (Pending(e, c) => Pending(e, c)')
  <2>1. /\ EventTrue(e, c) /\ e.peer \in Peers /\ e.type \in TrackerSubs /\ c.peer = e.peer
        /\ c.type \in Links <=> e.type \in Links
        /\ c.type = Opposite(e.type)
    BY <1>9, OpposedIs DEF Truths
  <2>2. Reports(x, e) /\ Reports(x, c)
    BY <1>8
  <2>3. CASE e.type \in Links /\ e.peer = p
    <3>1. e = x \/ c = x
      BY <1>3, <2>1, <2>3 DEF PeerEvent, PeerEvents, Links, Opposite
    <3>2. Unreported(e)' <=> news'[p] # <<>>
      BY <2>3 DEF Unreported
    <3>3. ~OnBus(e) /\ ~OnBus(c)
      BY <2>1, <2>2, <2>3 DEF Reports
    <3>4. EventTrue(e, c)'
      BY <3>1, <3>2, <3>3, <2>2, <1>7 DEF Reports, EventTrue, Waits, Behind
    <3>5. Pending(e, c)'
      BY <3>1, <2>2 DEF Reports, Pending, Waits, Behind
    <3> QED BY <3>4, <3>5
  <2>4. CASE ~(e.type \in Links /\ e.peer = p)
    <3>1. e # x /\ c # x
      BY <1>3, <2>1, <2>4 DEF PeerEvents
    <3>2. Unreported(e)' <=> Unreported(e)
      BY <1>5, <2>1, <2>4 DEF Unreported
    <3>3. EventTrue(e, c)'
      BY <3>1, <3>2, <2>1, <2>2 DEF Reports, EventTrue, Waits, Behind
    <3>4. Pending(e, c) => Pending(e, c)'
      BY <3>1, <3>2, <2>2 DEF Reports, Pending, Waits, Behind
    <3> QED BY <3>3, <3>4
  <2> QED BY <2>3, <2>4
<1>10. Truths'
  BY <1>1, <1>6, <1>9 DEF Truths
<1>11. Maps'
  BY <1>1, <1>9, MapsKept
<1> QED BY <1>10, <1>11

\* A handler has changed the file for p, and the event x is on its way.
Changes(x, p, e) ==
  /\ OnBus(e)' <=> OnBus(e) \/ e = x
  /\ UNCHANGED <<Unreported(e), Queued(e), Held(e)>>
  /\ ~(e.type \in Follows /\ e.peer = p) => (IsSo(e)' <=> IsSo(e))

LEMMA ChangeMoves ==
  ASSUME Typed, NEW h \in Handlers, NEW p \in Peers, HandleFollow(h, p)
  PROVE  \E x \in PeerEvents(Follows) :
           x.peer = p /\ IsSo(x)' /\ \A e \in PeerEvent : Changes(x, p, e)
<1>1. /\ want[h] = None /\ fans' = (IF p \in fans THEN fans \ {p} ELSE fans \cup {p})
      /\ UNCHANGED <<queue, bus, at, hand, up, news>>
  BY DEF HandleFollow, threadVars
<1>2. PICK x \in PeerEvents(Follows) :
        /\ x.peer = p /\ (x.type = "follow" <=> p \notin fans)
        /\ want' = [want EXCEPT ![h] = x]
  <2>1. Event("unfollow", p) \in PeerEvents(Follows) /\ Event("follow", p) \in PeerEvents(Follows)
    BY DEF Event, PeerEvents, Follows
  <2>2. CASE p \in fans
    <3>1. want' = [want EXCEPT ![h] = Event("unfollow", p)]
      BY <2>2 DEF HandleFollow
    <3> QED BY <3>1, <2>1, <2>2 DEF Event
  <2>3. CASE p \notin fans
    <3>1. want' = [want EXCEPT ![h] = Event("follow", p)]
      BY <2>3 DEF HandleFollow
    <3> QED BY <3>1, <2>1, <2>3 DEF Event
  <2> QED BY <2>2, <2>3
<1>3. IsSo(x)'
  BY <1>1, <1>2 DEF IsSo, PeerEvents, Follows
<1>4. ASSUME NEW e \in PeerEvent PROVE Changes(x, p, e)
  <2>1. /\ want \in [Threads -> Events \cup {None}] /\ h \in Threads /\ h \in Emitters
        /\ Emitters \subseteq Threads /\ e # None /\ None \notin Emitters
    BY NoneAssumption, Names
       DEF Typed, BusOK, WantOK, Threads, Singles, Emitters, PeerEvent, PeerEvents, Events
  <2>2. bus.by # h
    BY <1>1, <2>1 DEF Typed, BusOK, BusTypes
  <2>3. \A t \in Emitters : want'[t] = IF t = h THEN x ELSE want[t]
    BY <1>2, <2>1
  <2>4. OnBus(e)' <=> OnBus(e) \/ e = x
    BY <1>1, <2>1, <2>2, <2>3 DEF OnBus
  <2>5. ~(e.type \in Follows /\ e.peer = p) => (IsSo(e)' <=> IsSo(e))
    BY <1>1 DEF IsSo
  <2> QED BY <1>1, <2>4, <2>5 DEF Changes, Unreported, Queued, Held
<1> QED BY <1>2, <1>3, <1>4

LEMMA ChangeKnows ==
  ASSUME Typed, Truths, Maps, NEW h \in Handlers, NEW p \in Peers, HandleFollow(h, p)
  PROVE  Truths' /\ Maps'
<1>1. PICK x \in PeerEvents(Follows) :
        x.peer = p /\ IsSo(x)' /\ \A e \in PeerEvent : Changes(x, p, e)
  BY ChangeMoves
<1>2. /\ fans' = (IF p \in fans THEN fans \ {p} ELSE fans \cup {p})
      /\ UNCHANGED <<at, up, news, followers, connected>> /\ blurred \subseteq blurred'
  BY DEF HandleFollow, threadVars, mapVars
<1>3. NewsTrue'
  <2> SUFFICES ASSUME NEW q \in Peers, news[q] # <<>> PROVE IsSo(news[q][Len(news[q])])'
    BY <1>2 DEF NewsTrue
  <2>1. IsSo(news[q][Len(news[q])])
    BY DEF Truths, NewsTrue
  <2>2. news[q][Len(news[q])] \in PeerEvents(Links)
    <3>1. news[q] \in Seq(PeerEvents(Links))
      BY DEF Typed, BusOK, WantOK
    <3> QED BY <3>1
  <2>3. news[q][Len(news[q])].type \notin Follows
    BY <2>2 DEF PeerEvents, Links, Follows
  <2> QED BY <1>2, <2>1, <2>3 DEF IsSo
<1>4. ASSUME NEW e \in PeerEvent, NEW c \in PeerEvent, Opposed(e, c), e.peer \notin blurred'
      PROVE  EventTrue(e, c)' /\ MapTrue(e, c)'
  <2>1. /\ EventTrue(e, c) /\ MapTrue(e, c) /\ e.peer \in Peers /\ e.type \in TrackerSubs
        /\ c.peer = e.peer /\ c.type = Opposite(e.type)
    BY <1>2, <1>4, OpposedIs DEF Truths, Maps
  <2>2. Changes(x, p, e) /\ Changes(x, p, c)
    BY <1>1
  <2>3. CASE e.type \in Follows /\ e.peer = p
    <3>1. e = x \/ c = x
      BY <1>1, <2>1, <2>3 DEF PeerEvent, PeerEvents, Follows, Opposite
    <3>2. EventTrue(e, c)'
      BY <3>1, <2>2, <1>1 DEF Changes, EventTrue, Waits, Behind
    <3>3. MapTrue(e, c)'
      BY <3>1, <2>2, <2>3 DEF Changes, MapTrue, Pending, Waits, Behind, Follows
    <3> QED BY <3>2, <3>3
  <2>4. CASE ~(e.type \in Follows /\ e.peer = p)
    <3>1. e # x /\ c # x
      BY <1>1, <2>1, <2>4 DEF PeerEvents, TrackerSubs, Follows, Opposite
    <3>2. e.type = "follow" => (e.peer \in fans' <=> e.peer \in fans)
      BY <1>2, <2>4 DEF Follows
    <3>3. EventTrue(e, c)'
      BY <3>1, <2>1, <2>2, <2>4 DEF Changes, EventTrue, Waits, Behind
    <3>4. MapTrue(e, c)'
      BY <3>1, <3>2, <2>1, <2>2, <1>2 DEF Changes, MapTrue, Pending, Waits, Behind
    <3> QED BY <3>3, <3>4
  <2> QED BY <2>3, <2>4
<1>5. Truths'
  BY <1>2, <1>3, <1>4 DEF Truths
<1>6. Maps'
  BY <1>2, <1>4 DEF Maps
<1> QED BY <1>5, <1>6

LEMMA OrderKnows ==
  ASSUME Typed, Truths, Maps, UpdateOrder
  PROVE  Truths' /\ Maps'
<1>1. /\ want["order"] = None /\ want' = [want EXCEPT !["order"] = [type |-> "order"]]
      /\ UNCHANGED <<queue, bus, at, hand, up, fans, news, followers, connected, blurred>>
  BY DEF UpdateOrder, mapVars
<1>2. ASSUME NEW e \in PeerEvent
      PROVE  /\ OnBus(e)' <=> OnBus(e)
             /\ UNCHANGED <<Unreported(e), Queued(e), Held(e)>>
  <2>1. /\ want \in [Threads -> Events \cup {None}] /\ Emitters \subseteq Threads /\ e # None
    BY NoneAssumption
       DEF Typed, BusOK, WantOK, Threads, Singles, Emitters, PeerEvent, PeerEvents, Events
  <2>2. e # [type |-> "order"]
    BY DEF PeerEvent, PeerEvents, TrackerSubs
  <2>3. \A t \in Emitters : want'[t] = e <=> want[t] = e
    BY <1>1, <2>1, <2>2
  <2> QED BY <1>1, <2>3 DEF OnBus, Unreported, Queued, Held
<1>3. Truths'
  BY <1>1, <1>2, TruthsKept
<1>4. \A e, c \in PeerEvent : Pending(e, c) => Pending(e, c)'
  BY <1>2 DEF Pending, Waits, Behind
<1> QED BY <1>1, <1>3, <1>4, MapsKept

\* Steps that move no event but, at most, out of the loop's hand.
Calm ==
  /\ UNCHANGED <<want, bus, up, fans, news>> /\ blurred \subseteq blurred'
  /\ \A type \in TrackerSubs : queue'[type] = queue[type]

\* Nothing leaves the loop's hand either.
HandKept ==
  /\ at'["loop"] \in {"lock", "save"} <=> at["loop"] \in {"lock", "save"}
  /\ at["loop"] \in {"lock", "save"} => hand'["loop"] = hand["loop"]

LEMMA CalmFacts ==
  ASSUME Calm, NEW e \in PeerEvent
  PROVE  UNCHANGED <<OnBus(e), Queued(e), Unreported(e), IsSo(e)>>
BY DEF Calm, OnBus, Queued, Unreported, IsSo, PeerEvent, PeerEvents

LEMMA CalmTruths ==
  ASSUME Truths, Calm,
         at'["loop"] \in {"lock", "save"} =>
           at["loop"] \in {"lock", "save"} /\ hand'["loop"] = hand["loop"]
  PROVE  Truths'
<1>1. \A e \in PeerEvent : Held(e)' => Held(e)
  BY DEF Held
<1> QED BY <1>1, CalmFacts, TruthsKept DEF Calm

LEMMA CalmMaps ==
  ASSUME Maps, Calm, HandKept, UNCHANGED <<followers, connected>>,
         at'["loop"] = "load" <=> at["loop"] = "load"
  PROVE  Maps'
<1>1. \A e, c \in PeerEvent : Pending(e, c) => Pending(e, c)'
  <2>1. \A e \in PeerEvent : Held(e)' <=> Held(e)
    BY DEF Held, HandKept
  <2> QED BY <2>1, CalmFacts DEF Pending, Waits, Behind
<1> QED BY <1>1, MapsKept DEF Calm

LEMMA CalmKnows ==
  ASSUME Truths, Maps, Calm, HandKept, UNCHANGED <<followers, connected>>,
         at'["loop"] = "load" <=> at["loop"] = "load"
  PROVE  Truths' /\ Maps'
BY CalmTruths, CalmMaps DEF HandKept

\* When the maps change with an empty hand, or with the hand kept, the other peers'
\* events are as pending as before.
LEMMA CalmPending ==
  ASSUME Calm, HandKept, NEW e \in PeerEvent, NEW c \in PeerEvent
  PROVE  Pending(e, c)' <=> Pending(e, c)
<1>1. (Held(e)' <=> Held(e)) /\ (Held(c)' <=> Held(c))
  BY DEF Held, HandKept
<1>2. UNCHANGED <<OnBus(e), Queued(e), Unreported(e), OnBus(c), Queued(c)>>
  BY CalmFacts
<1> QED BY <1>1, <1>2 DEF Pending, Waits, Behind

\* The tracker is filled, or more of the peers that are up and follow are entered.
LEMMA LoadKnows ==
  ASSUME Typed, Truths, Maps, LoadFollowers
  PROVE  Truths' /\ Maps'
<1>1. /\ at["loop"] = "load" /\ at'["loop"] = "look" /\ followers' = fans /\ connected' = connected
      /\ UNCHANGED <<busVars, up, fans, news, blurred>>
  BY Names DEF LoadFollowers, Go, Move, worldVars, Typed, ThreadsOK, PlacesOK, Threads, Singles
<1>2. Calm /\ HandKept
  BY <1>1 DEF Calm, HandKept, busVars
<1>3. Maps'
  BY <1>1 DEF Maps, MapTrue
<1> QED BY <1>1, <1>2, <1>3, CalmTruths

LEMMA EnterKnows ==
  ASSUME Typed, Truths, Maps, LookAtPeers \/ \E t \in Ticks : TickLook(t)
  PROVE  Truths' /\ Maps'
<1>1. /\ connected' \subseteq connected \cup (up \cap followers)
      /\ UNCHANGED <<busVars, up, fans, news, blurred, followers, hand>>
      /\ \/ at["loop"] = "look" /\ at'["loop"] = "subscribe"
         \/ at'["loop"] = at["loop"]
  BY Names DEF LookAtPeers, TickLook, Go, Move, worldVars, Typed, ThreadsOK, PlacesOK, Threads, Singles
<1>2. Calm /\ HandKept
  BY <1>1 DEF Calm, HandKept, busVars
<1>3. Maps'
  <2>1. ASSUME NEW e \in PeerEvent, NEW c \in PeerEvent, Opposed(e, c), e.peer \notin blurred
        PROVE  MapTrue(e, c)'
    <3>1. MapTrue(e, c) /\ (Pending(e, c)' <=> Pending(e, c))
      BY <1>2, <2>1, CalmPending DEF Maps
    <3> QED BY <1>1, <3>1 DEF MapTrue
  <2>2. at'["loop"] = "load" => followers' = {} /\ connected' = {}
    BY <1>1 DEF Maps
  <2>3. connected' \ blurred' \subseteq followers'
    BY <1>1 DEF Maps
  <2> QED BY <1>1, <2>1, <2>2, <2>3 DEF Maps
<1> QED BY <1>2, <1>3, CalmTruths DEF HandKept

\* Close takes peers out.
LEMMA StopKnows ==
  ASSUME Typed, Truths, Maps, NEW p \in Peers, StopSave(p)
  PROVE  Truths' /\ Maps'
<1>1. /\ connected' = connected \ {p}
      /\ UNCHANGED <<busVars, up, fans, news, blurred, followers, at, hand>>
  BY DEF StopSave, worldVars, threadVars
<1>2. Calm /\ HandKept
  BY <1>1 DEF Calm, HandKept, busVars
<1>3. Maps'
  <2>1. ASSUME NEW e \in PeerEvent, NEW c \in PeerEvent, Opposed(e, c), e.peer \notin blurred
        PROVE  MapTrue(e, c)'
    <3>1. MapTrue(e, c) /\ (Pending(e, c)' <=> Pending(e, c))
      BY <1>2, <2>1, CalmPending DEF Maps
    <3> QED BY <1>1, <3>1 DEF MapTrue
  <2> QED BY <1>1, <2>1 DEF Maps
<1> QED BY <1>2, <1>3, CalmTruths DEF HandKept

\* What the loop does to the maps when it has handled x.
Handled(x) ==
  /\ \A p \in Peers \ {x.peer} :
       (p \in followers' <=> p \in followers) /\ (p \in connected' <=> p \in connected)
  /\ x.peer \notin blurred' =>
       /\ x.peer \in connected' => x.peer \in followers'
       /\ x.type \in Follows => (x.peer \in followers' <=> x.type = "follow")
       /\ x.type \in Follows => (x.peer \in connected' => x.peer \in connected)
       /\ x.type \in Links => (x.peer \in followers' <=> x.peer \in followers)
       /\ x.type = "disconnected" => x.peer \notin connected'

\* The loop lets x go: what it tells is so by then, or an event is behind it.
LEMMA LetGo ==
  ASSUME Typed, SetsOK', Truths, Maps, Calm, NEW x \in PeerEvent, hand["loop"] = x, Handled(x),
         at["loop"] \in {"lock", "save"}, at'["loop"] \notin {"lock", "save", "load"}
  PROVE  Truths' /\ Maps'
<1>1. Truths'
  BY CalmTruths
<1>2. ASSUME NEW e \in PeerEvent, NEW c \in PeerEvent, Opposed(e, c), e.peer \notin blurred'
      PROVE  MapTrue(e, c)'
  <2>1. /\ Opposed(c, e) /\ c # e /\ c.peer = e.peer /\ e.peer \in Peers /\ e.type \in TrackerSubs
        /\ c.type = Opposite(e.type) /\ (c.type \in Links <=> e.type \in Links)
        /\ e.peer \notin blurred
    BY <1>2, OpposedIs DEF Calm
  <2>2. EventTrue(e, c) /\ EventTrue(c, e) /\ MapTrue(e, c)
    BY <1>2, <2>1 DEF Truths, Maps
  <2>3. UNCHANGED <<OnBus(e), Queued(e), Unreported(e), OnBus(c), Queued(c)>>
        /\ (Unreported(c) <=> Unreported(e))
    BY <2>1, CalmFacts DEF Unreported
  <2>4. (Pending(e, c)' <=> Waits(e, c)) /\ (Waits(c, e) <=> Waits(e, c))
    BY <2>3 DEF Pending, Waits, Behind, Held
  <2>5. (Held(e) <=> e = x) /\ (Held(c) <=> c = x)
    BY DEF Held
  <2>6. CASE e.peer # x.peer
    <3>1. e # x /\ c # x
      BY <2>1, <2>6
    <3>2. /\ e.peer \in followers' <=> e.peer \in followers
          /\ e.peer \in connected' <=> e.peer \in connected
      BY <2>1, <2>6 DEF Handled
    <3> QED BY <3>1, <3>2, <2>2, <2>4, <2>5 DEF MapTrue, Pending, Calm
  <2>7. CASE e.peer = x.peer /\ e.type = "follow"
    <3>1. CASE x.type \in Follows
      <4>1. x = e \/ x = c
        BY <2>1, <2>7, <3>1 DEF PeerEvent, PeerEvents, Follows, Opposite
      <4>2. Waits(e, c) \/ IsSo(x)
        BY <4>1, <2>2, <2>4, <2>5 DEF EventTrue
      <4>3. IsSo(x) => (e.peer \in followers' <=> e.peer \in fans')
        BY <1>2, <2>7, <3>1 DEF IsSo, Handled, Follows, Calm
      <4> QED BY <4>2, <4>3, <2>4, <2>7 DEF MapTrue
    <3>2. CASE x.type \in Links
      <4>1. e # x /\ c # x
        BY <2>1, <2>7, <3>2 DEF Links, Opposite
      <4>2. e.peer \in followers' <=> e.peer \in followers
        BY <1>2, <2>7, <3>2 DEF Handled
      <4> QED BY <4>1, <4>2, <2>2, <2>4, <2>5, <2>7 DEF MapTrue, Pending, Calm
    <3> QED BY <3>1, <3>2 DEF PeerEvent, PeerEvents, TrackerSubs, Links, Follows
  <2>8. CASE e.peer = x.peer /\ e.type = "connected"
    <3>1. CASE x.type \in Links
      <4>1. x = e \/ (x = c /\ x.type = "disconnected")
        BY <2>1, <2>8, <3>1 DEF PeerEvent, PeerEvents, Links, Opposite
      <4>2. CASE x = e
        <5>1. Waits(e, c) \/ e.peer \in up'
          BY <4>2, <2>2, <2>5, <2>8 DEF EventTrue, IsSo, Follows, Calm
        <5> QED BY <5>1, <2>4, <2>8 DEF MapTrue
      <4>3. CASE x = c /\ x.type = "disconnected"
        <5>1. e.peer \notin connected'
          BY <4>3, <1>2, <2>8 DEF Handled
        <5> QED BY <5>1, <2>8 DEF MapTrue
      <4> QED BY <4>1, <4>2, <4>3
    <3>2. CASE x.type \in Follows
      <4>1. e # x /\ c # x
        BY <2>1, <2>8, <3>2 DEF Follows, Opposite
      <4>2. e.peer \in connected' => e.peer \in connected
        BY <1>2, <2>8, <3>2 DEF Handled
      <4> QED BY <4>1, <4>2, <2>2, <2>4, <2>5, <2>8 DEF MapTrue, Pending, Calm
    <3> QED BY <3>1, <3>2 DEF PeerEvent, PeerEvents, TrackerSubs, Links, Follows
  <2>9. CASE e.type \notin {"follow", "connected"}
    BY <2>9 DEF MapTrue
  <2> QED BY <2>6, <2>7, <2>8, <2>9
<1>3. connected' \ blurred' \subseteq followers'
  <2> SUFFICES ASSUME NEW p \in connected', p \notin blurred' PROVE p \in followers'
    OBVIOUS
  <2>1. CASE p = x.peer
    BY <2>1 DEF Handled
  <2>2. CASE p # x.peer
    <3>1. p \in Peers
      BY DEF SetsOK
    <3> QED BY <3>1, <2>2 DEF Handled, Maps, Calm
  <2> QED BY <2>1, <2>2
<1> QED BY <1>1, <1>2, <1>3 DEF Maps

LEMMA HandleKnows ==
  ASSUME Typed, Typed', Truths, Maps,
         HandleConnected \/ HandleDisconnected \/ SaveConnection \/ HandleFollowEvent
         \/ HandleUnfollowEvent
  PROVE  Truths' /\ Maps'
<1>1. PICK x \in PeerEvent : hand["loop"] = x
  BY DEF HandleConnected, HandleDisconnected, SaveConnection, HandleFollowEvent,
         HandleUnfollowEvent, LoopHolds, Go, Typed, ThreadsOK, HandOK, PeerEvent
<1>2. x.peer \in Peers /\ x.type \in TrackerSubs
  BY DEF PeerEvent, PeerEvents
<1>3. at["loop"] \in {"lock", "save"} /\ Calm
  BY DEF HandleConnected, HandleDisconnected, SaveConnection, HandleFollowEvent,
         HandleUnfollowEvent, LoopHolds, Go, Calm, busVars, worldVars
<1>4. at \in [Threads -> Place] /\ "loop" \in Threads
  BY Names DEF Typed, ThreadsOK, PlacesOK, Threads, Singles
<1>5. SetsOK'
  BY DEF Typed
<1>6. CASE HandleConnected
  <2>1. x.type = "connected" /\ at'["loop"] = "emit" /\ followers' = followers
        /\ connected' = connected \cup ({x.peer} \cap followers) /\ blurred' = blurred
    BY <1>1, <1>4, <1>6 DEF HandleConnected, LoopHolds, Move
  <2>2. Handled(x)
    BY <2>1, <1>2 DEF Handled, Follows, Maps
  <2> QED BY <2>1, <2>2, <1>1, <1>3, <1>5, LetGo
<1>7. CASE HandleDisconnected
  <2>1. /\ x.type = "disconnected" /\ at["loop"] = "lock"
        /\ UNCHANGED <<followers, connected, blurred>>
        /\ at'["loop"] = IF x.peer \notin followers THEN "emit"
                         ELSE IF x.peer \in connected THEN "save" ELSE "select"
        /\ x.peer \in followers \cap connected => hand' = hand
    BY <1>1, <1>4, <1>7 DEF HandleDisconnected, LoopHolds, Move, mapVars
  <2>2. CASE x.peer \in followers \cap connected
    <3>1. HandKept
      BY <2>1, <2>2 DEF HandKept
    <3> QED BY <2>1, <2>2, <3>1, <1>3, CalmKnows
  <2>3. CASE x.peer \notin followers \cap connected
    <3>1. Handled(x)
      BY <2>1, <2>3, <1>2 DEF Handled, Follows, Maps
    <3>2. at'["loop"] \notin {"lock", "save", "load"}
      BY <2>1, <2>3
    <3> QED BY <3>1, <3>2, <1>1, <1>3, <1>5, LetGo
  <2> QED BY <2>2, <2>3
<1>8. CASE SaveConnection
  <2>1. x.type = "disconnected" /\ at'["loop"] = "emit" /\ followers' = followers
        /\ connected' = connected \ {x.peer} /\ blurred' = blurred
    BY <1>1, <1>4, <1>8 DEF SaveConnection, Go, Move, Typed, ThreadsOK, HandOK
  <2>2. Handled(x)
    BY <2>1, <1>2 DEF Handled, Follows, Maps
  <2> QED BY <2>1, <2>2, <1>1, <1>3, <1>5, LetGo
<1>9. CASE HandleFollowEvent
  <2>1. x.type = "follow" /\ at'["loop"] = "emit" /\ followers' = followers \cup {x.peer}
        /\ connected' = connected /\ blurred' = blurred
    BY <1>1, <1>4, <1>9 DEF HandleFollowEvent, LoopHolds, Move
  <2>2. Handled(x)
    BY <2>1, <1>2 DEF Handled, Follows, Links, Maps
  <2> QED BY <2>1, <2>2, <1>1, <1>3, <1>5, LetGo
<1>10. CASE HandleUnfollowEvent
  <2>1. x.type = "unfollow" /\ at'["loop"] = "emit" /\ followers' = followers \ {x.peer}
        /\ connected' = connected /\ blurred' = blurred \cup ({x.peer} \cap connected)
    BY <1>1, <1>4, <1>10 DEF HandleUnfollowEvent, LoopHolds, Move
  <2>2. Handled(x)
    BY <2>1, <1>2 DEF Handled, Follows, Links, Maps
  <2> QED BY <2>1, <2>2, <1>1, <1>3, <1>5, LetGo
<1> QED BY <1>6, <1>7, <1>8, <1>9, <1>10

\* All other steps: of the loop, the ticker's goroutines, Close, and the readers.
LEMMA OthersKnow ==
  ASSUME Typed, Truths, Maps,
         \/ TrackerSubscribe \/ LoopEmit \/ LoopEnd
         \/ (\E t \in Ticks : LoopDial(t) \/ Tick(t) \/ (TryConnect(t) /\ ~TickLook(t)))
         \/ StopLock \/ StopEnd
         \/ (\E t \in DOMAIN Reader : Read(t))
  PROVE  Truths' /\ Maps'
<1>1. at \in [Threads -> Place] /\ DOMAIN hand = Threads
      /\ {"loop", "stop", "notifier", "sync"} \cup Ticks \subseteq Threads
  BY DEF Typed, ThreadsOK, PlacesOK, HandOK, Threads, Singles
<1>2. queue \in [Subs -> Seq(Events)]
  BY DEF Typed, BusOK, BusTypes
<1> USE <1>1 DEF Calm, HandKept, Go, Move, busVars, worldVars, mapVars, threadVars, tickVars
<1>3. ASSUME NEW t \in Ticks, LoopDial(t) \/ Tick(t) \/ (TryConnect(t) /\ ~TickLook(t))
      PROVE  Truths' /\ Maps'
  <2>1. t # "loop" /\ t \in Threads
    BY Names, <1>1
  <2>2. CASE LoopDial(t) \/ Tick(t) \/ TickCount(t) \/ TickStats(t)
    <3>1. Calm /\ HandKept /\ UNCHANGED <<followers, connected>> /\ at'["loop"] = at["loop"]
      BY <2>1, <2>2 DEF LoopDial, Tick, TickCount, TickStats
    <3> QED BY <3>1, CalmKnows
  <2>3. CASE TickFollowers(t) \/ TickEnd(t) \/ TickLock(t)
    <3>1. Calm /\ HandKept /\ UNCHANGED <<followers, connected>> /\ at'["loop"] = at["loop"]
      BY <2>1, <2>3 DEF TickFollowers, TickEnd, TickLock
    <3> QED BY <3>1, CalmKnows
  <2>4. ASSUME NEW p \in Peers, TickTry(t, p) PROVE Truths' /\ Maps'
    <3>1. Calm /\ HandKept /\ UNCHANGED <<followers, connected>> /\ at'["loop"] = at["loop"]
      BY <2>1, <2>4 DEF TickTry
    <3> QED BY <3>1, CalmKnows
  <2> QED BY <1>3, <2>2, <2>3, <2>4 DEF TryConnect
<1>4. CASE TrackerSubscribe \/ LoopEmit \/ LoopEnd
  <2>1. Calm /\ HandKept /\ UNCHANGED <<followers, connected>>
        /\ (at'["loop"] = "load" <=> at["loop"] = "load")
    BY <1>4 DEF TrackerSubscribe, Subscribe, LoopEmit, LoopEnd
  <2> QED BY <2>1, CalmKnows
<1>6. CASE StopLock \/ StopEnd
  <2>1. Calm /\ HandKept /\ UNCHANGED <<followers, connected>> /\ at'["loop"] = at["loop"]
    BY <1>6 DEF StopLock, StopEnd
  <2> QED BY <2>1, CalmKnows
<1>7. ASSUME NEW t \in DOMAIN Reader, Read(t) PROVE Truths' /\ Maps'
  <2>1. t \in {"notifier", "sync"} /\ Reader[t] \notin TrackerSubs
    BY DEF Reader, TrackerSubs
  <2>2. Calm /\ HandKept /\ UNCHANGED <<followers, connected>> /\ at'["loop"] = at["loop"]
    BY <1>2, <1>7, <2>1 DEF Read, ReaderTake, ReaderSave, Receive, Subs
  <2> QED BY <2>2, CalmKnows
<1> QED BY <1>3, <1>4, <1>6, <1>7

LEMMA NextKnows ==
  ASSUME Typed, Typed', Turns, Truths, Maps, Next
  PROVE  Truths' /\ Maps'
<1>1. ASSUME NEW p \in Peers, Change(p) PROVE Truths' /\ Maps'
  BY <1>1, ToggleKnows DEF Change, threadVars, mapVars
<1>2. ASSUME NEW p \in Peers, Dialled(p) PROVE Truths' /\ Maps'
  <2>1. CASE Toggle(p)
    BY <1>2, <2>1, ToggleKnows DEF Dialled, threadVars, mapVars
  <2>2. CASE UNCHANGED <<up, news, steps>>
    <3>1. Calm /\ HandKept /\ UNCHANGED <<followers, connected, at>>
      BY <1>2, <2>2 DEF Dialled, Calm, HandKept, busVars, threadVars, mapVars
    <3> QED BY <3>1, CalmKnows
  <2> QED BY <1>2, <2>1, <2>2 DEF Dialled
<1>3. ASSUME NEW p \in Peers, Report(p) \/ \E h \in Handlers : HandleFollow(h, p)
      PROVE  Truths' /\ Maps'
  BY <1>3, ReportKnows, ChangeKnows
<1>4. CASE UpdateOrder
  BY <1>4, OrderKnows
<1>5. CASE Emit
  BY <1>5, SendTruths, SendMaps, LockKnows DEF Emit
<1>6. CASE Loop
  BY <1>6, LoadKnows, EnterKnows, TakeKnows, HandleKnows, OthersKnow DEF Loop
<1>7. ASSUME NEW t \in Ticks, Tick(t) \/ TryConnect(t) PROVE Truths' /\ Maps'
  BY <1>7, EnterKnows, OthersKnow
<1>8. CASE Close
  BY <1>8, StopKnows, OthersKnow DEF Close
<1>9. ASSUME NEW t \in DOMAIN Reader, Read(t) PROVE Truths' /\ Maps'
  BY <1>9, OthersKnow
<1> QED BY <1>1, <1>2, <1>3, <1>4, <1>5, <1>6, <1>7, <1>8, <1>9 DEF Next

LEMMA InitKnows == Init => Turns /\ Truths /\ Maps
<1> SUFFICES ASSUME Init PROVE Turns /\ Truths /\ Maps
  OBVIOUS
<1>1. /\ queue = [s \in Subs |-> <<>>] /\ want = [t \in Threads |-> None]
      /\ news = [p \in Peers |-> <<>>] /\ at["loop"] = "load"
      /\ followers = {} /\ connected = {}
  BY Names DEF Init, BusInit, Threads, Singles
<1>2. ASSUME NEW e \in PeerEvent PROVE ~OnBus(e) /\ ~Queued(e) /\ ~Held(e)
  <2>1. e # None /\ e.type \in Subs /\ Emitters \subseteq Threads
    BY NoneAssumption, Names DEF PeerEvent, PeerEvents, Events, Subs, Emitters, Threads, Singles
  <2> QED BY <2>1, <1>1, ToSetEmpty DEF OnBus, Queued, Held
<1>3. Truths
  BY <1>1, <1>2 DEF Truths, NewsTrue, EventTrue
<1>4. Maps
  BY <1>1 DEF Maps, MapTrue
<1>5. Turns
  BY <1>1 DEF Turns, Threads
<1> QED BY <1>3, <1>4, <1>5

Knows == Typed /\ Turns /\ Truths /\ Maps

LEMMA KnowsInvariance == Spec => []Knows
<1>1. Init => Knows
  BY InitBus, InitThreads, InitSets, InitKnows DEF Typed, Knows
<1>2. Knows /\ [Next]_vars => Knows'
  <2> SUFFICES ASSUME Knows, [Next]_vars PROVE Knows'
    OBVIOUS
  <2>1. CASE Next
    <3>1. Typed'
      BY <2>1, NextBus, NextThreads, NextSets DEF Typed, Knows
    <3> QED BY <2>1, <3>1, NextTurns, NextKnows DEF Knows
  <2>2. CASE UNCHANGED vars
    <3>1. Typed'
      BY <2>2, StutterTyped DEF Knows
    <3>2. Calm /\ HandKept /\ UNCHANGED <<followers, connected, at>>
      BY <2>2 DEF vars, busVars, threadVars, mapVars, worldVars, Calm, HandKept
    <3>3. Turns'
      BY <2>2, TurnsKept DEF Knows, vars, busVars, worldVars
    <3> QED BY <3>1, <3>2, <3>3, CalmKnows DEF Knows
  <2> QED BY <2>1, <2>2
<1> QED BY <1>1, <1>2, PTL DEF Spec

\* Once every event is handled the tracker knows who follows, and holds no follower
\* for connected who is not, but for the peers that are blurred: an event on its way to
\* the loop is so, or another one about the same peer is behind it, so the last one
\* leaves the maps right.
THEOREM TrackerKnows == Spec => []TrackerIsRight
<1>1. Knows => TrackerIsRight
  <2> SUFFICES ASSUME Knows, Quiet, NEW p \in Peers \ blurred
               PROVE  /\ p \in followers <=> p \in fans
                      /\ p \in connected \cap followers => p \in up
    BY DEF TrackerIsRight
  <2>1. \A e, c \in PeerEvent : Opposed(e, c) => ~Pending(e, c)
    <3> SUFFICES ASSUME NEW e \in PeerEvent PROVE ~Unreported(e) /\ ~OnBus(e) /\ ~Queued(e) /\ ~Held(e)
      BY DEF Pending, Waits, Behind
    <3>1. e # None /\ e.type \in Subs /\ e.peer \in Peers /\ Emitters \subseteq Threads
      BY NoneAssumption, Names DEF PeerEvent, PeerEvents, Events, Subs, Emitters, Threads, Singles
    <3> QED BY <3>1, ToSetEmpty DEF Quiet, Unreported, OnBus, Queued, Held
  <2>2. at["loop"] # "load"
    BY DEF Quiet
  <2>3. PICK f \in PeerEvent, u \in PeerEvent :
          f.type = "follow" /\ f.peer = p /\ Opposed(f, u)
    <3>1. Event("follow", p) \in PeerEvent /\ Event("unfollow", p) \in PeerEvent
      BY DEF PeerEvent, PeerEvents, Event, TrackerSubs
    <3> QED BY <3>1 DEF Opposed, Opposite, Event
  <2>4. PICK n \in PeerEvent, d \in PeerEvent :
          n.type = "connected" /\ n.peer = p /\ Opposed(n, d)
    <3>1. Event("connected", p) \in PeerEvent /\ Event("disconnected", p) \in PeerEvent
      BY DEF PeerEvent, PeerEvents, Event, TrackerSubs
    <3> QED BY <3>1 DEF Opposed, Opposite, Event
  <2>5. MapTrue(f, u) /\ MapTrue(n, d)
    BY <2>3, <2>4 DEF Knows, Maps
  <2> QED BY <2>1, <2>2, <2>3, <2>4, <2>5 DEF MapTrue
<1> QED BY <1>1, KnowsInvariance, PTL
=============================================================================
