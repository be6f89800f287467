--------------------------- MODULE FollowerTracker ---------------------------
(***************************************************************************)
(* The threads of a node that meet at its event bus: the follower tracker  *)
(* (core/follower_tracker.go) with its loop and the goroutines of its      *)
(* ticker, the notifier, the sync of messages with peers that connect, and *)
(* those that emit: the network's callbacks, the handlers of FOLLOW and    *)
(* UNFOLLOW, one for each stream and one for the offline messages, and     *)
(* updates of orders whose commit hooks emit.                              *)
(*                                                                         *)
(* Three mutexes (the bus, the tracker's, the database's) and the bounded  *)
(* channels are what the threads wait for.                                 *)
(***************************************************************************)
EXTENDS Integers, Sequences, FiniteSets, SequencesExt

CONSTANTS Peers,
          Handlers,     \* goroutines that handle FOLLOWs and UNFOLLOWs
          Ticks,        \* goroutines of the ticker, one for each tick under way
          FollowerConnections,
          TrackerAttemptsPerInterval,
          Buffer,       \* capacity of a subscription (events/opts.go)
          None,
          MaxSteps      \* bound: connections made and lost, FOLLOWs and UNFOLLOWs,
                        \* updates of orders, ticks, and the close, all together

ASSUME BufferAssumption == Buffer \in Nat \ {0}

ASSUME LimitAssumption ==
  FollowerConnections \in Nat /\ TrackerAttemptsPerInterval \in Nat

ASSUME BoundsAssumption ==
  MaxSteps \in Nat

Singles == {"network", "order", "loop", "notifier", "sync", "stop"}

Threads == Singles \cup Handlers \cup Ticks

ASSUME ThreadsAssumption ==
  Handlers \cap Ticks = {} /\ (Handlers \cup Ticks) \cap Singles = {}

TrackerSubs == {"connected", "disconnected", "follow", "unfollow"}

Subs == TrackerSubs \cup {"notifications", "messages"}

\* The tracker's subscriptions take the event they are named after.
Takes ==
  [s \in Subs |-> CASE s = "notifications" -> {"follow", "unfollow", "order"}
                    [] s = "messages"      -> {"connected"}
                    [] OTHER               -> {s}]

Events == [type : TrackerSubs, peer : Peers] \cup [type : {"order"}]

ASSUME NoneAssumption == None \notin Threads \cup Events \cup Peers

VARIABLES subs, queue, want, bus

INSTANCE EventBus

busVars == <<subs, queue, want, bus>>

VARIABLES
  up,         \* the peers the node is connected to
  news,       \* for each peer, what the network has not reported yet
  fans,       \* the follower file
  stats,      \* peers with a FollowerStat
  followers,  \* the tracker's maps
  connected,
  tried,
  dials,      \* DialPeer under way
  at,         \* where each thread is
  hand,       \* the event or peer it holds
  mtx,        \* the thread that holds the tracker's mutex
  db,         \* the thread that holds the database's mutex over several steps
  todo,       \* for each of Ticks, peers it has still to look at
  rest,       \* whether they come from the follower file, the second list
  attempts,   \* dials it has asked for
  shutdown,   \* the tracker's shutdown channel is closed
  steps,      \* how much has happened
  blurred     \* peers with an event nobody heard, or whose events could change places

threadVars == <<at, hand, mtx, db>>
tickVars == <<todo, rest, attempts>>
mapVars == <<followers, connected, tried>>
worldVars == <<up, news, fans, dials, shutdown, steps>>
vars == <<busVars, threadVars, tickVars, mapVars, worldVars, stats, blurred>>

Event(type, p) == [type |-> type, peer |-> p]

Init ==
  /\ BusInit /\ subs \in {<<"notifications", "messages">>}
  /\ up \in SUBSET Peers /\ news = [p \in Peers |-> <<>>]
  /\ fans \in SUBSET Peers /\ stats = {}
  /\ followers = {} /\ connected = {} /\ tried = {} /\ dials = {}
  /\ at = [t \in Threads |-> IF t = "loop" THEN "load"
                             ELSE IF t \in {"notifier", "sync"} THEN "select" ELSE "idle"]
  /\ hand = [t \in Threads |-> None]
  /\ mtx = None /\ db = None
  /\ todo = [t \in Ticks |-> {}] /\ rest = [t \in Ticks |-> FALSE]
  /\ attempts = [t \in Ticks |-> 0] /\ shutdown = FALSE
  /\ steps = 0
  /\ blurred = {}

Move(t, place) == at' = [at EXCEPT ![t] = place]

Go(t, from, to) == at[t] = from /\ Move(t, to)

Count == steps < MaxSteps /\ steps' = steps + 1

DBFree == db = None

-----------------------------------------------------------------------------
(* Those who emit *)

\* A peer connects or the connection is lost; also the end of a dial.
Toggle(p) ==
  /\ Count
  /\ up' = IF p \in up THEN up \ {p} ELSE up \cup {p}
  /\ news' = [news EXCEPT ![p] =
       Append(@, Event(IF p \in up THEN "disconnected" ELSE "connected", p))]

Change(p) ==
  /\ Toggle(p)
  /\ UNCHANGED <<busVars, threadVars, tickVars, mapVars, fans, dials, shutdown, stats, blurred>>

\* DialPeer ends: with a connection, or without.
Dialled(p) ==
  /\ p \in dials /\ dials' = dials \ {p}
  /\ \/ p \notin up /\ Toggle(p)
     \/ UNCHANGED <<up, news, steps>>
  /\ UNCHANGED <<busVars, threadVars, tickVars, mapVars, fans, shutdown, stats, blurred>>

\* ConnectedF and DisconnectedF, in turn for a peer, emit the event.
Report(p) ==
  /\ Unlocked /\ want["network"] = None /\ news[p] # <<>>
  /\ want' = [want EXCEPT !["network"] = Head(news[p])]
  /\ news' = [news EXCEPT ![p] = Tail(@)]
  /\ UNCHANGED <<subs, queue, bus, threadVars, tickVars, mapVars, up, fans, dials,
                 shutdown, steps, stats, blurred>>

\* A handler has changed the file for p, and its emit has not begun.
Unsent(p) == \E k \in Handlers : want[k] # None /\ want[k].peer = p /\ bus.by # k

\* A FOLLOW or an UNFOLLOW that changes the follower file; the event follows when the
\* update has committed, and then another handler's can come before it.
HandleFollow(h, p) ==
  /\ want[h] = None /\ DBFree /\ Count
  /\ fans' = IF p \in fans THEN fans \ {p} ELSE fans \cup {p}
  /\ want' = [want EXCEPT ![h] = Event(IF p \in fans THEN "unfollow" ELSE "follow", p)]
  /\ blurred' = IF Unsent(p) THEN blurred \cup {p} ELSE blurred
  /\ UNCHANGED <<subs, queue, bus, threadVars, tickVars, mapVars, up, news, dials,
                 shutdown, stats>>

\* An update of an order commits, and its hook emits under the database's mutex.
UpdateOrder ==
  /\ want["order"] = None /\ DBFree /\ Count
  /\ db' = "order"
  /\ want' = [want EXCEPT !["order"] = [type |-> "order"]]
  /\ UNCHANGED <<subs, queue, bus, at, hand, mtx, tickVars, mapVars, up, news, fans, dials,
                 shutdown, stats, blurred>>

\* Peers of whose events one is lost: the tracker is not subscribed to it yet.
Unheard(t) ==
  IF want[t].type \in TrackerSubs \ ToSet(subs) THEN {want[t].peer} ELSE {}

EmitLock(t) ==
  /\ Lock(t)
  /\ blurred' = blurred \cup Unheard(t)
  /\ UNCHANGED <<threadVars, tickVars, mapVars, worldVars, stats>>

Sent(t) == want'[t] = None /\ want[t] # None

\* Mutant: the update does not end.
EmitSendOnly ==
  /\ Send
  /\ UNCHANGED <<threadVars, tickVars, mapVars, worldVars, stats, blurred>>

\* With the emit of its hook an update of an order ends.
EmitSend ==
  /\ Send
  /\ db' = IF Sent("order") THEN None ELSE db
  /\ UNCHANGED <<at, hand, mtx, tickVars, mapVars, worldVars, stats, blurred>>

-----------------------------------------------------------------------------
(* The tracker's loop *)

LoadFollowers ==
  /\ Go("loop", "load", "look") /\ DBFree
  /\ followers' = fans
  /\ UNCHANGED <<busVars, hand, mtx, db, tickVars, connected, tried, worldVars, stats, blurred>>

LookAtPeers ==
  /\ Go("loop", "look", "subscribe")
  /\ connected' = up \cap followers
  /\ UNCHANGED <<busVars, hand, mtx, db, tickVars, followers, tried, worldVars, stats, blurred>>

NextSub(s) ==
  LET order == <<"connected", "disconnected", "follow", "unfollow">>
  IN  \E i \in 1..4 : order[i] = s /\ \A j \in 1..(i - 1) : Subscribed(order[j])

TrackerSubscribe ==
  /\ at["loop"] = "subscribe"
  /\ \E s \in TrackerSubs :
       /\ NextSub(s) /\ Subscribe(s)
       /\ Move("loop", IF s = "unfollow" THEN "emit" ELSE "subscribe")
  /\ UNCHANGED <<hand, mtx, db, tickVars, mapVars, worldVars, stats, blurred>>

\* TrackerStarted, and after each event the Tracker... event, have no subscribers.
LoopEmit ==
  /\ Go("loop", "emit", "select") /\ EmitUnheard
  /\ hand' = [hand EXCEPT !["loop"] = None]
  /\ UNCHANGED <<busVars, mtx, db, tickVars, mapVars, worldVars, stats, blurred>>

Opposite(s) == CASE s = "connected"    -> "disconnected"
                 [] s = "disconnected" -> "connected"
                 [] s = "follow"       -> "unfollow"
                 [] s = "unfollow"     -> "follow"

\* The select takes from any channel that has an event.
LoopTake(s) ==
  /\ Go("loop", "select", "lock") /\ Receive(s)
  /\ LET e == Head(queue[s])
     IN  /\ hand' = [hand EXCEPT !["loop"] = e]
         /\ blurred' = IF Event(Opposite(s), e.peer) \in ToSet(queue[Opposite(s)])
                       THEN blurred \cup {e.peer} ELSE blurred
  /\ UNCHANGED <<subs, want, bus, mtx, db, tickVars, mapVars, worldVars, stats>>

LoopHolds(type) == at["loop"] = "lock" /\ mtx = None /\ hand["loop"].type = type

HandleConnected ==
  /\ LoopHolds("connected") /\ Move("loop", "emit")
  /\ connected' = connected \cup ({hand["loop"].peer} \cap followers)
  /\ UNCHANGED <<busVars, hand, mtx, db, tickVars, followers, tried, worldVars, stats, blurred>>

\* A connected follower goes, with the mutex kept until its time is saved. One who
\* is not connected is skipped without an event, and one who does not follow stays.
HandleDisconnected ==
  /\ LoopHolds("disconnected")
  /\ LET p == hand["loop"].peer
     IN  /\ Move("loop", IF p \notin followers THEN "emit"
                         ELSE IF p \in connected THEN "save" ELSE "select")
         /\ mtx' = IF p \in followers \cap connected THEN "loop" ELSE mtx
         /\ hand' = IF p \in followers \ connected
                    THEN [hand EXCEPT !["loop"] = None] ELSE hand
  /\ UNCHANGED <<busVars, db, tickVars, mapVars, worldVars, stats, blurred>>

\* Mutant: the time is saved, and the peer stays.
SaveConnectionOnly ==
  /\ Go("loop", "save", "emit") /\ DBFree
  /\ stats' = stats \cup {hand["loop"].peer}
  /\ mtx' = None
  /\ UNCHANGED <<busVars, hand, db, tickVars, mapVars, worldVars, blurred>>

SaveConnection ==
  /\ Go("loop", "save", "emit") /\ DBFree
  /\ stats' = stats \cup {hand["loop"].peer}
  /\ connected' = connected \ {hand["loop"].peer}
  /\ mtx' = None
  /\ UNCHANGED <<busVars, hand, db, tickVars, followers, tried, worldVars, blurred>>

HandleFollowEvent ==
  /\ LoopHolds("follow") /\ Move("loop", "emit")
  /\ followers' = followers \cup {hand["loop"].peer}
  /\ UNCHANGED <<busVars, hand, mtx, db, tickVars, connected, tried, worldVars, stats, blurred>>

\* The peer stays in connected, where a disconnect will not find it any more.
HandleUnfollowEvent ==
  /\ LoopHolds("unfollow") /\ Move("loop", "emit")
  /\ followers' = followers \ {hand["loop"].peer}
  /\ blurred' = blurred \cup ({hand["loop"].peer} \cap connected)
  /\ UNCHANGED <<busVars, hand, mtx, db, tickVars, connected, tried, worldVars, stats>>

\* The loop receives the peer that a goroutine of the ticker sends, and dials it.
LoopDial(t) ==
  /\ at["loop"] = "select" /\ at[t] = "send"
  /\ dials' = dials \cup {hand[t]}
  /\ tried' = tried \cup {hand[t]}
  /\ todo' = [todo EXCEPT ![t] = @ \ {hand[t]}]
  /\ attempts' = [attempts EXCEPT ![t] = @ + 1]
  /\ Move(t, "try")
  /\ hand' = [hand EXCEPT ![t] = None]
  /\ mtx' = None
  /\ UNCHANGED <<busVars, db, rest, followers, connected, up, news, fans, shutdown, steps, stats, blurred>>

LoopEnd ==
  /\ Go("loop", "select", "done") /\ shutdown
  /\ UNCHANGED <<busVars, hand, mtx, db, tickVars, mapVars, worldVars, stats, blurred>>

-----------------------------------------------------------------------------
(* tryConnectFollowers, a goroutine for each tick *)

Tick(t) ==
  /\ at["loop"] = "select" /\ Go(t, "idle", "look") /\ Count
  /\ UNCHANGED <<busVars, hand, mtx, db, tickVars, mapVars, up, news, fans, dials, shutdown,
                 stats, blurred>>

TickLook(t) ==
  /\ Go(t, "look", "count") /\ mtx = None
  /\ connected' = connected \cup (up \cap followers)
  /\ UNCHANGED <<busVars, hand, mtx, db, tickVars, followers, tried, worldVars, stats, blurred>>

TickCount(t) ==
  /\ mtx = None
  /\ Go(t, "count", IF Cardinality(connected) >= FollowerConnections THEN "idle" ELSE "stats")
  /\ UNCHANGED <<busVars, hand, mtx, db, tickVars, mapVars, worldVars, stats, blurred>>

\* First the peers with a FollowerStat, then the follower file, which is read later.
TickStats(t) ==
  /\ Go(t, "stats", "try") /\ DBFree
  /\ todo' = [todo EXCEPT ![t] = stats]
  /\ UNCHANGED <<busVars, hand, mtx, db, rest, attempts, mapVars, worldVars, stats, blurred>>

Exhausted(t) == todo[t] = {} \/ attempts[t] >= TrackerAttemptsPerInterval

TickFollowers(t) ==
  /\ at[t] = "try" /\ ~rest[t] /\ Exhausted(t) /\ DBFree
  /\ todo' = [todo EXCEPT ![t] = fans] /\ rest' = [rest EXCEPT ![t] = TRUE]
  /\ UNCHANGED <<busVars, threadVars, attempts, mapVars, worldVars, stats, blurred>>

TickEnd(t) ==
  /\ Go(t, "try", "idle") /\ rest[t] /\ Exhausted(t)
  /\ todo' = [todo EXCEPT ![t] = {}] /\ rest' = [rest EXCEPT ![t] = FALSE]
  /\ attempts' = [attempts EXCEPT ![t] = 0]
  /\ UNCHANGED <<busVars, hand, mtx, db, mapVars, worldVars, stats, blurred>>

\* Mutant: the read lock is not given back before the write lock is taken.
TickTryLocked(t, p) ==
  /\ at[t] = "try" /\ ~Exhausted(t) /\ p \in todo[t] /\ mtx = None
  /\ IF p \in connected \cup tried
     THEN todo' = [todo EXCEPT ![t] = @ \ {p}] /\ UNCHANGED <<at, hand, mtx>>
     ELSE Move(t, "lock") /\ hand' = [hand EXCEPT ![t] = p]
          /\ mtx' = t /\ UNCHANGED todo
  /\ UNCHANGED <<busVars, db, rest, attempts, mapVars, worldVars, stats, blurred>>

\* tryFollower: the check under a read lock. A peer that was tried is never tried
\* again, but by a goroutine that had already checked: lastAttempt is always before
\* the time half an hour from now.
TickTry(t, p) ==
  /\ at[t] = "try" /\ ~Exhausted(t) /\ p \in todo[t] /\ mtx = None
  /\ IF p \in connected \cup tried
     THEN todo' = [todo EXCEPT ![t] = @ \ {p}] /\ UNCHANGED <<at, hand>>
     ELSE Move(t, "lock") /\ hand' = [hand EXCEPT ![t] = p] /\ UNCHANGED todo
  /\ UNCHANGED <<busVars, mtx, db, rest, attempts, mapVars, worldVars, stats, blurred>>

\* The peer is sent to the loop with the mutex held.
TickLock(t) ==
  /\ Go(t, "lock", "send") /\ mtx = None
  /\ mtx' = t
  /\ UNCHANGED <<busVars, hand, db, tickVars, mapVars, worldVars, stats, blurred>>

-----------------------------------------------------------------------------
(* Close *)

StopLock ==
  /\ Go("stop", "idle", "close") /\ mtx = None /\ Count
  /\ mtx' = "stop"
  /\ UNCHANGED <<busVars, hand, db, tickVars, mapVars, up, news, fans, dials, shutdown,
                 stats, blurred>>

StopSave(p) ==
  /\ at["stop"] = "close" /\ p \in connected /\ DBFree
  /\ stats' = stats \cup {p} /\ connected' = connected \ {p}
  /\ UNCHANGED <<busVars, threadVars, tickVars, followers, tried, worldVars, blurred>>

StopEnd ==
  /\ Go("stop", "close", "done") /\ connected = {}
  /\ shutdown' = TRUE /\ mtx' = None
  /\ UNCHANGED <<busVars, hand, db, tickVars, mapVars, up, news, fans, dials, steps, stats, blurred>>

-----------------------------------------------------------------------------
(* The notifier, and syncMessages: each takes an event, and then the database *)

Reader == [notifier |-> "notifications", sync |-> "messages"]

ReaderTake(t) ==
  /\ Go(t, "select", "save") /\ Receive(Reader[t])
  /\ UNCHANGED <<subs, want, bus, hand, mtx, db, tickVars, mapVars, worldVars, stats, blurred>>

ReaderSave(t) ==
  /\ Go(t, "save", "select") /\ DBFree
  /\ UNCHANGED <<busVars, hand, mtx, db, tickVars, mapVars, worldVars, stats, blurred>>

-----------------------------------------------------------------------------
Emit == EmitSend \/ \E t \in Threads : EmitLock(t)

Loop ==
  \/ LoadFollowers \/ LookAtPeers \/ TrackerSubscribe
  \/ \E s \in TrackerSubs : LoopTake(s)
  \/ HandleConnected \/ HandleDisconnected \/ SaveConnection
  \/ HandleFollowEvent \/ HandleUnfollowEvent
  \/ LoopEmit \/ LoopEnd \/ \E t \in Ticks : LoopDial(t)

TryConnect(t) ==
  \/ TickLook(t) \/ TickCount(t) \/ TickStats(t) \/ TickFollowers(t) \/ TickEnd(t) \/ TickLock(t)
  \/ \E p \in Peers : TickTry(t, p)

Close == StopLock \/ StopEnd \/ \E p \in Peers : StopSave(p)

Read(t) == ReaderTake(t) \/ ReaderSave(t)

Next ==
  \/ \E p \in Peers : Change(p) \/ Dialled(p) \/ Report(p)
  \/ \E h \in Handlers, p \in Peers : HandleFollow(h, p)
  \/ UpdateOrder
  \/ Emit \/ Loop \/ Close
  \/ \E t \in Ticks : Tick(t) \/ TryConnect(t)
  \/ \E t \in DOMAIN Reader : Read(t)

Spec == Init /\ [][Next]_vars

\* Goroutines go on: each thread that can go on does.
Fairness ==
  /\ WF_vars(\E p \in Peers : Report(p)) /\ WF_vars(Emit)
  /\ WF_vars(Loop) /\ WF_vars(\E t \in Ticks : TryConnect(t))
  /\ WF_vars(\E t \in DOMAIN Reader : Read(t))
  /\ WF_vars(StopEnd \/ \E p \in Peers : StopSave(p))

FairSpec == Spec /\ Fairness

-----------------------------------------------------------------------------
(* Properties *)

\* Every variable has its type.
TypeOK ==
  /\ BusTypeOK
  /\ up \subseteq Peers /\ fans \subseteq Peers /\ stats \subseteq Peers
  /\ followers \subseteq Peers /\ connected \subseteq Peers /\ tried \subseteq Peers
  /\ dials \subseteq Peers /\ blurred \subseteq Peers
  /\ \A p \in Peers : \A e \in ToSet(news[p]) :
       e.peer = p /\ e.type \in {"connected", "disconnected"}
  /\ DOMAIN at = Threads /\ DOMAIN hand = Threads
  /\ mtx \in {None, "loop", "stop"} \cup Ticks /\ db \in {None, "order"}
  /\ todo \in [Ticks -> SUBSET Peers] /\ rest \in [Ticks -> BOOLEAN]
  /\ attempts \in [Ticks -> 0..TrackerAttemptsPerInterval]
  /\ shutdown \in BOOLEAN

ReaderOf(s) == CASE s = "notifications" -> "notifier"
                 [] s = "messages"      -> "sync"
                 [] OTHER               -> "loop"

NeedsBus(t) ==
  \/ want[t] # None /\ bus.by # t
  \/ t = "network" /\ bus.by # t /\ \E p \in Peers : news[p] # <<>>
  \/ t = "loop" /\ at[t] \in {"subscribe", "emit"}

NeedsMutex(t) ==
  \/ at[t] = "lock"
  \/ t \in Ticks /\ at[t] \in {"look", "count"}
  \/ t \in Ticks /\ at[t] = "try" /\ ~Exhausted(t)

NeedsDB(t) == at[t] \in {"load", "save", "stats", "close"}

\* The threads that t waits for: the holder of a mutex it needs, the receiver of a
\* channel it sends to.
WaitsFor(t) ==
  {u \in Threads :
    \/ NeedsBus(t) /\ u = bus.by
    \/ NeedsMutex(t) /\ u = mtx
    \/ NeedsDB(t) /\ u = db
    \/ at[t] = "send" /\ u = "loop"
    \/ bus.by = t /\ \E s \in Subs : NextSink(s) /\ Full(s) /\ u = ReaderOf(s)}

\* Threads that wait for each other in a circle.
Stuck ==
  LET waiting == {t \in Threads : WaitsFor(t) # {}}
  IN  \E C \in (SUBSET waiting) \ {{}} : \A t \in C : WaitsFor(t) \cap C # {}

\* Every event has been emitted and taken, and the tracker's loop is at its select.
Quiet ==
  /\ \A p \in Peers : news[p] = <<>>
  /\ \A t \in Threads : want[t] = None
  /\ \A s \in Subs : queue[s] = <<>>
  /\ at["loop"] = "select"

\* "It also will receive notifications of connected and disconnected peers and act
\* on that information accordingly" (follower_tracker.go:69): once every event is
\* handled the tracker knows who follows, and holds no follower for connected who
\* is not. Not so for a peer of whom an event was lost while the tracker started,
\* of whom two opposite events waited at once, so that the select could swap them,
\* whom a handler changed while another had its own change of the same peer still to
\* emit, so that the two could emit the other way round, or who stopped following
\* while connected.
TrackerIsRight ==
  Quiet => \A p \in Peers \ blurred : (p \in followers <=> p \in fans)
                                       /\ (p \in connected \cap followers => p \in up)

\* The mutexes are taken in an order that lets nobody wait in a circle: only a
\* subscription that is full, or a peer sent to the loop to be dialled, can close one.
DeadlockNeedsChannel ==
  (\A s \in Subs : ~Full(s)) /\ (\A t \in Ticks : at[t] # "send") => ~Stuck

\* Every event reaches its subscribers and is handled, and every thread comes to
\* rest, unless threads wait in a circle or the tracker has been closed.
HandledUnlessStuck ==
  []<>(\/ /\ Quiet /\ \A t \in Ticks : at[t] = "idle"
          /\ \A t \in DOMAIN Reader : at[t] = "select"
      \/ at["stop"] # "idle"
      \/ Stuck)
=============================================================================
