------------------------------ MODULE EventBus ------------------------------
(***************************************************************************)
(* The node's event bus (events/basic.go): one mutex, held while an event  *)
(* is sent to the bounded channel of every subscription to its type.       *)
(***************************************************************************)
EXTENDS Naturals, Sequences, SequencesExt

CONSTANTS Threads,   \* goroutines that emit
          Events,    \* events, records with a type
          Subs,      \* subscriptions
          Takes,     \* for each subscription, the event types it takes
          Buffer,    \* capacity of a subscription's channel
          None       \* no thread, no event

VARIABLES
  subs,    \* the subscriptions, in the order they were made
  queue,   \* the channel of each subscription
  want,    \* the event each thread is emitting, or wants to
  bus      \* the emit that holds the mutex: by whom, and who is still to be sent to

Free == [by |-> None, sinks |-> {}]

BusInit ==
  /\ queue = [s \in Subs |-> <<>>]
  /\ want = [t \in Threads |-> None] /\ bus = Free

Unlocked == bus = Free

Subscribed(s) == s \in ToSet(subs)

\* Mutant: one event too many.
FullLate(s) == Len(queue[s]) > Buffer

Full(s) == Len(queue[s]) >= Buffer

Subscribe(s) ==
  /\ Unlocked /\ ~Subscribed(s)
  /\ subs' = Append(subs, s)
  /\ UNCHANGED <<queue, want, bus>>

\* What becomes of the bus and of its holder's event when the sinks are left; the
\* mutex is given back with the last one.
Continue(t, sinks) ==
  IF sinks = {} THEN bus' = Free /\ want' = [want EXCEPT ![t] = None]
  ELSE bus' = [by |-> t, sinks |-> sinks] /\ UNCHANGED want

Sinks(e) == {s \in ToSet(subs) : e.type \in Takes[s]}

\* The sink that was subscribed before the others comes next.
NextSink(s) ==
  /\ s \in bus.sinks
  /\ \E i \in DOMAIN subs : subs[i] = s /\ \A j \in 1..(i - 1) : subs[j] \notin bus.sinks

\* Emit locks the bus and sends to one subscription after the other, waiting while
\* a channel is full.
Lock(t) ==
  /\ want[t] # None /\ Unlocked
  /\ Continue(t, Sinks(want[t]))
  /\ UNCHANGED <<subs, queue>>

Send ==
  /\ ~Unlocked
  /\ \E s \in Subs :
       /\ NextSink(s) /\ ~Full(s)
       /\ queue' = [queue EXCEPT ![s] = Append(@, want[bus.by])]
       /\ Continue(bus.by, bus.sinks \ {s})
  /\ UNCHANGED subs

\* An event that nobody subscribes to.
EmitUnheard == Unlocked

\* A subscriber receives the next event of its channel.
Receive(s) ==
  /\ queue[s] # <<>>
  /\ queue' = [queue EXCEPT ![s] = Tail(@)]

BusTypeOK ==
  /\ ToSet(subs) \subseteq Subs /\ IsInjective(subs)
  /\ \A s \in Subs : /\ Len(queue[s]) <= Buffer
                     /\ \A e \in ToSet(queue[s]) : e \in Events /\ e.type \in Takes[s]
  /\ want \in [Threads -> Events \cup {None}]
  /\ bus.by \in Threads \cup {None} /\ bus.sinks \subseteq ToSet(subs)
  /\ bus.by = None <=> bus.sinks = {}
  /\ bus.by # None => want[bus.by] # None
=============================================================================
