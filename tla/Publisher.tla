----------------------------- MODULE Publisher -----------------------------
(***************************************************************************)
(* Publishing the public data directory (core/network.go, Publish, publish *)
(* and publishHandler).  Every call of Publish is a goroutine that waits   *)
(* for the handler; the handler cancels the publish before and starts one  *)
(* of its own; publish reads the directory file by file, while the next    *)
(* update may be writing to it, pins it and makes it the node's record.    *)
(* A step of IPFS whose context is cancelled is taken to have no effect.   *)
(***************************************************************************)
EXTENDS Naturals, FiniteSets

CONSTANTS
  None,
  Online,    \* whether the initial bootstrap succeeds
  MaxCalls   \* bound: calls of Publish

ASSUME CallsAssumption == MaxCalls \in Nat

Call == 1..MaxCalls

VARIABLES
  dir,       \* the public data directory
  calls,     \* calls of Publish so far
  pub,       \* where each of them is
  current,   \* the one whose context is not cancelled
  closed,    \* calls whose done channel is closed
  record,    \* the root our IPNS record names
  pinned,    \* roots that are pinned
  booted,    \* the initial bootstrap is over
  up,        \* the node runs, until shutdown is closed
  late       \* a publish that was superseded took the pin of a root

publishVars == <<calls, pub, current, closed, record, pinned, late>>

NoPublish == [at |-> "none", old |-> None, root |-> None]

InitPublisher ==
  /\ calls = 0 /\ pub = [c \in Call |-> NoPublish] /\ current = 0 /\ closed = {}
  /\ record = None /\ pinned = {} /\ booted = FALSE /\ up = TRUE /\ late = FALSE

Working == {"starts", "unpins", "adds", "reads", "names"}

Cancelled(c) == ~up \/ c # current

Go(c, at) == pub' = [pub EXCEPT ![c].at = at]

End(c, how) == pub' = [pub EXCEPT ![c] = [NoPublish EXCEPT !.at = how]]

\* The goroutine of Publish.
Publish ==
  /\ calls < MaxCalls /\ calls' = calls + 1
  /\ pub' = [pub EXCEPT ![calls + 1].at = "waits"]
  /\ UNCHANGED <<current, closed, record, pinned, late>>

\* Mutant: the publish before goes on, and not the new one.
TakeWithoutCancel(c) ==
  /\ booted /\ up /\ pub[c].at = "waits"
  /\ Go(c, "starts") /\ current' = IF current = 0 THEN c ELSE current
  /\ UNCHANGED <<dir, calls, closed, record, pinned, booted, up, late>>

\* The handler takes a call and cancels the publish before.
TakePublish(c) ==
  /\ booted /\ up /\ pub[c].at = "waits"
  /\ Go(c, "starts") /\ current' = c
  /\ UNCHANGED <<dir, calls, closed, record, pinned, booted, up, late>>

\* The record there is, which is unpinned next.
ReadRecord(c) ==
  /\ pub[c].at = "starts"
  /\ pub' = [pub EXCEPT ![c] = [at |-> IF record = None THEN "adds" ELSE "unpins", old |-> record, root |-> None]]
  /\ UNCHANGED <<dir, calls, current, closed, record, pinned, booted, up, late>>

\* In a context of its own, that nothing cancels.
Unpin(c) ==
  /\ pub[c].at = "unpins" /\ Go(c, "adds")
  /\ pinned' = pinned \ {pub[c].old}
  /\ late' = (late \/ Cancelled(c))
  /\ UNCHANGED <<dir, calls, current, closed, record, booted, up>>

\* The images and the listings are read first, the index and the profile after them.
ReadListings(c) ==
  /\ pub[c].at = "adds" /\ ~Cancelled(c)
  /\ pub' = [pub EXCEPT ![c].at = "reads", ![c].root = dir]
  /\ UNCHANGED <<dir, calls, current, closed, record, pinned, booted, up, late>>

Read(c) == [dir EXCEPT !.images = pub[c].root.images, !.listings = pub[c].root.listings]

\* Mutant: what has not changed is not pinned again.
AddNothingNew(c) ==
  /\ pub[c].at = "reads" /\ ~Cancelled(c)
  /\ IF Read(c) = pub[c].old THEN End(c, "ended")
     ELSE pub' = [pub EXCEPT ![c].at = "names", ![c].root = Read(c)]
  /\ pinned' = IF Read(c) = pub[c].old THEN pinned ELSE pinned \cup {Read(c)}
  /\ UNCHANGED <<dir, calls, current, closed, record, booted, up, late>>

\* Add with Pin; there is nothing more to do when the root is the one before.
AddRoot(c) ==
  /\ pub[c].at = "reads" /\ ~Cancelled(c)
  /\ IF Read(c) = pub[c].old THEN End(c, "ended")
     ELSE pub' = [pub EXCEPT ![c].at = "names", ![c].root = Read(c)]
  /\ pinned' = pinned \cup {Read(c)}
  /\ UNCHANGED <<dir, calls, current, closed, record, booted, up, late>>

\* PublishWithEOL; what is sent to other nodes after it is left out.
PublishRecord(c) ==
  /\ pub[c].at = "names" /\ ~Cancelled(c)
  /\ End(c, "ended") /\ record' = pub[c].root
  /\ UNCHANGED <<dir, calls, current, closed, pinned, booted, up, late>>

\* An error of IPFS, or the cancelled context.
PublishFails(c) ==
  /\ pub[c].at \in Working \ {"unpins"} /\ End(c, "failed")
  /\ UNCHANGED <<dir, calls, current, closed, record, pinned, booted, up, late>>

\* Mutant: done is closed by a publish that comes to its end.
CloseDoneAtEnd(c) ==
  /\ c \notin closed /\ pub[c].at = "ended"
  /\ closed' = closed \cup {c}
  /\ UNCHANGED <<dir, calls, pub, current, record, pinned, booted, up, late>>

\* When the context is over: the publish came to its end, was superseded or shut down.
CloseDone(c) ==
  /\ c \notin closed
  /\ pub[c].at \in {"ended", "failed"} \/ (pub[c].at \in Working /\ Cancelled(c))
  /\ closed' = closed \cup {c}
  /\ UNCHANGED <<dir, calls, pub, current, record, pinned, booted, up, late>>

Bootstrap == Online /\ up /\ ~booted /\ booted' = TRUE /\ UNCHANGED <<dir, up, publishVars>>

\* The hour of the next republish has come.
Republish == up /\ Publish /\ UNCHANGED <<dir, booted, up>>

StepPublish(c) ==
  ReadRecord(c) \/ Unpin(c) \/ ReadListings(c) \/ AddRoot(c) \/ PublishRecord(c) \/ PublishFails(c)

PublisherNext ==
  \/ Bootstrap \/ Republish
  \/ \E c \in Call : TakePublish(c) \/ StepPublish(c) \/ CloseDone(c)
=============================================================================
