------------------------------ MODULE Delivery ------------------------------
(***************************************************************************)
(* What the messenger promises its callers: a message that was sent stays  *)
(* pending until the recipient has received it or has failed to process    *)
(* it, and nothing is received that was not sent.                          *)
(***************************************************************************)
CONSTANT Messages

VARIABLES sent,      \* the messages whose sending was committed
          pending,   \* those the sender still has to deliver
          received,  \* those the recipient has processed
          failed     \* those whose processing has failed

Init == sent = {} /\ pending = {} /\ received = {} /\ failed = {}

Send(m) ==
  /\ m \notin sent
  /\ sent' = sent \cup {m}
  /\ pending' = pending \cup {m}
  /\ UNCHANGED <<received, failed>>

Receive(m) ==
  /\ m \in sent
  /\ received' = received \cup {m}
  /\ UNCHANGED <<sent, pending, failed>>

Fail(m) ==
  /\ m \in sent
  /\ failed' = failed \cup {m}
  /\ UNCHANGED <<sent, pending, received>>

Settle(m) ==
  /\ m \in received \cup failed
  /\ pending' = pending \ {m}
  /\ UNCHANGED <<sent, received, failed>>

Next == \E m \in Messages : Send(m) \/ Receive(m) \/ Fail(m) \/ Settle(m)

Spec == Init /\ [][Next]_<<sent, pending, received, failed>>
=============================================================================
