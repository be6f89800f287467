---------------------------- MODULE OrderRecord ----------------------------
(***************************************************************************)
(* What the record one party keeps of an order promises: a set of messages *)
(* that grows by legal moves.  A message of a single type is stored once   *)
(* and stays what it was; only the vendor's rating signatures are renewed. *)
(* Moves are made on a draft, which is then saved or dropped as a whole.   *)
(***************************************************************************)
EXTENDS OrderMessages

VARIABLES msgs,   \* the messages saved
          draft   \* the messages as the update in progress has them

Types(s) == {m.type : m \in s}

\* The types that must be stored before, or together with, one of this type.
Needs(type) ==
  CASE type = "ORDER_OPEN" -> {}
    [] type = "ORDER_FULFILLMENT" -> {"ORDER_OPEN", "ORDER_CONFIRMATION"}
    [] type = "DISPUTE_UPDATE" -> {"ORDER_OPEN", "DISPUTE_OPEN"}
    [] OTHER -> {"ORDER_OPEN"}

\* The types that, once stored, leave no place for one of this type.
Bars(type) ==
  CASE type = "ORDER_REJECT" -> {"ORDER_CONFIRMATION"}
    [] type \in {"ORDER_CONFIRMATION", "ORDER_FULFILLMENT"} -> {"ORDER_REJECT"}
    [] type \in {"ORDER_COMPLETE", "REFUND"} -> {"ORDER_CANCEL"}
    [] type = "DISPUTE_OPEN" -> {"ORDER_COMPLETE", "ORDER_REJECT", "ORDER_CANCEL"}
    [] OTHER -> {}

Init == msgs = {} /\ draft = {}

\* What may change between two drafts: messages are added, all that each needs
\* is there, nothing that bars it is, and nothing is forgotten.
Grows(old, new) ==
  /\ \A x \in old \ new : /\ x.type = "RATING_SIGNATURES"
                          /\ \E y \in new : y.type = x.type
  /\ \A x, y \in new : x.type = y.type => x = y \/ x.type \in ListType
  /\ \A x \in new \ old : /\ Needs(x.type) \subseteq Types(new)
                          /\ Bars(x.type) \cap Types(new) = {}

Edit == Grows(draft, draft') /\ UNCHANGED msgs

Record == msgs = draft /\ Grows(draft, draft') /\ msgs' = draft'

Save == msgs' = draft /\ UNCHANGED draft

Drop == draft' = msgs /\ UNCHANGED msgs

Next == Edit \/ Record \/ Save \/ Drop

Spec == Init /\ [][Next]_<<msgs, draft>>
============================================================================
