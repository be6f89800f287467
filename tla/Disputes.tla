------------------------------ MODULE Disputes ------------------------------
(***************************************************************************)
(* The third node of a moderated order: the moderator, who keeps a case of *)
(* its own (models.Case) from what the two parties send it.                *)
(*                                                                         *)
(* The party that opens the dispute sends its DISPUTE_OPEN to the other    *)
(* party and to the moderator, with its copy of the contract; the other    *)
(* party, when it processes the DISPUTE_OPEN, sends the moderator its own  *)
(* copy in a DISPUTE_UPDATE.  The messenger delivers each of the two when  *)
(* it can: in any order, and again after a restart of the moderator        *)
(* between its update of the case and its mark of the message.             *)
(***************************************************************************)
EXTENDS Orders

CONSTANT Supported   \* whether the moderator has a wallet for the order's coin

ASSUME SupportedAssumption == Supported \in BOOLEAN

VARIABLES
  case,      \* the moderator's record of the dispute
  handled    \* the messages the moderator has marked as received

caseVars == <<case, handled>>

\* A contract is known by the party whose copy it is. "flawed" are the parties
\* for whose contract validation errors are stored.
Copy == Node \cup {"none"}
Case == [openedBy: Copy, contract: [Node -> Copy], parked: Copy, flawed: SUBSET Node]

NoCase == [openedBy |-> "none", contract |-> [node \in Node |-> "none"],
           parked |-> "none", flawed |-> {}]

DInit ==
  /\ Init
  /\ case = NoCase
  /\ handled = {}

\* What the parties have handed to the messenger for the moderator.
Mail ==
  {m \in issued : m.type = "DISPUTE_OPEN"}
    \cup {m \in order["buyer"].msgs \cup order["vendor"].msgs : m.type = "DISPUTE_UPDATE"}

\* Mutant: the update that came first is forgotten when the dispute arrives.
PutDisputeOpenAlone(c, m) ==
  [c EXCEPT !.openedBy = m.by,
            !.contract = [@ EXCEPT ![m.by] = m.by],
            !.parked = "none"]

\* The opener's contract comes with the message, the other one is the update
\* that was parked, if there is one.
PutDisputeOpen(c, m) ==
  [c EXCEPT !.openedBy = m.by,
            !.contract = [node \in Node |-> IF node = m.by THEN m.by
                                           ELSE IF c.parked = "none" THEN c.contract[node]
                                           ELSE c.parked],
            !.parked = "none"]

\* Mutant: an update of a dispute that is not open yet is refused.
PutDisputeUpdateLate(c, m) ==
  IF c.openedBy = "none" \/ c.contract[Other(c.openedBy)] # "none" THEN c
  ELSE [c EXCEPT !.contract[Other(c.openedBy)] = m.by]

\* An update is taken for the other party's whoever sent it. A second one is
\* refused, one that comes before the dispute replaces the parked one.
PutDisputeUpdate(c, m) ==
  IF c.openedBy = "none" THEN [c EXCEPT !.parked = m.by]
  ELSE IF c.contract[Other(c.openedBy)] # "none" THEN c
  ELSE [c EXCEPT !.contract[Other(c.openedBy)] = m.by]

\* What validateDisputeOpen refuses outright; the sender of a party's message is
\* the party. What is wrong with the contract itself is only recorded, and the
\* vendor has found it before.
Refuses == deal.method # "MODERATED" \/ ~Supported
Flaws(m) == IF deal.valid THEN {{}} ELSE {{}, {m.by}}

\* Mutant: the second of two disputes takes the case over.
ReceiveOpenAgain(m) ==
  IF Refuses THEN case' = case
  ELSE \E flaws \in Flaws(m) :
         case' = [PutDisputeOpen(case, m) EXCEPT !.flawed = flaws]

\* A second DISPUTE_OPEN, of either party, is an error that rolls the update
\* back.
ReceiveOpen(m) ==
  IF Refuses \/ case.openedBy # "none" THEN case' = case
  ELSE \E flaws \in Flaws(m) :
         case' = [PutDisputeOpen(case, m) EXCEPT !.flawed = flaws]

\* handleDisputeMessage. The message is marked and acknowledged whatever comes of
\* it; it is handled again when the node stops before the mark.
HandleDispute(m) ==
  /\ m \in Mail \ handled
  /\ IF m.type = "DISPUTE_OPEN" THEN ReceiveOpen(m)
     ELSE case' = PutDisputeUpdate(case, m)
  /\ handled' \in {handled, handled \cup {m}}

DNext ==
  \/ Next /\ UNCHANGED caseVars
  \/ \E m \in Mail : HandleDispute(m) /\ UNCHANGED vars

DSpec == DInit /\ [][DNext]_<<vars, caseVars>>

-----------------------------------------------------------------------------
(* Properties *)

\* The case has its type, and only messages sent to the moderator are marked.
CaseTypeOK ==
  /\ case \in Case
  /\ handled \subseteq Mail

Disputers == {m.by : m \in {x \in issued : x.type = "DISPUTE_OPEN"}}

\* PutDisputeOpen and PutDisputeUpdate (models/cases.go:44): however the dispute
\* and the answer race to the moderator, and however often they are handled, once
\* both parties know a dispute that one of them opened, and the moderator has all
\* its mail, it holds the contract of each as that party sent it.
ModeratorHasBothContracts ==
  /\ Quiet /\ Mail \subseteq handled /\ Supported
  /\ Cardinality(Disputers) = 1
  /\ \A node \in Node : Has(order[node], "DISPUTE_OPEN")
  => case.contract = [node \in Node |-> node]

\* OpenDispute (core/disputes.go:105) sends to the moderator whether or not its own
\* processor took the dispute: a case is always about an order whose opener
\* holds a dispute, or one of the messages that exclude it came in between.
CaseHasGrounds ==
  case.openedBy # "none" =>
    \E type \in {"DISPUTE_OPEN", "ORDER_COMPLETE", "ORDER_REJECT", "ORDER_CANCEL"} :
      Has(order[case.openedBy], type)

Evidence(c) == ({c.contract[node] : node \in Node} \cup {c.parked}) \ {"none"}

\* handleDisputeMessage (core/disputes.go:124): a contract that the moderator has
\* accepted, parked or not, is never lost, and the case never changes hands, also
\* when both parties open the dispute at the same time.
EvidenceKept ==
  [][/\ Evidence(case) \subseteq Evidence(case')
     /\ case.openedBy \in {"none", case'.openedBy}]_case
=============================================================================
