--------------------------- MODULE ServiceProperties ---------------------------
(***************************************************************************)
(* What the workflow service must guarantee.  Each property says under     *)
(* which circumstances it is claimed: any interleaving and any fault; one  *)
(* run per thread at a time, and any fault; or that and no fault.          *)
(***************************************************************************)
EXTENDS WorkflowService, FiniteSets

RefundsBy(t, by) == {i \in DOMAIN ledger : ledger[i].thread = t /\ ledger[i].by = by}

RepliesOf(messages, reply) == {i \in DOMAIN messages : messages[i] = AI(reply)}

ActionOf(refund) == [user |-> refund.user, amount |-> refund.amount]

Suspended(t) == checkpoint[t].next = "auditor"

Quiet == \A w \in Workers : request[w].step = "idle"

(* The run of a request: what submit and resume do on its thread before     *)
(* they read the answer.  Reading is free to overlap anything.              *)
InRun(r) == r.step \in {"load", "save", "update", "put", "resume", "run"}

RunsOn(w, t) == InRun(request[w]) /\ request[w].thread = t

(* The runs of one thread follow one another; those of different threads    *)
(* overlap as they like.  The service does not see to it, its clients may.  *)
OneRunPerThread ==
  \A t \in Threads : \A v, w \in Workers : RunsOn(v, t) /\ RunsOn(w, t) => v = w

PerThreadSpec == Init /\ [][Next /\ OneRunPerThread']_vars

--------------------------------------------------------------------------------
(* Claimed under any interleaving and any fault.                            *)

(* No money over the limit moves unless billing escalated exactly that      *)
(* action on that thread and a reviewer approved something on it; below     *)
(* the limit no reviewer is involved.  (billing_node, auditor_node, and the *)
(* unchecked execute_approved_refund.)  Exactly the limit is not over it.   *)
OverLimitIsGoverned ==
  \A i \in DOMAIN ledger :
    LET r == ledger[i]
    IN  IF r.amount > Limit
        THEN /\ r.by = "auditor"
             /\ [thread |-> r.thread, action |-> ActionOf(r)] \in escalated
             /\ reviews[r.thread]["approved"] > 0
        ELSE r.by = "billing"

(* execute_approved_refund checks nothing, yet every refund it executes, as *)
(* every other, is of a positive amount to an account the CRM knows.        *)
RefundsAreValid ==
  \A i \in DOMAIN ledger : ledger[i].amount > 0 /\ KnownUser(ledger[i].user)

(* Whenever a thread is suspended, by whatever route, its checkpoint holds  *)
(* an over-limit action that billing escalated on it, so that a reviewer    *)
(* has something to decide (the proposed fields of WorkflowSnapshot).     *)
SuspendedIsReviewable ==
  \A t \in Threads : Suspended(t) =>
    /\ checkpoint[t].requiresApproval
    /\ checkpoint[t].proposed # None
    /\ RefundRequiresApproval(checkpoint[t].proposed.amount)
    /\ [thread |-> t, action |-> checkpoint[t].proposed] \in escalated

(* A reviewer is only ever called to a thread on which billing escalated:   *)
(* snapshots that list out of order, or list what they read before another  *)
(* request went on, may list a finished thread but never one that had       *)
(* nothing to approve.                                                      *)
ListedWasEscalated == \A t \in pending : \E e \in escalated : e.thread = t

(* The conversation never claims a refund that was not executed: the        *)
(* replies "I've refunded" and "Approved by reviewer" of a thread are at    *)
(* most the refunds executed on it, even when runs overwrite each other.    *)
RepliesAreHonest ==
  \A t \in Threads :
    LET replies(reply) == RepliesOf(checkpoint[t].messages, reply)
    IN  /\ Cardinality(replies("refunded")) <= Cardinality(RefundsBy(t, "billing"))
        /\ Cardinality(replies("approved")) <= Cardinality(RefundsBy(t, "auditor"))

(* Every request is answered, whatever the other workers and the faults do. *)
RequestsComplete ==
  \A w \in Workers : request[w].step # "idle" ~> request[w].step = "idle"

--------------------------------------------------------------------------------
(* Claimed for one run per thread at a time, under any fault.               *)

(* Money moved by the auditor moved in a request that carried an approval;  *)
(* a denial, and a decision left over in the state, moves none.             *)
DenialMovesNoMoney ==
  \A i \in DOMAIN ledger : ledger[i].by = "auditor" => ledger[i].review = "approved"

(* A reviewer's approval pays at most once.                                 *)
ApprovalsCoverRefunds ==
  \A t \in Threads : Cardinality(RefundsBy(t, "auditor")) <= reviews[t]["approved"]

(* No request removes or rewrites a message of a stored conversation: the   *)
(* add_messages reducer only appends.                                       *)
ConversationGrows ==
  [][\A t \in Threads :
       LET old == checkpoint[t].messages
           new == checkpoint'[t].messages
       IN  Len(old) <= Len(new) /\ SubSeq(new, 1, Len(old)) = old]_vars

--------------------------------------------------------------------------------
(* A ticket is refunded at most once, by billing or after an approval, and  *)
(* a fault lets at most one refund be executed again.                       *)
RefundsPerTicket ==
  \A t \in Threads :
    Cardinality(RefundsBy(t, "billing") \cup RefundsBy(t, "auditor")) <= tickets[t] + faults

(* The conversation accounts for every refund: while no run is in progress  *)
(* on a thread, each refund has its reply in the stored conversation, but   *)
(* for one per fault.                                                       *)
ConversationAccounts ==
  \A t \in Threads : (\A w \in Workers : ~RunsOn(w, t)) =>
    LET replies(reply) == Cardinality(RepliesOf(checkpoint[t].messages, reply))
        refunds(by)    == Cardinality(RefundsBy(t, by))
    IN  /\ replies("refunded") <= refunds("billing")
        /\ replies("approved") <= refunds("auditor")
        /\ refunds("billing") + refunds("auditor")
             <= replies("refunded") + replies("approved") + faults

(* With one worker, a decision posted on a suspended thread is carried out  *)
(* unless a fault interrupts it: an approval pays the proposed action, a denial closes it  *)
(* without paying.                                                          *)
DecisionIsCarriedOut ==
  \A w \in Workers, t \in Threads, n \in 0 .. MaxTickets, f \in 0 .. MaxFaults :
    LET posted(d) == /\ request[w].step = "update" /\ request[w].thread = t
                     /\ request[w].decision = d
                     /\ Suspended(t) /\ Len(ledger) = n /\ faults = f
    IN  /\ posted("approved") ~> ((Len(ledger) = n + 1 /\ ~Suspended(t)) \/ faults > f)
        /\ posted("denied") ~> ((Len(ledger) = n /\ ~Suspended(t)) \/ faults > f)

--------------------------------------------------------------------------------
(* Claimed for one run per thread at a time and no fault.                   *)

(* A ticket is refunded at most once, by billing or after an approval.      *)
OneRefundPerTicket ==
  \A t \in Threads :
    Cardinality(RefundsBy(t, "billing") \cup RefundsBy(t, "auditor")) <= tickets[t]

(* The graph escalates only a high-value ticket.                            *)
EscalatesOnlyHighValue ==
  \A w \in Workers :
    LET cp == request[w].cp
    IN  (request[w].step = "save" /\ cp.next = "auditor") =>
          /\ BillingAmount(cp) # None
          /\ RefundRequiresApproval(BillingAmount(cp))

(* An escalation that nobody has decided is still open for a reviewer.      *)
EscalationStaysOpen ==
  Quiet => \A t \in Threads : checkpoint[t].requiresApproval => Suspended(t)

--------------------------------------------------------------------------------
(* The gate of a thread is open while an escalation is undecided; the state *)
(* of a run counts from the moment its node has run, before it is saved.    *)
Effective(t) ==
  IF \E w \in Workers : request[w].step = "save" /\ request[w].thread = t
  THEN request[CHOOSE w \in Workers : request[w].step = "save" /\ request[w].thread = t].cp
  ELSE checkpoint[t]

Undecided(cp) == IF cp.requiresApproval THEN cp.proposed ELSE None

Requested == {ExtractAmount[text] : text \in Texts} \ {None}

OpenGates == [t \in Threads |-> Undecided(Effective(t))]

SavedGates == [t \in Threads |-> Undecided(checkpoint[t])]

Payments ==
  [i \in DOMAIN ledger |-> [thread |-> ledger[i].thread, action |-> ActionOf(ledger[i])]]

Gate == INSTANCE ApprovalGate WITH open <- OpenGates, saved <- SavedGates, paid <- Payments

(* One run per thread, the service implements the gate, whatever fails:     *)
(* an approval pays the escalated action, a denial none, nothing else pays  *)
(* an over-limit amount, and only a failure opens a decided gate again.     *)
ImplementsApprovalGate == Gate!Spec
================================================================================
