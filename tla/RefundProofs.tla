------------------------------ MODULE RefundProofs ------------------------------
(***************************************************************************)
(* The properties of ServiceProperties that count: refunds against the     *)
(* replies that claim them, for any interleaving, and against tickets and  *)
(* faults, for one run per thread at a time.  Two counts of a state        *)
(* decide: the claims its conversation makes and the refunds it may still  *)
(* cause.                                                                  *)
(***************************************************************************)
EXTENDS SerialProofs

Unit(b) == IF b THEN 1 ELSE 0

(* The replies that claim a refund, and the node that executes it.          *)
Claims == {"refunded", "approved"}
By(claim) == IF claim = "refunded" THEN "billing" ELSE "auditor"

Said(messages, reply) == Cardinality(RepliesOf(messages, reply))

Paid(t, by) == Cardinality(RefundsBy(t, by))
PaidOn(t) == Paid(t, "billing") + Paid(t, "auditor")

(* What a state may still cause without a new ticket: a refund by billing   *)
(* when it is on its way there, and one after an approval.                  *)
MayRefund(cp) ==
  \/ cp.next = "start"
  \/ cp.next \in {"supervisor", "billing"} /\ BillingAmount(cp) # None

Owed(cp) == Unit(MayRefund(cp)) + Unit(cp.requiresApproval)

(* The waiting task is the one the edges name, so that update_state, which  *)
(* takes them again, does not bring back a ticket that has been served.     *)
Routed(cp) ==
  /\ cp.last = None => cp.messages = << >>
  /\ cp.next # "start" /\ cp.last # None => cp.next = Route(cp.last, cp)

--------------------------------------------------------------------------------
(* Counting.                                                                *)

LEMMA SaidType ==
  ASSUME NEW messages \in Seq(Entries), NEW reply
  PROVE  IsFiniteSet(RepliesOf(messages, reply)) /\ Said(messages, reply) \in Nat
<1>1. RepliesOf(messages, reply) \subseteq 1 .. Len(messages)
  BY DEF RepliesOf
<1>2. IsFiniteSet(1 .. Len(messages))
  BY FS_Interval
<1>3. IsFiniteSet(RepliesOf(messages, reply))
  BY <1>1, <1>2, FS_Subset
<1> QED
  BY <1>3, FS_CardinalityType DEF Said

LEMMA SaidAppend ==
  ASSUME NEW messages \in Seq(Entries), NEW entry \in Entries, NEW reply
  PROVE  Said(Append(messages, entry), reply) = Said(messages, reply) + Unit(entry = AI(reply))
<1> DEFINE longer == Append(messages, entry)
<1>1. /\ Len(longer) = Len(messages) + 1 /\ longer[Len(messages) + 1] = entry
      /\ \A i \in 1 .. Len(messages) : longer[i] = messages[i]
      /\ DOMAIN longer = 1 .. Len(messages) + 1 /\ DOMAIN messages = 1 .. Len(messages)
  OBVIOUS
<1> HIDE DEF longer
<1>2. CASE entry = AI(reply)
  <2>1. RepliesOf(longer, reply) = RepliesOf(messages, reply) \cup {Len(messages) + 1}
    BY <1>1, <1>2 DEF RepliesOf
  <2>2. Len(messages) + 1 \notin RepliesOf(messages, reply)
    BY <1>1 DEF RepliesOf
  <2> QED
    BY <1>2, <2>1, <2>2, SaidType, FS_AddElement DEF Said, Unit, longer
<1>3. CASE entry # AI(reply)
  <2>1. RepliesOf(longer, reply) = RepliesOf(messages, reply)
    BY <1>1, <1>3 DEF RepliesOf
  <2> QED
    BY <1>3, <2>1, SaidType DEF Said, Unit, longer
<1> QED
  BY <1>2, <1>3

LEMMA PaidType ==
  ASSUME ledger \in Seq(Refunds), NEW t, NEW by
  PROVE  IsFiniteSet(RefundsBy(t, by)) /\ Paid(t, by) \in Nat
<1>1. RefundsBy(t, by) \subseteq 1 .. Len(ledger)
  BY DEF RefundsBy
<1>2. IsFiniteSet(1 .. Len(ledger))
  BY FS_Interval
<1>3. IsFiniteSet(RefundsBy(t, by))
  BY <1>1, <1>2, FS_Subset
<1> QED
  BY <1>3, FS_CardinalityType DEF Paid

LEMMA PaidAppend ==
  ASSUME ledger \in Seq(Refunds), NEW r \in Refunds, ledger' = Append(ledger, r), NEW t, NEW by
  PROVE  Paid(t, by)' = Paid(t, by) + Unit(r.thread = t /\ r.by = by)
<1>1. /\ Len(ledger') = Len(ledger) + 1 /\ ledger'[Len(ledger) + 1] = r
      /\ \A i \in 1 .. Len(ledger) : ledger'[i] = ledger[i]
      /\ DOMAIN ledger' = 1 .. Len(ledger) + 1 /\ DOMAIN ledger = 1 .. Len(ledger)
      /\ Len(ledger) \in Nat
  OBVIOUS
<1>2. CASE r.thread = t /\ r.by = by
  <2>1. RefundsBy(t, by)' = RefundsBy(t, by) \cup {Len(ledger) + 1}
    BY <1>1, <1>2 DEF RefundsBy
  <2>2. Len(ledger) + 1 \notin RefundsBy(t, by)
    BY <1>1 DEF RefundsBy
  <2> QED
    BY <1>2, <2>1, <2>2, PaidType, FS_AddElement DEF Paid, Unit
<1>3. CASE ~(r.thread = t /\ r.by = by)
  <2>1. RefundsBy(t, by)' = RefundsBy(t, by)
    BY <1>1, <1>3 DEF RefundsBy
  <2> QED
    BY <1>3, <2>1, PaidType DEF Paid, Unit
<1> QED
  BY <1>2, <1>3

LEMMA PaidSame ==
  ASSUME ledger' = ledger, NEW t, NEW by
  PROVE  Paid(t, by)' = Paid(t, by)
BY DEF Paid, RefundsBy

LEMMA OwedType == \A cp : Owed(cp) \in Nat
BY DEF Owed, Unit

--------------------------------------------------------------------------------
(* What a node does to the two counts: nothing, or it pays one refund of    *)
(* those owed and claims it.                                                *)
Silent(old, new) ==
  /\ Owed(new) <= Owed(old)
  /\ \A c \in Claims : Said(new.messages, c) = Said(old.messages, c)

Pays(old, new, claim) ==
  /\ Owed(new) + 1 <= Owed(old)
  /\ \A c \in Claims : Said(new.messages, c) = Said(old.messages, c) + Unit(c = claim)

LEMMA AdvanceRouted ==
  ASSUME NEW cp \in Checkpoints, NEW node \in Nodes
  PROVE  Routed(Advance(node, cp))
<1> DEFINE new == Advance(node, cp)
<1>1. new.last = node /\ new.next = Route(node, cp) /\ node # None
  BY NoneIsNothing DEF Advance, Checkpoints
<1>2. new.intent = cp.intent /\ new.requiresApproval = cp.requiresApproval
  BY DEF Advance, Checkpoints
<1>3. Route(node, new) = Route(node, cp)
  BY <1>2 DEF Route, RouteFromSupervisor, RouteFromBilling
<1> HIDE DEF new
<1> QED
  BY <1>1, <1>3 DEF Routed, new

(* A reply of a node is a claim or not.                                     *)
LEMMA SaidReply ==
  ASSUME NEW cp \in Checkpoints, NEW reply \in Replies
  PROVE  /\ \A c \in Claims : Said(Reply(cp, reply), c) = Said(cp.messages, c) + Unit(c = reply)
         /\ \A c \in Claims : Said(cp.messages, c) \in Nat
<1>1. cp.messages \in Seq(Entries) /\ AI(reply) \in Entries
  BY DEF Checkpoints, AI, Entries
<1>2. \A c \in Claims : (AI(reply) = AI(c)) <=> (c = reply)
  BY DEF AI
<1> QED
  BY <1>1, <1>2, SaidAppend, SaidType DEF Reply, Unit

LEMMA StartCounts ==
  ASSUME NEW cp \in Checkpoints, cp.next = "start", cp.input # None
  PROVE  Silent(cp, Start(cp)) /\ Routed(Start(cp))
<1> DEFINE old == [cp EXCEPT !.messages = Append(cp.messages, Human(cp.input)), !.input = None]
<1>1. /\ cp.messages \in Seq(Entries) /\ Human(cp.input) \in Entries
      /\ Append(cp.messages, Human(cp.input)) \in Seq(Entries)
      /\ Start(cp) = Advance("start", old)
  <2>1. cp.messages \in Seq(Entries) /\ Human(cp.input) \in Entries
    BY DEF Checkpoints, Human, Entries
  <2> QED
    BY <2>1 DEF Start
<1>2. /\ old \in Checkpoints /\ old.messages = Append(cp.messages, Human(cp.input))
      /\ old.requiresApproval = cp.requiresApproval
  BY <1>1 DEF Checkpoints
<1> HIDE DEF old
<1>3. /\ Start(cp).messages = old.messages /\ Start(cp).next = "supervisor"
      /\ Start(cp).requiresApproval = cp.requiresApproval
  BY <1>1, <1>2 DEF Advance, Route, Checkpoints
<1>4. \A c \in Claims : Said(Start(cp).messages, c) = Said(cp.messages, c)
  <2>1. ASSUME NEW c \in Claims
        PROVE  Said(Append(cp.messages, Human(cp.input)), c) = Said(cp.messages, c)
    <3>1. Human(cp.input) # AI(c)
      BY DEF Human, AI
    <3> QED
      BY <1>1, <3>1, SaidAppend, SaidType DEF Unit
  <2> QED
    BY <1>2, <1>3, <2>1
<1>5. Owed(Start(cp)) <= Owed(cp)
  BY <1>3 DEF Owed, MayRefund, Unit
<1>6. Routed(Start(cp))
  BY <1>1, <1>2, AdvanceRouted DEF Nodes
<1> QED
  BY <1>4, <1>5, <1>6 DEF Silent

LEMMA SupervisorCounts ==
  ASSUME NEW cp \in Checkpoints, cp.next = "supervisor", NEW intent \in Intents,
         NEW id \in UserIds
  PROVE  Silent(cp, Supervisor(cp, intent, id)) /\ Routed(Supervisor(cp, intent, id))
<1> DEFINE new == Supervisor(cp, intent, id)
           old == [cp EXCEPT !.intent = intent, !.user = ClassifiedUser(cp, id),
                             !.assignee = IF intent = "unknown" THEN "supervisor" ELSE intent]
<1>1. new = Advance("supervisor", old)
  BY DEF Supervisor
<1>2. ClassifiedUser(cp, id) \in UserIds
  BY ExtractedType DEF ClassifiedUser, Checkpoints
<1>3. old \in Checkpoints /\ old.messages = cp.messages /\ old.intent = intent
      /\ old.requiresApproval = cp.requiresApproval
  BY <1>2 DEF Checkpoints, Intents, Assignees
<1> HIDE DEF old
<1>4. /\ new.messages = cp.messages /\ new.requiresApproval = cp.requiresApproval
      /\ new.next \in {"billing", "support", "end"}
  BY <1>1, <1>3 DEF Advance, Route, RouteFromSupervisor, Checkpoints
<1>5. Routed(new)
  BY <1>1, <1>3, AdvanceRouted DEF Nodes
<1> HIDE DEF new
<1>6. Owed(new) <= Owed(cp)
  BY <1>4 DEF Owed, MayRefund, BillingAmount, Unit
<1> QED
  BY <1>4, <1>5, <1>6 DEF Silent, new

(* Any return of billing ends or suspends the run.                          *)
LEMMA BillingRepliesCounts ==
  ASSUME NEW cp \in Checkpoints, cp.next = "billing", NEW reply \in Replies
  PROVE  /\ Routed(BillingReplies(cp, reply))
         /\ reply \notin Claims => Silent(cp, BillingReplies(cp, reply))
         /\ reply \in Claims /\ BillingAmount(cp) # None =>
              Pays(cp, BillingReplies(cp, reply), reply)
<1> DEFINE new == BillingReplies(cp, reply)
           old == [cp EXCEPT !.messages = Reply(cp, reply), !.assignee = "billing"]
<1>1. new = Advance("billing", old) /\ old \in Checkpoints
  BY ReplyType DEF BillingReplies, Checkpoints, Assignees
<1>2. /\ new.messages = Reply(cp, reply) /\ new.requiresApproval = cp.requiresApproval
      /\ new.next \in {"auditor", "end"}
  BY DEF BillingReplies, Advance, Route, RouteFromBilling, Checkpoints
<1>3. Routed(new)
  BY <1>1, AdvanceRouted DEF Nodes
<1> HIDE DEF new, old
<1>4. Owed(new) = Unit(cp.requiresApproval)
  BY <1>2 DEF Owed, MayRefund, Unit
<1>5. Owed(cp) = Unit(BillingAmount(cp) # None) + Unit(cp.requiresApproval)
  BY DEF Owed, MayRefund, Unit
<1>6. reply \notin Claims => Silent(cp, new)
  BY <1>2, <1>4, <1>5, SaidReply DEF Silent, Unit
<1>7. reply \in Claims /\ BillingAmount(cp) # None => Pays(cp, new, reply)
  BY <1>2, <1>4, <1>5, SaidReply DEF Pays, Unit
<1> QED
  BY <1>3, <1>6, <1>7 DEF new

(* An escalation turns the refund billing owes into one after an approval.  *)
LEMMA BillingEscalatesCounts ==
  ASSUME NEW cp \in Checkpoints, cp.next = "billing", ~BillingIncomplete(cp)
  PROVE  Silent(cp, BillingEscalates(cp)) /\ Routed(BillingEscalates(cp))
<1> DEFINE new == BillingEscalates(cp)
           old == [cp EXCEPT !.messages = Reply(cp, "escalated"), !.assignee = "auditor",
                             !.proposed = [user |-> cp.user, amount |-> BillingAmount(cp)],
                             !.requiresApproval = TRUE]
<1>1. "escalated" \in Replies \ Claims /\ BillingAmount(cp) # None
  BY DEF Replies, Claims, BillingIncomplete
<1>2. new = Advance("billing", old) /\ old \in Checkpoints
  BY <1>1, ReplyType, BillingActionType DEF BillingEscalates, Checkpoints, Assignees
<1>3. /\ new.messages = Reply(cp, "escalated") /\ new.requiresApproval
      /\ new.next = "auditor"
  BY DEF BillingEscalates, Advance, Route, RouteFromBilling, Checkpoints
<1>4. Routed(new)
  BY <1>2, AdvanceRouted DEF Nodes
<1> HIDE DEF new, old
<1>5. Owed(new) <= Owed(cp)
  BY <1>1, <1>3 DEF Owed, MayRefund, Unit
<1>6. \A c \in Claims : Said(new.messages, c) = Said(cp.messages, c)
  BY <1>1, <1>3, SaidReply DEF Unit
<1> QED
  BY <1>4, <1>5, <1>6 DEF Silent, new

LEMMA SupportCounts ==
  ASSUME NEW cp \in Checkpoints
  PROVE  Silent(cp, Support(cp)) /\ Routed(Support(cp))
<1> DEFINE new == Support(cp)
           old == [cp EXCEPT !.messages = Reply(cp, "answered"), !.assignee = "support"]
<1>1. "answered" \in Replies \ Claims
  BY DEF Replies, Claims
<1>2. new = Advance("support", old) /\ old \in Checkpoints
  BY <1>1, ReplyType DEF Support, Checkpoints, Assignees
<1>3. /\ new.messages = Reply(cp, "answered") /\ new.requiresApproval = cp.requiresApproval
      /\ new.next = "end"
  BY DEF Support, Advance, Route, Checkpoints
<1>4. Routed(new)
  BY <1>2, AdvanceRouted DEF Nodes
<1> HIDE DEF new, old
<1>5. Owed(new) <= Owed(cp)
  BY <1>3 DEF Owed, MayRefund, Unit
<1>6. \A c \in Claims : Said(new.messages, c) = Said(cp.messages, c)
  BY <1>1, <1>3, SaidReply DEF Unit
<1> QED
  BY <1>4, <1>5, <1>6 DEF Silent, new

(* The auditor's payment is the one the flag stands for, and resets it.     *)
LEMMA AuditorCounts ==
  ASSUME NEW cp \in Checkpoints, cp.next = "auditor", cp.requiresApproval
  PROVE  /\ Routed(Auditor(cp))
         /\ AuditorPays(cp) => Pays(cp, Auditor(cp), "approved")
         /\ ~AuditorPays(cp) => Silent(cp, Auditor(cp))
<1>1. /\ {"approved", "declined"} \subseteq Replies /\ "declined" \notin Claims
      /\ Owed(cp) = 1
  BY DEF Replies, Claims, Owed, MayRefund, Unit
<1>2. ASSUME NEW reply \in {"approved", "declined"}
      PROVE  LET new == Advance("auditor", [cp EXCEPT !.messages = Reply(cp, reply),
                               !.assignee = "auditor", !.requiresApproval = FALSE])
             IN  /\ Routed(new)
                 /\ reply = "approved" => Pays(cp, new, reply)
                 /\ reply = "declined" => Silent(cp, new)
  <2> DEFINE old == [cp EXCEPT !.messages = Reply(cp, reply), !.assignee = "auditor",
                               !.requiresApproval = FALSE]
             new == Advance("auditor", old)
  <2>1. old \in Checkpoints
    BY <1>1, <1>2, ReplyType DEF Checkpoints, Assignees
  <2>2. new.messages = Reply(cp, reply) /\ new.next = "end" /\ new.requiresApproval = FALSE
    BY DEF Advance, Route, Checkpoints
  <2>3. Routed(new)
    BY <2>1, AdvanceRouted DEF Nodes
  <2> HIDE DEF old, new
  <2>4. Owed(new) = 0
    BY <2>2 DEF Owed, MayRefund, Unit
  <2>5. reply = "approved" => Pays(cp, new, reply)
    BY <1>1, <2>2, <2>4, SaidReply DEF Pays
  <2>6. reply = "declined" => Silent(cp, new)
    BY <1>1, <2>2, <2>4, SaidReply DEF Silent, Unit
  <2> QED
    BY <2>3, <2>5, <2>6 DEF new, old
<1>3. LET new == Advance("auditor", [cp EXCEPT !.assignee = "auditor"])
      IN  Routed(new) /\ Silent(cp, new)
  <2> DEFINE old == [cp EXCEPT !.assignee = "auditor"]
             new == Advance("auditor", old)
  <2>1. old \in Checkpoints
    BY DEF Checkpoints, Assignees
  <2>2. new.messages = cp.messages /\ new.next = "end" /\ new.requiresApproval = TRUE
    BY DEF Advance, Route, Checkpoints
  <2>3. Routed(new)
    BY <2>1, AdvanceRouted DEF Nodes
  <2> HIDE DEF old, new
  <2>4. Owed(new) = 1
    BY <2>2 DEF Owed, MayRefund, Unit
  <2>5. Silent(cp, new)
    BY <1>1, <2>2, <2>4 DEF Silent
  <2> QED
    BY <2>3, <2>5 DEF new, old
<1> QED
  BY <1>2, <1>3 DEF Auditor

(* A new ticket may cause one refund more ...                               *)
LEMMA SubmitInputCounts ==
  ASSUME NEW cp \in Checkpoints, Routed(cp), NEW text \in Texts
  PROVE  /\ Routed(SubmitInput(cp, text)) /\ Owed(SubmitInput(cp, text)) <= Owed(cp) + 1
         /\ SubmitInput(cp, text).messages = cp.messages
<1> DEFINE new == SubmitInput(cp, text)
<1>1. /\ new.messages = cp.messages /\ new.requiresApproval = cp.requiresApproval
      /\ new.next = "start" /\ new.last = IF cp.next = "end" THEN cp.last ELSE cp.next
      /\ cp.next \in Nodes \cup {"end"}
  BY DEF SubmitInput, Checkpoints
<1> HIDE DEF new
<1>2. Owed(new) <= Owed(cp) + 1
  BY <1>1 DEF Owed, MayRefund, Unit
<1>3. Routed(new)
  BY <1>1, NoneIsNothing DEF Routed
<1> QED
  BY <1>1, <1>2, <1>3 DEF new

(* ... and a decision none, whatever task it brings back.                   *)
LEMMA UpdateStateCounts ==
  ASSUME NEW cp \in Checkpoints, Routed(cp), NEW decision \in Verdicts
  PROVE  /\ Routed(UpdateState(cp, decision)) /\ Owed(UpdateState(cp, decision)) <= Owed(cp)
         /\ UpdateState(cp, decision).messages = cp.messages
<1> DEFINE new == UpdateState(cp, decision)
           written == [cp EXCEPT !.decision = decision, !.input = None]
           from == IF cp.last = None THEN "start" ELSE cp.last
<1>1. /\ new.messages = cp.messages /\ new.requiresApproval = cp.requiresApproval
      /\ new.last = cp.last /\ new.intent = cp.intent
      /\ new.next = Route(from, written)
  BY DEF UpdateState, Checkpoints
<1>2. written.intent = cp.intent /\ written.requiresApproval = cp.requiresApproval
  BY DEF Checkpoints
<1> HIDE DEF new, written
<1>3. \A node : Route(node, written) = Route(node, cp) /\ Route(node, new) = Route(node, cp)
  BY <1>1, <1>2 DEF Route, RouteFromSupervisor, RouteFromBilling
<1>4. new.next = Route(from, cp) /\ new.next # "start"
  BY <1>1, <1>3 DEF Route, RouteFromSupervisor, RouteFromBilling
<1>5. Routed(new)
  BY <1>1, <1>3, <1>4 DEF Routed
<1>6. BillingAmount(new) = BillingAmount(cp)
  BY <1>1 DEF BillingAmount
<1>7. MayRefund(new) => MayRefund(cp)
  <2>1. CASE cp.next = "start"
    BY <2>1 DEF MayRefund
  <2>2. CASE cp.next # "start" /\ cp.last # None
    BY <1>4, <1>6, <2>2 DEF MayRefund, Routed
  <2>3. CASE cp.next # "start" /\ cp.last = None
    <3>1. cp.messages = << >>
      BY <2>3 DEF Routed
    <3>2. HumanPositions(cp.messages) = {}
      BY <3>1 DEF HumanPositions
    <3>3. BillingAmount(cp) = None
      BY <3>2, GraphAssumption DEF BillingAmount, LatestText
    <3> QED
      BY <1>4, <1>6, <3>3 DEF MayRefund
  <2> QED
    BY <2>1, <2>2, <2>3
<1>8. Owed(new) <= Owed(cp)
  BY <1>1, <1>7 DEF Owed, Unit
<1> QED
  BY <1>1, <1>5, <1>8 DEF new

--------------------------------------------------------------------------------
(* The steps of a request.                                                  *)

NodeStep(w, cp) ==
  /\ cp \in Checkpoints /\ Ran(w, cp) /\ Routed(cp)
  /\ UNCHANGED <<checkpoint, tickets, faults>>
  /\ \/ Silent(request[w].cp, cp) /\ ledger' = ledger
     \/ \E c \in Claims, r \in Refunds :
          /\ Pays(request[w].cp, cp, c)
          /\ r.thread = request[w].thread /\ r.by = By(c) /\ ledger' = Append(ledger, r)

LEMMA NodeCounts ==
  ASSUME IInv, NEW w \in Workers, Proceed(w), request[w].step = "run"
  PROVE  \E cp : NodeStep(w, cp)
<1> DEFINE q == request[w]
<1>1. /\ q \in Requests /\ q.cp \in Checkpoints /\ q.thread \in Threads
      /\ Governed(q.thread, q.cp, escalated, reviews)
  BY DEF IInv, TypeOK, Requests, RequestGoverned
<1>2. CASE RunStart(w)
  <2>1. q.cp.input # None /\ q.cp.next = "start"
    BY <1>1, <1>2 DEF RunStart, Runs, Governed
  <2>2. NodeStep(w, Start(q.cp))
    BY <1>1, <1>2, <2>1, StartType, StartCounts DEF RunStart, NodeStep, histories
  <2> QED
    BY <2>2
<1>3. CASE RunSupervisor(w)
  <2>1. PICK intent \in Intents, id \in RouterIds : Ran(w, Supervisor(q.cp, intent, id))
    BY <1>3 DEF RunSupervisor
  <2>2. NodeStep(w, Supervisor(q.cp, intent, id))
    BY <1>1, <1>3, <2>1, SupervisorType, SupervisorCounts, ServiceAssumption
       DEF RunSupervisor, Runs, NodeStep, histories
  <2> QED
    BY <2>2
<1>4. CASE RunBillingAsks(w) \/ RunBillingRefuses(w)
  <2>1. PICK reply \in Replies \ Claims : Ran(w, BillingReplies(q.cp, reply))
    <3>1. {"which_account", "how_much", "invalid_amount", "user_not_found"}
            \subseteq Replies \ Claims
      BY DEF Replies, Claims
    <3> QED
      BY <1>4, <3>1 DEF RunBillingAsks, BillingAsks, RunBillingRefuses, BillingRefuses
  <2>2. NodeStep(w, BillingReplies(q.cp, reply))
    BY <1>1, <1>4, <2>1, BillingRepliesType, BillingRepliesCounts
       DEF RunBillingAsks, RunBillingRefuses, Runs, NodeStep, histories
  <2> QED
    BY <2>2
<1>5. CASE RunBillingEscalates(w)
  <2>1. NodeStep(w, BillingEscalates(q.cp))
    BY <1>1, <1>5, BillingActionType, BillingEscalatesType, BillingEscalatesCounts
       DEF RunBillingEscalates, Runs, NodeStep
  <2> QED
    BY <2>1
<1>6. CASE RunBillingRefunds(w)
  <2> DEFINE action == [user |-> q.cp.user, amount |-> BillingAmount(q.cp)]
             r == [thread |-> q.thread, by |-> "billing", user |-> action.user,
                   amount |-> action.amount, review |-> None]
             new == BillingReplies(q.cp, "refunded")
  <2>1. /\ ~BillingIncomplete(q.cp) /\ q.cp.next = "billing"
        /\ "refunded" \in Replies /\ "refunded" \in Claims
        /\ ledger' = Append(ledger, r)
        /\ Ran(w, new) /\ UNCHANGED <<checkpoint, tickets, faults>>
    BY <1>6 DEF RunBillingRefunds, BillingRefunds, Runs, Refunded, Replies, Claims
  <2>2. action.user \in Ids /\ action.amount \in Nat
    BY <1>1, <2>1, BillingActionType DEF Actions
  <2> HIDE DEF action
  <2>3. r \in Refunds /\ r.thread = q.thread /\ r.by = By("refunded")
    BY <1>1, <2>2 DEF Refunds, By
  <2> HIDE DEF r
  <2>4. Pays(q.cp, new, "refunded") /\ Routed(new)
    BY <1>1, <2>1, BillingRepliesCounts DEF BillingIncomplete
  <2>5. new \in Checkpoints
    BY <1>1, <2>1, BillingRepliesType
  <2> HIDE DEF new
  <2>6. NodeStep(w, new)
    BY <2>1, <2>3, <2>4, <2>5 DEF NodeStep
  <2> QED
    BY <2>6
<1>7. CASE RunSupport(w)
  <2>1. NodeStep(w, Support(q.cp))
    BY <1>1, <1>7, SupportType, SupportCounts DEF RunSupport, NodeStep, histories
  <2> QED
    BY <2>1
<1>8. CASE RunAuditor(w)
  <2>1. /\ q.cp.next = "auditor" /\ q.cp.requiresApproval /\ "approved" \in Claims
        /\ Ran(w, Auditor(q.cp)) /\ UNCHANGED <<checkpoint, tickets, faults>>
    BY <1>1, <1>8 DEF RunAuditor, Runs, Governed, Claims
  <2>2. Routed(Auditor(q.cp)) /\ Auditor(q.cp) \in Checkpoints
    BY <1>1, <2>1, AuditorType, AuditorCounts
  <2>3. CASE AuditorPays(q.cp)
    <3>1. PICK r : PaysFor(w, r)
      BY <1>8, <2>3, AuditorPaysFor
    <3>2. r \in Refunds /\ r.thread = q.thread /\ r.by = By("approved")
          /\ ledger' = Append(ledger, r)
      BY <3>1 DEF PaysFor, By
    <3>3. Pays(q.cp, Auditor(q.cp), "approved")
      BY <1>1, <2>1, <2>3, AuditorCounts
    <3> QED
      BY <2>1, <2>2, <3>2, <3>3 DEF NodeStep
  <2>4. CASE ~AuditorPays(q.cp)
    <3>1. Silent(q.cp, Auditor(q.cp)) /\ ledger' = ledger
      BY <1>1, <1>8, <2>1, <2>4, AuditorCounts DEF RunAuditor
    <3> QED
      BY <2>1, <2>2, <3>1 DEF NodeStep
  <2> QED
    BY <2>3, <2>4
<1> QED
  BY <1>2, <1>3, <1>4, <1>5, <1>6, <1>7, <1>8
     DEF Proceed, SubmitLoad, UpdateRead, UpdatePut, ResumeLoad, Save, Snapshot, Mark

(* The counts of a node's step, thread by thread.                           *)
LEMMA NodeTallies ==
  ASSUME IInv, NEW w \in Workers, NEW cp, NodeStep(w, cp), NEW t \in Threads
  PROVE  /\ t # request[w].thread =>
              /\ Paid(t, "billing")' = Paid(t, "billing")
              /\ Paid(t, "auditor")' = Paid(t, "auditor")
         /\ t = request[w].thread =>
              /\ Said(cp.messages, "refunded") + Paid(t, "billing")
                   = Said(request[w].cp.messages, "refunded") + Paid(t, "billing")'
              /\ Said(cp.messages, "approved") + Paid(t, "auditor")
                   = Said(request[w].cp.messages, "approved") + Paid(t, "auditor")'
              /\ PaidOn(t)' + Owed(cp) <= PaidOn(t) + Owed(request[w].cp)
              /\ PaidOn(t)' <= PaidOn(t) + 1
<1> DEFINE old == request[w].cp
<1>1. /\ ledger \in Seq(Refunds) /\ old \in Checkpoints /\ cp \in Checkpoints
  BY DEF NodeStep, IInv, TypeOK, Requests
<1>2. /\ Paid(t, "billing") \in Nat /\ Paid(t, "auditor") \in Nat
      /\ \A c \in Claims : Said(old.messages, c) \in Nat /\ Said(cp.messages, c) \in Nat
      /\ Owed(old) \in Nat /\ Owed(cp) \in Nat
  BY <1>1, PaidType, SaidType, OwedType DEF Checkpoints
<1>3. {"refunded", "approved"} \subseteq Claims
  BY DEF Claims
<1> HIDE DEF old
<1>4. CASE Silent(old, cp) /\ ledger' = ledger
  <2>1. /\ Paid(t, "billing")' = Paid(t, "billing") /\ Paid(t, "auditor")' = Paid(t, "auditor")
    BY <1>4, PaidSame
  <2>2. PaidOn(t)' = PaidOn(t) /\ PaidOn(t) \in Nat
    BY <1>2, <2>1 DEF PaidOn
  <2> QED
    BY <1>2, <1>3, <1>4, <2>1, <2>2 DEF Silent, old
<1>5. ASSUME NEW c \in Claims, NEW r \in Refunds, Pays(old, cp, c),
             r.thread = request[w].thread, r.by = By(c), ledger' = Append(ledger, r)
      PROVE  /\ t # request[w].thread =>
                  /\ Paid(t, "billing")' = Paid(t, "billing")
                  /\ Paid(t, "auditor")' = Paid(t, "auditor")
             /\ t = request[w].thread =>
                  /\ Said(cp.messages, "refunded") + Paid(t, "billing")
                       = Said(old.messages, "refunded") + Paid(t, "billing")'
                  /\ Said(cp.messages, "approved") + Paid(t, "auditor")
                       = Said(old.messages, "approved") + Paid(t, "auditor")'
                  /\ PaidOn(t)' + Owed(cp) <= PaidOn(t) + Owed(old)
                  /\ PaidOn(t)' <= PaidOn(t) + 1
  <2>0. /\ Said(old.messages, "refunded") \in Nat /\ Said(old.messages, "approved") \in Nat
        /\ Paid(t, "billing") \in Nat /\ Paid(t, "auditor") \in Nat
        /\ Owed(old) \in Nat /\ Owed(cp) \in Nat /\ r.thread = request[w].thread
    BY <1>2, <1>3, <1>5
  <2>1. /\ Paid(t, "billing")' = Paid(t, "billing") + Unit(r.thread = t /\ r.by = "billing")
        /\ Paid(t, "auditor")' = Paid(t, "auditor") + Unit(r.thread = t /\ r.by = "auditor")
    BY <1>1, <1>5, PaidAppend
  <2>2. /\ PaidOn(t) = Paid(t, "billing") + Paid(t, "auditor")
        /\ PaidOn(t)' = Paid(t, "billing")' + Paid(t, "auditor")'
    BY DEF PaidOn
  <2>3. t # request[w].thread =>
          /\ Paid(t, "billing")' = Paid(t, "billing")
          /\ Paid(t, "auditor")' = Paid(t, "auditor")
    BY <1>2, <1>5, <2>1 DEF Unit
  <2>4. CASE c = "refunded"
    <3>1. t = r.thread => Paid(t, "billing")' = Paid(t, "billing") + 1
                            /\ Paid(t, "auditor")' = Paid(t, "auditor")
      BY <1>2, <1>5, <2>1, <2>4 DEF By, Unit
    <3>2. /\ Said(cp.messages, "refunded") = Said(old.messages, "refunded") + 1
          /\ Said(cp.messages, "approved") = Said(old.messages, "approved")
          /\ Owed(cp) + 1 <= Owed(old)
      BY <1>2, <1>3, <1>5, <2>4 DEF Unit, Pays
    <3>3. ASSUME t = request[w].thread
          PROVE  PaidOn(t)' = PaidOn(t) + 1 /\ PaidOn(t) \in Nat
      BY <1>2, <1>5, <2>2, <3>1, <3>3
    <3> QED
      BY <2>0, <2>3, <3>1, <3>2, <3>3
  <2>5. CASE c = "approved"
    <3>1. t = r.thread => Paid(t, "auditor")' = Paid(t, "auditor") + 1
                            /\ Paid(t, "billing")' = Paid(t, "billing")
      BY <1>2, <1>5, <2>1, <2>5 DEF By, Unit
    <3>2. /\ Said(cp.messages, "approved") = Said(old.messages, "approved") + 1
          /\ Said(cp.messages, "refunded") = Said(old.messages, "refunded")
          /\ Owed(cp) + 1 <= Owed(old)
      BY <1>2, <1>3, <1>5, <2>5 DEF Unit, Pays
    <3>3. ASSUME t = request[w].thread
          PROVE  PaidOn(t)' = PaidOn(t) + 1 /\ PaidOn(t) \in Nat
      BY <1>2, <1>5, <2>2, <3>1, <3>3
    <3> QED
      BY <2>0, <2>3, <3>1, <3>2, <3>3
  <2> QED
    BY <1>5, <2>4, <2>5 DEF Claims
<1> QED
  BY <1>4, <1>5 DEF NodeStep, old

(* Refunds are never undone.                                                *)
LEMMA PaidGrows ==
  ASSUME IInv, [Next]_vars, NEW t \in Threads, NEW by
  PROVE  Paid(t, by) \in Nat /\ Paid(t, by)' \in Nat /\ Paid(t, by) <= Paid(t, by)'
<1>1. ledger \in Seq(Refunds) /\ Paid(t, by) \in Nat
  BY PaidType DEF IInv, TypeOK
<1>2. CASE ledger' = ledger
  BY <1>1, <1>2, PaidSame
<1>3. ASSUME NEW r \in Refunds, ledger' = Append(ledger, r)
      PROVE  Paid(t, by)' \in Nat /\ Paid(t, by) <= Paid(t, by)'
  BY <1>1, <1>3, PaidAppend DEF Unit
<1> QED
  BY <1>1, <1>2, <1>3, LedgerNext DEF LedgerSteps, PaysFor
(* A request arrives, or is answered: no conversation is in hand.           *)
LEMMA ArriveOnly ==
  ASSUME IInv, NEW w \in Workers, Arrive(w)
  PROVE  \E r : /\ request' = [request EXCEPT ![w] = r]
               /\ r.step \in {"load", "update", "snapshot"}
               /\ UNCHANGED <<checkpoint, ledger, faults>>
               /\ tickets' = IF r.step = "load"
                              THEN [tickets EXCEPT ![r.thread] = @ + 1] ELSE tickets
<1> DEFINE Arrives(r) ==
      /\ request' = [request EXCEPT ![w] = r]
      /\ r.step \in {"load", "update", "snapshot"}
      /\ UNCHANGED <<checkpoint, ledger, faults>>
      /\ tickets' = IF r.step = "load" THEN [tickets EXCEPT ![r.thread] = @ + 1] ELSE tickets
<1>1. ASSUME NEW t \in Threads, NEW text \in Texts, Submit(w, t, text)
      PROVE  \E r : Arrives(r)
  <2>1. Arrives([Idle EXCEPT !.step = "load", !.thread = t, !.text = text])
    BY <1>1 DEF Submit, Idle
  <2> QED
    BY <2>1
<1>2. ASSUME NEW t \in Threads, NEW d \in Verdicts, Review(w, t, d)
      PROVE  \E r : Arrives(r)
  <2>1. Arrives([Idle EXCEPT !.step = "update", !.thread = t, !.decision = d])
    BY <1>2 DEF Review, Idle
  <2> QED
    BY <2>1
<1>3. ASSUME NEW t, NEW todo, UNCHANGED <<checkpoint, histories, faults>>,
             request' = [request EXCEPT ![w] =
               [Idle EXCEPT !.step = "snapshot", !.thread = t, !.todo = todo]]
      PROVE  \E r : Arrives(r)
  <2>1. Arrives([Idle EXCEPT !.step = "snapshot", !.thread = t, !.todo = todo])
    BY <1>3 DEF Idle, histories
  <2> QED
    BY <2>1
<1>4. ASSUME NEW t \in Threads, Get(w, t)
      PROVE  \E r : Arrives(r)
  <2>1. Arrives([Idle EXCEPT !.step = "snapshot", !.thread = t])
    BY <1>4 DEF Get, Idle, histories
  <2> QED
    BY <2>1
<1> QED
  BY <1>1, <1>2, <1>3, <1>4 DEF Arrive, ListDetails

LEMMA AnswerOnly ==
  ASSUME IInv, NEW w \in Workers, Snapshot(w) \/ Mark(w)
  PROVE  \E r : /\ request' = [request EXCEPT ![w] = r]
               /\ r.step \in {"mark", "idle", "snapshot"}
               /\ UNCHANGED <<checkpoint, histories, faults>>
<1> DEFINE q == request[w]
           Answers(r) == /\ request' = [request EXCEPT ![w] = r]
                         /\ r.step \in {"mark", "idle", "snapshot"}
<1>1. UNCHANGED <<checkpoint, histories, faults>>
  BY DEF Snapshot, Mark
<1>2. CASE Snapshot(w)
  <2> DEFINE r == [q EXCEPT !.step = "mark", !.cp = EmptyCheckpoint,
                            !.awaiting = checkpoint[q.thread].next = "auditor"]
  <2>1. request' = [request EXCEPT ![w] = r]
    BY <1>2 DEF Snapshot, IInv, TypeOK
  <2>2. r.step = "mark"
    BY DEF IInv, TypeOK, Requests
  <2> QED
    BY <1>1, <2>1, <2>2
<1>3. CASE request' = [request EXCEPT ![w] = Idle]
  <2>1. Answers(Idle)
    BY <1>3 DEF Idle
  <2> QED
    BY <1>1, <2>1
<1>4. ASSUME NEW u, NEW todo,
             request' = [request EXCEPT ![w] =
               [Idle EXCEPT !.step = "snapshot", !.thread = u, !.todo = todo]]
      PROVE  \E r : Answers(r)
  <2>1. Answers([Idle EXCEPT !.step = "snapshot", !.thread = u, !.todo = todo])
    BY <1>4 DEF Idle
  <2> QED
    BY <2>1
<1> QED
  BY <1>1, <1>2, <1>3, <1>4 DEF Mark
(* The steps of a request between its arrival and its answer that are not a *)
(* node: they load a conversation, or store the one in hand.                *)
Moves(old, new, stored) ==
  /\ new.thread = old.thread /\ new.decision = old.decision
  /\ \/ /\ old.step = "load" /\ new.step = "save"
        /\ new.cp = SubmitInput(stored, old.text)
     \/ /\ old.step = "update" /\ new.step = "put"
        /\ new.cp = UpdateState(stored, old.decision)
     \/ /\ old.step = "resume" /\ new.step \in {"run", "snapshot"}
        /\ new.cp = stored

Stores(old, new) ==
  /\ \/ old.step = "put" /\ new.step = "resume"
     \/ old.step = "save" /\ new.step = "run"
     \/ old.step = "save" /\ new.step = "snapshot" /\ old.cp.next \in {"end", "auditor"}
  /\ new.thread = old.thread /\ new.decision = old.decision /\ new.cp = old.cp

LEMMA ProceedOnly ==
  ASSUME IInv, NEW w \in Workers, Proceed(w), request[w].step # "run"
  PROVE  \E r : /\ request' = [request EXCEPT ![w] = r]
               /\ UNCHANGED <<histories, faults>>
               /\ \/ /\ checkpoint' = checkpoint
                     /\ Moves(request[w], r, checkpoint[request[w].thread])
                  \/ /\ checkpoint' = [checkpoint EXCEPT ![request[w].thread] = request[w].cp]
                     /\ Stores(request[w], r)
                  \/ /\ checkpoint' = checkpoint
                     /\ request[w].step \in {"snapshot", "mark"}
                     /\ r.step \in {"mark", "idle", "snapshot"}
<1> DEFINE q == request[w]
           stored == checkpoint[q.thread]
<1>0. q \in Requests
  BY DEF IInv, TypeOK
<1>1. CASE SubmitLoad(w)
  <2> DEFINE cp == SubmitInput(stored, q.text)
             r == [q EXCEPT !.step = "save", !.cp = cp]
  <2>1. /\ request' = [request EXCEPT ![w] = r] /\ checkpoint' = checkpoint
        /\ UNCHANGED <<histories, faults>>
    BY <1>1 DEF SubmitLoad, IInv, TypeOK
  <2>2. Moves(q, r, stored)
    BY <1>0, <1>1 DEF Moves, SubmitLoad, Requests
  <2> HIDE DEF r
  <2> QED
    BY <2>1, <2>2
<1>2. CASE UpdateRead(w)
  <2> DEFINE cp == UpdateState(stored, q.decision)
             r == [q EXCEPT !.step = "put", !.cp = cp]
  <2>1. /\ request' = [request EXCEPT ![w] = r] /\ checkpoint' = checkpoint
        /\ UNCHANGED <<histories, faults>>
    BY <1>2 DEF UpdateRead, IInv, TypeOK
  <2>2. Moves(q, r, stored)
    BY <1>0, <1>2 DEF Moves, UpdateRead, Requests
  <2> HIDE DEF r
  <2> QED
    BY <2>1, <2>2
<1>3. CASE ResumeLoad(w)
  <2> DEFINE r == [q EXCEPT !.cp = stored,
                            !.step = IF stored.next = "end" THEN "snapshot" ELSE "run"]
  <2>1. /\ request' = [request EXCEPT ![w] = r] /\ checkpoint' = checkpoint
        /\ UNCHANGED <<histories, faults>>
    BY <1>3 DEF ResumeLoad, IInv, TypeOK
  <2>2. Moves(q, r, stored)
    BY <1>0, <1>3 DEF Moves, ResumeLoad, Requests
  <2> HIDE DEF r
  <2> QED
    BY <2>1, <2>2
<1>4. CASE UpdatePut(w)
  <2> DEFINE r == [q EXCEPT !.step = "resume"]
  <2>1. /\ request' = [request EXCEPT ![w] = r]
        /\ checkpoint' = [checkpoint EXCEPT ![q.thread] = q.cp]
        /\ UNCHANGED <<histories, faults>>
    BY <1>4 DEF UpdatePut, IInv, TypeOK
  <2>2. Stores(q, r)
    BY <1>0, <1>4 DEF Stores, UpdatePut, Requests
  <2> HIDE DEF r
  <2> QED
    BY <2>1, <2>2
<1>5. CASE Save(w)
  <2> DEFINE r == [q EXCEPT !.step = IF q.cp.next \in {"end", "auditor"}
                                     THEN "snapshot" ELSE "run"]
  <2>1. /\ request' = [request EXCEPT ![w] = r]
        /\ checkpoint' = [checkpoint EXCEPT ![q.thread] = q.cp]
        /\ UNCHANGED <<histories, faults>>
    BY <1>5 DEF Save, IInv, TypeOK
  <2>2. Stores(q, r)
    BY <1>0, <1>5 DEF Stores, Save, Requests
  <2> HIDE DEF r
  <2> QED
    BY <2>1, <2>2
<1>6. CASE Snapshot(w) \/ Mark(w)
  <2>1. q.step \in {"snapshot", "mark"}
    BY <1>6 DEF Snapshot, Mark
  <2> QED
    BY <1>6, <2>1, AnswerOnly
<1> QED
  BY <1>1, <1>2, <1>3, <1>4, <1>5, <1>6
     DEF Proceed, RunStart, RunSupervisor, RunBillingAsks, RunBillingRefuses,
         RunBillingEscalates, RunBillingRefunds, RunSupport, RunAuditor, Runs

--------------------------------------------------------------------------------
(* Honesty.  A conversation, stored or in hand, claims at most what was     *)
(* paid; whoever overwrites it writes another honest one.                   *)
Honest(cp, billing, auditor) ==
  /\ Said(cp.messages, "refunded") <= billing
  /\ Said(cp.messages, "approved") <= auditor

InHand(r, t) == r.step \in {"put", "run", "save"} /\ r.thread = t

HonestAt(t) ==
  /\ Honest(checkpoint[t], Paid(t, "billing"), Paid(t, "auditor"))
  /\ \A w \in Workers :
       InHand(request[w], t) => Honest(request[w].cp, Paid(t, "billing"), Paid(t, "auditor"))

HonestInv == \A t \in Threads : HonestAt(t)

LEMMA HonestStays ==
  ASSUME IInv, [Next]_vars, NEW t \in Threads, NEW cp \in Checkpoints,
         Honest(cp, Paid(t, "billing"), Paid(t, "auditor"))
  PROVE  Honest(cp, Paid(t, "billing")', Paid(t, "auditor")')
<1>1. /\ Paid(t, "billing") \in Nat /\ Paid(t, "auditor") \in Nat
      /\ Paid(t, "billing")' \in Nat /\ Paid(t, "auditor")' \in Nat
      /\ Paid(t, "billing") <= Paid(t, "billing")'
      /\ Paid(t, "auditor") <= Paid(t, "auditor")'
  BY PaidGrows
<1>2. Said(cp.messages, "refunded") \in Nat /\ Said(cp.messages, "approved") \in Nat
  BY SaidType DEF Checkpoints
<1> QED
  BY <1>1, <1>2 DEF Honest

LEMMA HonestMoves ==
  ASSUME IInv, HonestInv, [Next]_vars, NEW t \in Threads, NEW w \in Workers, NEW r,
         request' = [request EXCEPT ![w] = r],
         \/ checkpoint'[t] = checkpoint[t]
         \/ Honest(checkpoint'[t], Paid(t, "billing")', Paid(t, "auditor")'),
         InHand(r, t) => Honest(r.cp, Paid(t, "billing")', Paid(t, "auditor")')
  PROVE  HonestAt(t)'
<1>1. /\ checkpoint[t] \in Checkpoints
      /\ \A v \in Workers : request[v].cp \in Checkpoints
      /\ \A v \in Workers : request'[v] = IF v = w THEN r ELSE request[v]
  BY DEF IInv, TypeOK, Requests
<1>2. Honest(checkpoint'[t], Paid(t, "billing")', Paid(t, "auditor")')
  BY <1>1, HonestStays DEF HonestInv, HonestAt
<1>3. ASSUME NEW v \in Workers, InHand(request'[v], t)
      PROVE  Honest(request'[v].cp, Paid(t, "billing")', Paid(t, "auditor")')
  <2>1. CASE v = w
    BY <1>1, <1>3, <2>1
  <2>2. CASE v # w
    BY <1>1, <1>3, <2>2, HonestStays DEF HonestInv, HonestAt
  <2> QED
    BY <2>1, <2>2
<1> QED
  BY <1>2, <1>3 DEF HonestAt, InHand

LEMMA HonestProceed ==
  ASSUME IInv, HonestInv, [Next]_vars, NEW w \in Workers, Proceed(w), NEW t \in Threads
  PROVE  HonestAt(t)'
<1> DEFINE q == request[w]
           stored == checkpoint[q.thread]
<1>1. /\ q \in Requests /\ q.cp \in Checkpoints
      /\ q.step # "idle" => q.thread \in Threads /\ stored \in Checkpoints
      /\ InHand(q, t) => Honest(q.cp, Paid(t, "billing"), Paid(t, "auditor"))
      /\ Honest(checkpoint[t], Paid(t, "billing"), Paid(t, "auditor"))
      /\ checkpoint[t] \in Checkpoints
  BY DEF IInv, TypeOK, Requests, HonestInv, HonestAt
<1>2. ASSUME NEW cp \in Checkpoints, Honest(cp, Paid(t, "billing"), Paid(t, "auditor"))
      PROVE  Honest(cp, Paid(t, "billing")', Paid(t, "auditor")')
  BY <1>2, HonestStays
<1>3. ASSUME NEW r, request' = [request EXCEPT ![w] = r], checkpoint' = checkpoint,
             Moves(q, r, stored)
      PROVE  HonestAt(t)'
  <2>1. r.thread = q.thread /\ q.thread \in Threads /\ r.cp.messages = stored.messages
    BY <1>1, <1>3 DEF Moves, SubmitInput, UpdateState, Checkpoints
  <2>2. InHand(r, t) => Honest(r.cp, Paid(t, "billing")', Paid(t, "auditor")')
    BY <1>1, <1>2, <2>1 DEF InHand, Honest
  <2> QED
    BY <1>3, <2>2, HonestMoves
<1>4. ASSUME NEW r, request' = [request EXCEPT ![w] = r], Stores(q, r),
             checkpoint' = [checkpoint EXCEPT ![q.thread] = q.cp]
      PROVE  HonestAt(t)'
  <2>1. /\ t = q.thread => checkpoint'[t] = q.cp
        /\ t # q.thread => checkpoint'[t] = checkpoint[t]
    BY <1>4 DEF IInv, TypeOK
  <2>2. t = q.thread => Honest(q.cp, Paid(t, "billing")', Paid(t, "auditor")')
    BY <1>1, <1>2, <1>4 DEF InHand, Stores
  <2>3. InHand(r, t) => Honest(r.cp, Paid(t, "billing")', Paid(t, "auditor")')
    BY <1>4, <2>2 DEF InHand, Stores
  <2> QED
    BY <1>4, <2>1, <2>2, <2>3, HonestMoves
<1>5. CASE q.step = "run"
  <2>1. PICK cp : NodeStep(w, cp)
    BY <1>5, NodeCounts
  <2> DEFINE r == ToSave(w, cp)
  <2>2. /\ request' = [request EXCEPT ![w] = r] /\ checkpoint' = checkpoint
        /\ r.thread = q.thread /\ r.cp = cp
    BY <1>1, <2>1 DEF NodeStep, Ran, ToSave, IInv, TypeOK, Requests
  <2>3. t = q.thread => Honest(cp, Paid(t, "billing")', Paid(t, "auditor")')
    <3>1. SUFFICES ASSUME t = q.thread
                   PROVE  Honest(cp, Paid(t, "billing")', Paid(t, "auditor")')
      OBVIOUS
    <3>2. Honest(q.cp, Paid(t, "billing"), Paid(t, "auditor"))
      BY <1>1, <1>5, <3>1 DEF InHand
    <3>3. /\ Said(cp.messages, "refunded") + Paid(t, "billing")
               = Said(q.cp.messages, "refunded") + Paid(t, "billing")'
          /\ Said(cp.messages, "approved") + Paid(t, "auditor")
               = Said(q.cp.messages, "approved") + Paid(t, "auditor")'
      BY <2>1, <3>1, NodeTallies
    <3>4. /\ Said(cp.messages, "refunded") \in Nat /\ Said(cp.messages, "approved") \in Nat
          /\ Said(q.cp.messages, "refunded") \in Nat /\ Said(q.cp.messages, "approved") \in Nat
      BY <1>1, <2>1, SaidType DEF NodeStep, Checkpoints
    <3>5. /\ Paid(t, "billing") \in Nat /\ Paid(t, "auditor") \in Nat
          /\ Paid(t, "billing")' \in Nat /\ Paid(t, "auditor")' \in Nat
      BY PaidGrows
    <3> QED
      BY <3>2, <3>3, <3>4, <3>5 DEF Honest
  <2> HIDE DEF r
  <2> QED
    BY <2>2, <2>3, HonestMoves DEF InHand
<1>6. ASSUME NEW r, request' = [request EXCEPT ![w] = r], checkpoint' = checkpoint,
             r.step \in {"mark", "idle", "snapshot"}
      PROVE  HonestAt(t)'
  BY <1>6, HonestMoves DEF InHand
<1> QED
  BY <1>3, <1>4, <1>5, <1>6, ProceedOnly

LEMMA HonestNext == IInv /\ HonestInv /\ [Next]_vars => HonestInv'
<1> SUFFICES ASSUME IInv, HonestInv, [Next]_vars, NEW t \in Threads PROVE HonestAt(t)'
  BY DEF HonestInv
<1>1. CASE \E w \in Workers : Arrive(w)
  <2>1. PICK w \in Workers : Arrive(w)
    BY <1>1
  <2>2. PICK r : /\ request' = [request EXCEPT ![w] = r]
                 /\ r.step \in {"load", "update", "snapshot"}
                 /\ UNCHANGED <<checkpoint, ledger, faults>>
    BY <2>1, ArriveOnly
  <2> QED
    BY <2>2, HonestMoves DEF InHand
<1>2. CASE \E w \in Workers : Proceed(w)
  BY <1>2, HonestProceed
<1>3. CASE FaultStep
  <2>1. checkpoint' = checkpoint /\ ledger' = ledger
        /\ \A w \in Workers : request'[w] \in {request[w], Idle}
    BY <1>3, FaultOnlyIdles DEF histories
  <2>2. /\ Paid(t, "billing")' = Paid(t, "billing") /\ Paid(t, "auditor")' = Paid(t, "auditor")
    BY <2>1, PaidSame
  <2>3. \A w \in Workers : InHand(request'[w], t) => request'[w] = request[w]
    BY <2>1 DEF InHand, Idle
  <2> QED
    BY <2>1, <2>2, <2>3 DEF HonestInv, HonestAt
<1>4. CASE UNCHANGED vars
  <2>1. /\ Paid(t, "billing")' = Paid(t, "billing") /\ Paid(t, "auditor")' = Paid(t, "auditor")
    BY <1>4, PaidSame DEF vars
  <2> QED
    BY <1>4, <2>1 DEF HonestInv, HonestAt, vars
<1> QED
  BY <1>1, <1>2, <1>3, <1>4 DEF Next, FaultStep

LEMMA HonestInvariant == Spec => []HonestInv
<1>1. Init => HonestInv
  <2> SUFFICES ASSUME Init, NEW t \in Threads PROVE HonestAt(t)
    BY DEF HonestInv
  <2>1. checkpoint[t].messages = << >> /\ ledger \in Seq(Refunds)
    BY DEF Init, EmptyCheckpoint
  <2>2. \A reply : RepliesOf(<< >>, reply) = {}
    BY DEF RepliesOf
  <2>3. \A reply : Said(<< >>, reply) = 0
    BY <2>2, FS_EmptySet DEF Said
  <2>4. Paid(t, "billing") \in Nat /\ Paid(t, "auditor") \in Nat
    BY <2>1, PaidType
  <2>5. \A w \in Workers : ~InHand(request[w], t)
    BY DEF Init, Idle, InHand
  <2> QED
    BY <2>1, <2>3, <2>4, <2>5 DEF HonestAt, Honest
<1> QED
  BY <1>1, HonestNext, SpecInvariant, PTL DEF Spec

(* No conversation claims a refund that was not executed (the replies of    *)
(* billing_node and auditor_node), however the runs of a thread interleave, *)
(* overwrite each other's checkpoints and fail.                             *)
THEOREM ConversationsAreHonest == Spec => []RepliesAreHonest
<1>1. HonestInv => RepliesAreHonest
  BY DEF HonestInv, HonestAt, Honest, RepliesAreHonest, Said, Paid
<1> QED
  BY <1>1, HonestInvariant, PTL
--------------------------------------------------------------------------------
(* The tally.  With one run per thread, what was paid on it and what its    *)
(* conversation may still cause come to at most a refund a ticket and one a *)
(* fault; and what was paid is claimed, but for one refund a fault.  While  *)
(* a ticket has not reached the conversation, one less may be caused; while *)
(* a node's result is not stored, the stored conversation is one behind.    *)
Balanced(cp, paid, due, lost) ==
  /\ Routed(cp)
  /\ paid + Owed(cp) <= due
  /\ paid <= Said(cp.messages, "refunded") + Said(cp.messages, "approved") + lost

Behind(r, t) == IF r.step = "save" /\ r.thread = t THEN 1 ELSE 0
Early(r, t)  == IF r.step = "load" /\ r.thread = t THEN 1 ELSE 0

Saving(t)  == IF \E w \in Workers : Behind(request[w], t) = 1 THEN 1 ELSE 0
Loading(t) == IF \E w \in Workers : Early(request[w], t) = 1 THEN 1 ELSE 0

TallyAt(t) ==
  /\ Balanced(checkpoint[t], PaidOn(t),
              tickets[t] + faults + Saving(t) - Loading(t), faults + Saving(t))
  /\ \A w \in Workers :
       InHand(request[w], t) => Balanced(request[w].cp, PaidOn(t), tickets[t] + faults, faults)

TallyInv == \A t \in Threads : TallyAt(t)

(* The thread that w alone runs on is as far behind as w is.                *)
LEMMA OneSaves ==
  ASSUME NEW w \in Workers, NEW t
  PROVE  /\ (\A v \in Workers \ {w} : ~RunsOn(v, t)) =>
              Saving(t) = Behind(request[w], t) /\ Loading(t) = Early(request[w], t)
         /\ (\A v \in Workers \ {w} : ~(InRun(request'[v]) /\ request'[v].thread = t)) =>
              Saving(t)' = Behind(request'[w], t) /\ Loading(t)' = Early(request'[w], t)
BY DEF Saving, Loading, Behind, Early, RunsOn, InRun

LEMMA TallyTypes ==
  ASSUME IInv, NEW t \in Threads
  PROVE  /\ tickets[t] \in Nat /\ faults \in Nat /\ PaidOn(t) \in Nat
         /\ \A cp \in Checkpoints :
              /\ Said(cp.messages, "refunded") \in Nat /\ Said(cp.messages, "approved") \in Nat
              /\ Owed(cp) \in Nat
<1>1. tickets[t] \in Nat /\ faults \in Nat
  BY ServiceAssumption DEF IInv, TypeOK
<1>2. PaidOn(t) \in Nat
  BY PaidType DEF IInv, TypeOK, PaidOn
<1> QED
  BY <1>1, <1>2, SaidType, OwedType DEF Checkpoints

LEMMA TallyMoves ==
  ASSUME IInv, NEW t \in Threads, NEW w \in Workers, NEW r,
         \A v \in Workers \ {w} : ~RunsOn(v, t), request' = [request EXCEPT ![w] = r],
         Balanced(checkpoint'[t], PaidOn(t)',
                  tickets'[t] + faults' + Behind(r, t) - Early(r, t), faults' + Behind(r, t)),
         InHand(r, t) => Balanced(r.cp, PaidOn(t)', tickets'[t] + faults', faults')
  PROVE  TallyAt(t)'
<1>1. request'[w] = r /\ \A v \in Workers \ {w} : request'[v] = request[v]
  BY DEF IInv, TypeOK
<1>2. \A v \in Workers \ {w} : ~(InRun(request'[v]) /\ request'[v].thread = t)
  BY <1>1 DEF RunsOn
<1>3. Saving(t)' = Behind(r, t) /\ Loading(t)' = Early(r, t)
  BY <1>1, <1>2, OneSaves
<1>4. \A v \in Workers : InHand(request'[v], t) => v = w
  BY <1>2 DEF InHand, InRun
<1> QED
  BY <1>1, <1>3, <1>4 DEF TallyAt

(* A step of a worker that does not run on the thread leaves its tally.     *)
LEMMA TallyOfOthers ==
  ASSUME IInv, TallyInv, NEW t \in Threads, NEW w \in Workers, NEW r,
         request' = [request EXCEPT ![w] = r], checkpoint'[t] = checkpoint[t],
         Behind(request[w], t) = 0, Early(request[w], t) = 0,
         Behind(r, t) = 0, Early(r, t) = 0, ~InHand(r, t),
         PaidOn(t)' = PaidOn(t), tickets'[t] = tickets[t], faults' = faults
  PROVE  TallyAt(t)'
<1>1. request'[w] = r /\ \A v \in Workers \ {w} : request'[v] = request[v]
  BY DEF IInv, TypeOK
<1>2. Saving(t)' = Saving(t) /\ Loading(t)' = Loading(t)
  BY <1>1 DEF Saving, Loading
<1>3. \A v \in Workers : InHand(request'[v], t) => v # w
  BY <1>1
<1> QED
  BY <1>1, <1>2, <1>3 DEF TallyInv, TallyAt

LEMMA TallyProceed ==
  ASSUME OneRunPerThread, IInv, TallyInv, NEW w \in Workers, Proceed(w), NEW t \in Threads
  PROVE  TallyAt(t)'
<1> DEFINE q == request[w]
           stored == checkpoint[q.thread]
           due == tickets[t] + faults
           said(cp) == Said(cp.messages, "refunded") + Said(cp.messages, "approved")
<1>1. /\ q \in Requests /\ q.cp \in Checkpoints /\ checkpoint[t] \in Checkpoints
      /\ \A u \in Threads : checkpoint[u] \in Checkpoints
      /\ q.step # "idle" => q.thread \in Threads
      /\ due \in Nat /\ faults \in Nat /\ PaidOn(t) \in Nat
  BY TallyTypes DEF IInv, TypeOK, Requests
<1>2. /\ InHand(q, t) => Balanced(q.cp, PaidOn(t), due, faults)
      /\ RunsOn(w, t) =>
           /\ \A v \in Workers \ {w} : ~RunsOn(v, t)
           /\ Balanced(checkpoint[t], PaidOn(t), due + Behind(q, t) - Early(q, t),
                       faults + Behind(q, t))
  BY OneSaves DEF TallyInv, TallyAt, OneRunPerThread
<1>a. q.step \in {"load", "save", "update", "put", "resume", "run"} /\ t = q.thread =>
        RunsOn(w, t)
  BY DEF RunsOn, InRun
<1>3. ASSUME NEW r, request' = [request EXCEPT ![w] = r], UNCHANGED <<histories, faults>>,
             checkpoint' = checkpoint, Moves(q, r, stored)
      PROVE  TallyAt(t)'
  <2>1. /\ PaidOn(t)' = PaidOn(t) /\ tickets'[t] = tickets[t] /\ faults' = faults
        /\ r.thread = q.thread /\ checkpoint'[t] = checkpoint[t]
    BY <1>3, PaidSame DEF PaidOn, histories, Moves
  <2>2. CASE t # q.thread
    BY <1>3, <2>1, <2>2, TallyOfOthers DEF Behind, Early, InHand
  <2>a. t = q.thread => RunsOn(w, t)
    BY <1>3, <1>a DEF Moves
  <2>3. CASE t = q.thread /\ q.step = "load"
    <3>1. /\ Behind(q, t) = 0 /\ Early(q, t) = 1 /\ Behind(r, t) = 1 /\ Early(r, t) = 0
          /\ r.cp = SubmitInput(checkpoint[t], q.text) /\ q.text \in Texts
      BY <1>3, <2>1, <2>3 DEF Moves, Behind, Early, IInv, RequestGoverned
    <3>2. /\ Routed(r.cp) /\ Owed(r.cp) <= Owed(checkpoint[t]) + 1
          /\ r.cp.messages = checkpoint[t].messages /\ Owed(r.cp) \in Nat
      BY <1>1, <1>2, <2>a, <2>3, <3>1, SubmitInputCounts, OwedType DEF Balanced
    <3>3. Balanced(r.cp, PaidOn(t), due, faults)
      BY <1>1, <1>2, <2>a, <2>3, <3>1, <3>2, TallyTypes DEF Balanced
    <3>4. Balanced(checkpoint[t], PaidOn(t), due + 1 - 0, faults + 1)
      BY <1>1, <1>2, <2>a, <2>3, <3>1, TallyTypes DEF Balanced
    <3> QED
      BY <1>2, <1>3, <2>1, <2>a, <2>3, <3>1, <3>3, <3>4, TallyMoves
  <2>4. CASE t = q.thread /\ q.step # "load"
    <3>1. /\ Behind(q, t) = 0 /\ Early(q, t) = 0 /\ Behind(r, t) = 0 /\ Early(r, t) = 0
      BY <1>3, <2>1, <2>4 DEF Moves, Behind, Early
    <3>2. /\ Routed(r.cp) /\ Owed(r.cp) <= Owed(checkpoint[t]) /\ Owed(r.cp) \in Nat
          /\ r.cp.messages = checkpoint[t].messages
      <4>1. CASE q.step = "update"
        <5>1. q.decision \in Verdicts /\ r.cp = UpdateState(checkpoint[t], q.decision)
          BY <1>3, <2>4, <4>1 DEF Moves, IInv, RequestGoverned
        <5> QED
          BY <1>1, <1>2, <2>a, <2>4, <5>1, UpdateStateCounts, OwedType DEF Balanced
      <4>2. CASE q.step = "resume"
        BY <1>1, <1>2, <1>3, <2>a, <2>4, <4>2, OwedType DEF Moves, Balanced
      <4> QED
        BY <1>3, <2>4, <4>1, <4>2 DEF Moves
    <3>3. Balanced(checkpoint[t], PaidOn(t), due + 0 - 0, faults + 0)
      BY <1>2, <2>a, <2>4, <3>1
    <3>4. Balanced(r.cp, PaidOn(t), due, faults)
      BY <1>1, <3>2, <3>3, TallyTypes DEF Balanced
    <3> QED
      BY <1>2, <1>3, <2>1, <2>a, <2>4, <3>1, <3>3, <3>4, TallyMoves
  <2> QED
    BY <2>2, <2>3, <2>4
<1>4. ASSUME NEW r, request' = [request EXCEPT ![w] = r], UNCHANGED <<histories, faults>>,
             checkpoint' = [checkpoint EXCEPT ![q.thread] = q.cp], Stores(q, r)
      PROVE  TallyAt(t)'
  <2>1. /\ PaidOn(t)' = PaidOn(t) /\ tickets'[t] = tickets[t] /\ faults' = faults
        /\ r.thread = q.thread /\ r.cp = q.cp /\ Behind(r, t) = 0 /\ Early(r, t) = 0
    BY <1>4, PaidSame DEF PaidOn, histories, Stores, Behind, Early
  <2>2. CASE t # q.thread
    <3>1. checkpoint'[t] = checkpoint[t]
      BY <1>4, <2>2 DEF IInv, TypeOK
    <3> QED
      BY <1>4, <2>1, <2>2, <3>1, TallyOfOthers DEF Behind, Early, InHand
  <2>3. CASE t = q.thread
    <3>1. checkpoint'[t] = q.cp
      BY <1>4, <2>3 DEF IInv, TypeOK
    <3>2. Balanced(q.cp, PaidOn(t), due, faults)
      BY <1>2, <1>4, <2>3 DEF Stores, InHand
    <3>3. Balanced(q.cp, PaidOn(t), due + 0 - 0, faults + 0)
      BY <1>1, <3>2 DEF Balanced
    <3>4. \A v \in Workers \ {w} : ~RunsOn(v, t)
      BY <1>2, <1>4, <1>a, <2>3 DEF Stores
    <3> QED
      BY <1>4, <2>1, <3>1, <3>2, <3>3, <3>4, TallyMoves
  <2> QED
    BY <2>2, <2>3
<1>5. CASE q.step = "run"
  <2>1. PICK cp : NodeStep(w, cp)
    BY <1>5, NodeCounts
  <2> DEFINE r == ToSave(w, cp)
  <2>2. /\ request' = [request EXCEPT ![w] = r] /\ checkpoint' = checkpoint
        /\ tickets'[t] = tickets[t] /\ faults' = faults
        /\ r.thread = q.thread /\ r.cp = cp /\ r.step = "save"
    BY <1>1, <2>1 DEF NodeStep, Ran, ToSave, IInv, TypeOK, Requests
  <2> HIDE DEF r
  <2>3. CASE t # q.thread
    <3>1. PaidOn(t)' = PaidOn(t)
      BY <2>1, <2>3, NodeTallies DEF PaidOn
    <3> QED
      BY <2>2, <2>3, <3>1, TallyOfOthers DEF Behind, Early, InHand
  <2>4. CASE t = q.thread
    <3>a. RunsOn(w, t)
      BY <1>5, <1>a, <2>4
    <3>1. /\ Behind(q, t) = 0 /\ Early(q, t) = 0 /\ Behind(r, t) = 1 /\ Early(r, t) = 0
          /\ Balanced(q.cp, PaidOn(t), due, faults)
      BY <1>2, <1>5, <2>2, <2>4 DEF Behind, Early, InHand
    <3>2. /\ Said(cp.messages, "refunded") + Paid(t, "billing")
               = Said(q.cp.messages, "refunded") + Paid(t, "billing")'
          /\ Said(cp.messages, "approved") + Paid(t, "auditor")
               = Said(q.cp.messages, "approved") + Paid(t, "auditor")'
          /\ PaidOn(t)' + Owed(cp) <= PaidOn(t) + Owed(q.cp)
          /\ PaidOn(t)' <= PaidOn(t) + 1
      BY <2>1, <2>4, NodeTallies
    <3>3. /\ Routed(cp) /\ cp \in Checkpoints
          /\ Paid(t, "billing") \in Nat /\ Paid(t, "auditor") \in Nat
          /\ Paid(t, "billing")' \in Nat /\ Paid(t, "auditor")' \in Nat
          /\ PaidOn(t) = Paid(t, "billing") + Paid(t, "auditor")
          /\ PaidOn(t)' = Paid(t, "billing")' + Paid(t, "auditor")'
      <4>1. [Next]_vars
        BY DEF Next
      <4> QED
        BY <2>1, <4>1, PaidGrows DEF NodeStep, PaidOn
    <3>4. /\ Said(cp.messages, "refunded") \in Nat /\ Said(cp.messages, "approved") \in Nat
          /\ Said(q.cp.messages, "refunded") \in Nat /\ Said(q.cp.messages, "approved") \in Nat
          /\ Owed(cp) \in Nat /\ Owed(q.cp) \in Nat /\ Owed(checkpoint[t]) \in Nat
          /\ Said(checkpoint[t].messages, "refunded") \in Nat
          /\ Said(checkpoint[t].messages, "approved") \in Nat
      BY <1>1, <3>3, TallyTypes
    <3>5. Balanced(cp, PaidOn(t)', due, faults)
      BY <1>1, <3>1, <3>2, <3>3, <3>4 DEF Balanced
    <3>6. Balanced(checkpoint[t], PaidOn(t)', due + 1 - 0, faults + 1)
      BY <1>1, <1>2, <3>a, <3>1, <3>2, <3>3, <3>4 DEF Balanced
    <3> QED
      BY <1>2, <2>2, <3>a, <3>1, <3>5, <3>6, TallyMoves
  <2> QED
    BY <2>3, <2>4
<1>6. ASSUME NEW r, request' = [request EXCEPT ![w] = r], UNCHANGED <<histories, faults>>,
             checkpoint' = checkpoint, q.step \in {"snapshot", "mark"},
             r.step \in {"mark", "idle", "snapshot"}
      PROVE  TallyAt(t)'
  <2>1. PaidOn(t)' = PaidOn(t) /\ tickets'[t] = tickets[t] /\ faults' = faults
    BY <1>6, PaidSame DEF PaidOn, histories
  <2> QED
    BY <1>6, <2>1, TallyOfOthers DEF Behind, Early, InHand
<1> QED
  BY <1>3, <1>4, <1>5, <1>6, ProceedOnly
LEMMA TallyArrive ==
  ASSUME OneRunPerThread', IInv, TallyInv, NEW w \in Workers, Arrive(w), NEW t \in Threads
  PROVE  TallyAt(t)'
<1>1. request[w].step = "idle"
  BY DEF Arrive, Submit, Review, Get, ListDetails
<1>2. PICK r : /\ request' = [request EXCEPT ![w] = r]
               /\ r.step \in {"load", "update", "snapshot"}
               /\ UNCHANGED <<checkpoint, ledger, faults>>
               /\ tickets' = IF r.step = "load"
                              THEN [tickets EXCEPT ![r.thread] = @ + 1] ELSE tickets
  BY ArriveOnly
<1>3. /\ Behind(request[w], t) = 0 /\ Early(request[w], t) = 0
      /\ Behind(r, t) = 0 /\ ~InHand(r, t) /\ PaidOn(t)' = PaidOn(t)
  BY <1>1, <1>2, PaidSame DEF Behind, Early, InHand, PaidOn
<1>4. CASE r.step = "load" /\ r.thread = t
  <2>1. Early(r, t) = 1 /\ tickets'[t] = tickets[t] + 1
    BY <1>2, <1>4 DEF Early, IInv, TypeOK
  <2>a. \A v \in Workers \ {w} : ~RunsOn(v, t)
    <3>1. request'[w] = r /\ \A v \in Workers \ {w} : request'[v] = request[v]
      BY <1>2 DEF IInv, TypeOK
    <3> QED
      BY <1>4, <3>1 DEF OneRunPerThread, RunsOn, InRun
  <2>2. Balanced(checkpoint[t], PaidOn(t), tickets[t] + faults + 0 - 0, faults + 0)
    BY <1>3, <2>a, OneSaves DEF TallyInv, TallyAt
  <2>3. tickets[t] + faults + 0 - 0 = tickets'[t] + faults' + 0 - 1
    BY <1>2, <2>1, TallyTypes
  <2> QED
    BY <1>2, <1>3, <2>1, <2>a, <2>2, <2>3, TallyMoves
<1>5. CASE ~(r.step = "load" /\ r.thread = t)
  <2>1. Early(r, t) = 0 /\ tickets'[t] = tickets[t]
    BY <1>2, <1>5 DEF Early, IInv, TypeOK
  <2> QED
    BY <1>2, <1>3, <2>1, TallyOfOthers
<1> QED
  BY <1>4, <1>5

(* A fault drops what is in hand: the refund it made is the one forgiven,   *)
(* and the ticket it made it for may be served again.                       *)
LEMMA TallyFault ==
  ASSUME IInv, TallyInv, FaultStep, NEW t \in Threads
  PROVE  TallyAt(t)'
<1>1. /\ checkpoint' = checkpoint /\ tickets' = tickets /\ PaidOn(t)' = PaidOn(t)
      /\ \A w \in Workers : request'[w] \in {request[w], Idle}
  BY FaultOnlyIdles, PaidSame DEF histories, PaidOn
<1>2. CASE Restart
  <2>1. request' = request /\ faults' = faults
    BY <1>2 DEF Restart
  <2> QED
    BY <1>1, <2>1 DEF TallyInv, TallyAt, Saving, Loading
<1>3. CASE ~Restart
  <2>1. faults' = faults + 1
    BY <1>3 DEF FaultStep, Crash, Fail,
         RouterFails, AnswererFails, DatabaseFails, Aborts, Fault
  <2>2. ~InHand(Idle, t) /\ Behind(Idle, t) = 0 /\ Early(Idle, t) = 0
    BY DEF InHand, Behind, Early, Idle
  <2>3. Saving(t)' \in {0, 1} /\ Loading(t)' \in {0, 1} /\ Loading(t)' <= Loading(t)
        /\ Saving(t) \in {0, 1} /\ Loading(t) \in {0, 1}
    BY <1>1, <2>2 DEF Saving, Loading
  <2>4. checkpoint[t] \in Checkpoints /\ \A w \in Workers : request[w].cp \in Checkpoints
    BY DEF IInv, TypeOK, Requests
  <2>5. Balanced(checkpoint[t], PaidOn(t),
                 tickets[t] + (faults + 1) + Saving(t)' - Loading(t)',
                 (faults + 1) + Saving(t)')
    BY <2>3, <2>4, TallyTypes DEF TallyInv, TallyAt, Balanced
  <2>6. ASSUME NEW w \in Workers, InHand(request'[w], t)
        PROVE  Balanced(request'[w].cp, PaidOn(t), tickets[t] + (faults + 1), faults + 1)
    <3>1. request'[w] = request[w]
      BY <1>1, <2>2, <2>6
    <3>2. Balanced(request[w].cp, PaidOn(t), tickets[t] + faults, faults)
      BY <2>6, <3>1 DEF TallyInv, TallyAt
    <3> QED
      BY <2>4, <3>1, <3>2, TallyTypes DEF Balanced
  <2> QED
    BY <1>1, <2>1, <2>5, <2>6 DEF TallyAt
<1> QED
  BY <1>2, <1>3

LEMMA TallyNext ==
  OneRunPerThread /\ OneRunPerThread' /\ IInv /\ TallyInv /\ [Next]_vars => TallyInv'
<1> SUFFICES ASSUME OneRunPerThread, OneRunPerThread', IInv, TallyInv, [Next]_vars, NEW t \in Threads
             PROVE  TallyAt(t)'
  BY DEF TallyInv
<1>1. CASE UNCHANGED vars
  <2>1. PaidOn(t)' = PaidOn(t)
    BY <1>1, PaidSame DEF vars, PaidOn
  <2> QED
    BY <1>1, <2>1 DEF TallyInv, TallyAt, Saving, Loading, vars
<1> QED
  BY <1>1, TallyArrive, TallyProceed, TallyFault DEF Next, FaultStep

LEMMA TallyInvariant == PerThreadSpec => [](IInv /\ TallyInv)
<1>1. Init => TallyInv
  <2> SUFFICES ASSUME Init, NEW t \in Threads PROVE TallyAt(t)
    BY DEF TallyInv
  <2>1. /\ checkpoint[t] = EmptyCheckpoint /\ ledger = << >> /\ tickets[t] = 0 /\ faults = 0
        /\ \A w \in Workers : request[w] = Idle
    BY DEF Init
  <2>2. /\ EmptyCheckpoint.messages = << >> /\ EmptyCheckpoint.next = "end"
        /\ EmptyCheckpoint.last = None /\ EmptyCheckpoint.requiresApproval = FALSE
    BY DEF EmptyCheckpoint
  <2>3. /\ RepliesOf(<< >>, "refunded") = {} /\ RepliesOf(<< >>, "approved") = {}
        /\ RefundsBy(t, "billing") = {} /\ RefundsBy(t, "auditor") = {}
    BY <2>1 DEF RepliesOf, RefundsBy
  <2>4. /\ Said(<< >>, "refunded") = 0 /\ Said(<< >>, "approved") = 0 /\ PaidOn(t) = 0
    <3>1. Cardinality({}) = 0
      BY FS_EmptySet
    <3>2. Paid(t, "billing") = 0 /\ Paid(t, "auditor") = 0
      BY <2>3, <3>1 DEF Paid
    <3>3. Said(<< >>, "refunded") = 0 /\ Said(<< >>, "approved") = 0
      BY <2>3, <3>1, Zenon DEF Said
    <3> QED
      BY <3>2, <3>3 DEF PaidOn
  <2>5. Owed(EmptyCheckpoint) = 0 /\ Routed(EmptyCheckpoint)
    BY <2>2 DEF Owed, MayRefund, Unit, Routed
  <2>6. Saving(t) = 0 /\ Loading(t) = 0 /\ \A w \in Workers : ~InHand(request[w], t)
    <3>1. Behind(Idle, t) = 0 /\ Early(Idle, t) = 0 /\ ~InHand(Idle, t)
      BY DEF Behind, Early, InHand, Idle
    <3> QED
      BY <2>1, <3>1 DEF Saving, Loading
  <2>7. Balanced(EmptyCheckpoint, 0, 0 + 0 + 0 - 0, 0 + 0)
    BY <2>2, <2>4, <2>5 DEF Balanced
  <2> QED
    BY <2>1, <2>4, <2>6, <2>7 DEF TallyAt
<1> QED
  BY <1>1, TallyNext, SpecInvariant, PerThreadIsSpec, PTL DEF Spec

LEMMA PaidIsUnion ==
  ASSUME IInv, NEW t \in Threads
  PROVE  Cardinality(RefundsBy(t, "billing") \cup RefundsBy(t, "auditor")) = PaidOn(t)
<1>1. IsFiniteSet(RefundsBy(t, "billing")) /\ IsFiniteSet(RefundsBy(t, "auditor"))
  BY PaidType DEF IInv, TypeOK
<1>2. RefundsBy(t, "billing") \cap RefundsBy(t, "auditor") = {}
  BY DEF RefundsBy
<1>3. Paid(t, "billing") \in Nat /\ Paid(t, "auditor") \in Nat
  BY PaidType DEF IInv, TypeOK
<1> QED
  BY <1>1, <1>2, <1>3, FS_Union, FS_EmptySet DEF PaidOn, Paid

LEMMA PaidWithinDue ==
  ASSUME IInv, TallyInv, NEW t \in Threads
  PROVE  PaidOn(t) <= tickets[t] + faults
<1>1. checkpoint[t] \in Checkpoints /\ \A w \in Workers : request[w].cp \in Checkpoints
  BY DEF IInv, TypeOK, Requests
<1>2. CASE Saving(t) = 1
  <2>1. PICK w \in Workers : InHand(request[w], t)
    BY <1>2 DEF Saving, Behind, InHand
  <2> QED
    BY <1>1, <2>1, TallyTypes DEF TallyInv, TallyAt, Balanced
<1>3. CASE Saving(t) = 0
  <2>1. Loading(t) \in {0, 1}
    BY DEF Loading
  <2> QED
    BY <1>1, <1>3, <2>1, TallyTypes DEF TallyInv, TallyAt, Balanced
<1> QED
  BY <1>2, <1>3 DEF Saving

(* With one run per thread it is refunded at most once a ticket, by billing *)
(* or after an approval (billing_node, auditor_node), and once more a fault *)
(* at most: update_state never brings a served ticket back.                 *)
THEOREM RefundsAreDue == PerThreadSpec => []RefundsPerTicket
<1>1. IInv /\ TallyInv => RefundsPerTicket
  BY PaidIsUnion, PaidWithinDue DEF RefundsPerTicket
<1> QED
  BY <1>1, TallyInvariant, PTL

(* With one run per thread, once a thread's run is over every refund has    *)
(* its reply in the stored conversation and every reply its refund, but for *)
(* one refund a fault, which the node paid and the failed run never saved.  *)
THEOREM RefundsAreTold == PerThreadSpec => []ConversationAccounts
<1>1. IInv /\ TallyInv /\ HonestInv => ConversationAccounts
  <2> SUFFICES ASSUME IInv, TallyInv, HonestInv, NEW t \in Threads,
                      \A w \in Workers : ~RunsOn(w, t)
               PROVE  /\ Said(checkpoint[t].messages, "refunded") <= Paid(t, "billing")
                      /\ Said(checkpoint[t].messages, "approved") <= Paid(t, "auditor")
                      /\ Paid(t, "billing") + Paid(t, "auditor")
                           <= Said(checkpoint[t].messages, "refunded")
                                + Said(checkpoint[t].messages, "approved") + faults
    BY DEF ConversationAccounts, Said, Paid
  <2>1. Saving(t) = 0
    BY DEF RunsOn, InRun, Saving, Behind
  <2>2. PaidOn(t) <= Said(checkpoint[t].messages, "refunded")
                       + Said(checkpoint[t].messages, "approved") + (faults + 0)
    BY <2>1 DEF TallyInv, TallyAt, Balanced
  <2>3. faults + 0 = faults
    BY TallyTypes
  <2> QED
    BY <2>2, <2>3 DEF HonestInv, HonestAt, Honest, PaidOn
<1> QED
  BY <1>1, TallyInvariant, HonestInvariant, PerThreadIsSpec, PTL

(* Where nothing fails no ticket is refunded twice: the second refund that  *)
(* a crash between a payment and its checkpoint allows needs the crash.     *)
THEOREM NoFaultNoSecondRefund ==
  ASSUME MaxFaults = 0
  PROVE  PerThreadSpec => []OneRefundPerTicket
<1>1. IInv /\ TallyInv => OneRefundPerTicket
  <2> SUFFICES ASSUME IInv, TallyInv, NEW t \in Threads
               PROVE  PaidOn(t) <= tickets[t]
    BY PaidIsUnion DEF OneRefundPerTicket
  <2>1. faults = 0
    BY DEF IInv, TypeOK
  <2> QED
    BY <2>1, PaidWithinDue, TallyTypes
<1> QED
  BY <1>1, TallyInvariant, PTL
================================================================================
