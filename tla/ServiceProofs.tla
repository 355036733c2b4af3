----------------------------- MODULE ServiceProofs -----------------------------
(***************************************************************************)
(* Type correctness and the governance invariants of the workflow service, *)
(* for every value of the constants, every interleaving and every fault.   *)
(*                                                                         *)
(* The invariants of ServiceProperties speak of the stored checkpoints and *)
(* the ledger only.  They are not inductive: runs work on copies of a      *)
(* checkpoint that may be older than the stored one, so what is true of    *)
(* every stored checkpoint must also be true of every copy in flight.      *)
(***************************************************************************)
EXTENDS ServiceProperties, TLAPS

(* What holds of a checkpoint of thread t wherever it is kept, given the    *)
(* escalations and the decisions so far.  Every part stays true when those  *)
(* grow, so an old copy keeps satisfying it.                                *)
Governed(t, cp, esc, rev) ==
  /\ cp.next = "start" => cp.input # None
  /\ cp.next = "auditor" => cp.requiresApproval
  /\ cp.requiresApproval => cp.proposed # None
  /\ cp.proposed # None => [thread |-> t, action |-> cp.proposed] \in esc
  /\ cp.decision = "approved" => rev[t]["approved"] > 0

(* A request holds the input its next steps need, its copy is governed, and *)
(* the approval it carries has been counted.                                *)
RequestGoverned(r, esc, rev) ==
  r.step # "idle" =>
    /\ r.thread \in Threads
    /\ Governed(r.thread, r.cp, esc, rev)
    /\ r.step = "load" => r.text \in Texts
    /\ r.step = "update" =>
         /\ r.decision \in Verdicts
         /\ r.decision = "approved" => rev[r.thread]["approved"] > 0

EscalationsAreOverLimit(esc) ==
  \A e \in esc : ExecuteRefund(e.action.user, e.action.amount) = "requires_human_auditor"

LedgerGoverned == OverLimitIsGoverned /\ RefundsAreValid

IInv ==
  /\ TypeOK
  /\ \A t \in Threads : Governed(t, checkpoint[t], escalated, reviews)
  /\ \A w \in Workers : RequestGoverned(request[w], escalated, reviews)
  /\ EscalationsAreOverLimit(escalated)
  /\ LedgerGoverned

--------------------------------------------------------------------------------
(* The constants.                                                           *)

LEMMA NoneIsNothing ==
  /\ None \notin Ids /\ None \notin Nat /\ None \notin Texts
  /\ None \notin Actions /\ None \notin Verdicts /\ None \notin Nodes
BY GraphAssumption

(* The text nodes work on, and what the extractors read in it.              *)
LEMMA LatestTextType ==
  ASSUME NEW messages \in Seq(Entries)
  PROVE  LatestText(messages) \in Texts \cup {NoText}
<1> DEFINE latest == {i \in HumanPositions(messages) :
                        \A j \in HumanPositions(messages) : j <= i}
<1>1. ASSUME NEW i \in latest
      PROVE  messages[i].text \in Texts
  <2>1. i \in DOMAIN messages /\ messages[i].role = "human"
    BY DEF HumanPositions
  <2>2. messages[i] \in Entries
    BY <2>1
  <2> QED
    BY <2>1, <2>2 DEF Entries
<1>2. CASE latest = {}
  BY <1>2 DEF LatestText
<1>3. CASE latest # {}
  <2>1. (CHOOSE i \in latest : TRUE) \in latest
    BY <1>3
  <2> HIDE DEF latest
  <2>2. messages[CHOOSE i \in latest : TRUE].text \in Texts
    BY <2>1, <1>1
  <2>3. LatestText(messages) = messages[CHOOSE i \in latest : TRUE].text
    BY <1>3 DEF LatestText, latest
  <2> QED
    BY <2>2, <2>3
<1> QED
  BY <1>2, <1>3

LEMMA ExtractedType ==
  ASSUME NEW cp \in Checkpoints
  PROVE  /\ BillingAmount(cp) \in Amounts
         /\ \A id \in UserIds : ClassifiedUser(cp, id) \in UserIds
<1>1. cp.messages \in Seq(Entries)
  BY DEF Checkpoints
<1>2. LatestText(cp.messages) \in Texts \cup {NoText}
  BY <1>1, LatestTextType
<1> QED
  BY <1>2, GraphAssumption DEF BillingAmount, ClassifiedUser
--------------------------------------------------------------------------------
(* Each graph operator maps checkpoints to checkpoints.                     *)

LEMMA EmptyType == EmptyCheckpoint \in Checkpoints
BY DEF EmptyCheckpoint, Checkpoints, Assignees, Intents, UserIds

LEMMA RouteType ==
  ASSUME NEW cp \in Checkpoints, NEW node \in Nodes
  PROVE  Route(node, cp) \in Nodes \cup {"end"}
BY DEF Route, RouteFromSupervisor, RouteFromBilling, Nodes, Checkpoints, Intents

LEMMA AdvanceType ==
  ASSUME NEW cp \in Checkpoints, NEW node \in Nodes
  PROVE  Advance(node, cp) \in Checkpoints
<1>1. Route(node, cp) \in Nodes \cup {"end"}
  BY RouteType
<1> QED
  BY <1>1 DEF Advance, Checkpoints

LEMMA ReplyType ==
  ASSUME NEW cp \in Checkpoints, NEW reply \in Replies
  PROVE  Reply(cp, reply) \in Seq(Entries)
<1>1. AI(reply) \in Entries
  BY DEF AI, Entries
<1>2. cp.messages \in Seq(Entries)
  BY DEF Checkpoints
<1> QED
  BY <1>1, <1>2 DEF Reply

LEMMA SubmitInputType ==
  ASSUME NEW cp \in Checkpoints, NEW text \in Texts
  PROVE  SubmitInput(cp, text) \in Checkpoints
BY DEF SubmitInput, Checkpoints, Nodes

LEMMA StartType ==
  ASSUME NEW cp \in Checkpoints, cp.input # None
  PROVE  Start(cp) \in Checkpoints
<1> DEFINE moved == [cp EXCEPT !.messages = Append(cp.messages, Human(cp.input)),
                               !.input = None]
<1>1. Human(cp.input) \in Entries
  BY DEF Human, Entries, Checkpoints
<1>2. cp.messages \in Seq(Entries)
  BY DEF Checkpoints
<1>3. Append(cp.messages, Human(cp.input)) \in Seq(Entries)
  BY <1>1, <1>2
<1>4. moved \in Checkpoints
  BY <1>3 DEF Checkpoints
<1> QED
  BY <1>4, AdvanceType DEF Start, Nodes

LEMMA SupervisorType ==
  ASSUME NEW cp \in Checkpoints, NEW intent \in Intents, NEW id \in UserIds
  PROVE  Supervisor(cp, intent, id) \in Checkpoints
<1> DEFINE routed == [cp EXCEPT !.intent = intent, !.user = ClassifiedUser(cp, id),
                       !.assignee = IF intent = "unknown" THEN "supervisor" ELSE intent]
<1>1. ClassifiedUser(cp, id) \in UserIds
  BY ExtractedType
<1>2. routed \in Checkpoints
  BY <1>1 DEF Checkpoints, Intents, Assignees
<1> QED
  BY <1>2, AdvanceType DEF Supervisor, Nodes

LEMMA BillingRepliesType ==
  ASSUME NEW cp \in Checkpoints, NEW reply \in Replies
  PROVE  BillingReplies(cp, reply) \in Checkpoints
<1> DEFINE replied == [cp EXCEPT !.messages = Reply(cp, reply), !.assignee = "billing"]
<1>1. replied \in Checkpoints
  BY ReplyType DEF Checkpoints, Assignees
<1> QED
  BY <1>1, AdvanceType DEF BillingReplies, Nodes

(* Billing acts on an action: both the account and the amount are there.    *)
LEMMA BillingActionType ==
  ASSUME NEW cp \in Checkpoints, ~BillingIncomplete(cp)
  PROVE  [user |-> cp.user, amount |-> BillingAmount(cp)] \in Actions
BY ExtractedType DEF BillingIncomplete, Amounts, Actions, Checkpoints, UserIds

LEMMA BillingEscalatesType ==
  ASSUME NEW cp \in Checkpoints, ~BillingIncomplete(cp)
  PROVE  BillingEscalates(cp) \in Checkpoints
<1> DEFINE action == [user |-> cp.user, amount |-> BillingAmount(cp)]
           written == [cp EXCEPT !.messages = Reply(cp, "escalated"), !.assignee = "auditor",
                                 !.proposed = action, !.requiresApproval = TRUE]
<1>1. action \in Actions
  BY BillingActionType
<1>2. Reply(cp, "escalated") \in Seq(Entries)
  BY ReplyType DEF Replies
<1> HIDE DEF action
<1>3. written \in Checkpoints
  BY <1>1, <1>2 DEF Checkpoints, Assignees
<1> QED
  BY <1>3, AdvanceType DEF BillingEscalates, Nodes, action

LEMMA SupportType ==
  ASSUME NEW cp \in Checkpoints
  PROVE  Support(cp) \in Checkpoints
<1> DEFINE answered == [cp EXCEPT !.messages = Reply(cp, "answered"), !.assignee = "support"]
<1>1. answered \in Checkpoints
  BY ReplyType DEF Checkpoints, Assignees, Replies
<1> QED
  BY <1>1, AdvanceType DEF Support, Nodes

LEMMA AuditorType ==
  ASSUME NEW cp \in Checkpoints
  PROVE  Auditor(cp) \in Checkpoints
<1> DEFINE closed(reply) == [cp EXCEPT !.messages = Reply(cp, reply),
                                       !.assignee = "auditor", !.requiresApproval = FALSE]
           untouched == [cp EXCEPT !.assignee = "auditor"]
<1>1. closed("approved") \in Checkpoints /\ closed("declined") \in Checkpoints
  BY ReplyType DEF Checkpoints, Assignees, Replies
<1>2. untouched \in Checkpoints
  BY DEF Checkpoints, Assignees
<1> QED
  BY <1>1, <1>2, AdvanceType DEF Auditor, Nodes

LEMMA UpdateStateType ==
  ASSUME NEW cp \in Checkpoints, NEW decision \in Verdicts
  PROVE  UpdateState(cp, decision) \in Checkpoints
<1> DEFINE written == [cp EXCEPT !.decision = decision, !.input = None]
           node == IF cp.last = None THEN "start" ELSE cp.last
<1>1. written \in Checkpoints
  BY DEF Checkpoints
<1>2. node \in Nodes
  BY DEF Checkpoints, Nodes
<1>3. Route(node, written) \in Nodes \cup {"end"}
  BY <1>1, <1>2, RouteType
<1> QED
  BY <1>1, <1>3 DEF UpdateState, Checkpoints

--------------------------------------------------------------------------------
(* Each graph operator keeps a checkpoint governed.  Only billing reaches   *)
(* the auditor, only an escalation writes the proposed action, and only     *)
(* update_state writes a decision.                                          *)

LEMMA RouteGoverned ==
  ASSUME NEW cp \in Checkpoints, NEW node \in Nodes
  PROVE  /\ Route(node, cp) # "start"
         /\ Route(node, cp) = "auditor" => cp.requiresApproval
BY DEF Route, RouteFromSupervisor, RouteFromBilling, Nodes, Checkpoints, Intents

LEMMA AdvanceGoverned ==
  ASSUME NEW cp \in Checkpoints, NEW node \in Nodes, NEW t, NEW esc, NEW rev,
         cp.requiresApproval => cp.proposed # None,
         cp.proposed # None => [thread |-> t, action |-> cp.proposed] \in esc,
         cp.decision = "approved" => rev[t]["approved"] > 0
  PROVE  Governed(t, Advance(node, cp), esc, rev)
BY RouteGoverned DEF Advance, Governed, Checkpoints

LEMMA SubmitInputGoverned ==
  ASSUME NEW cp \in Checkpoints, NEW text \in Texts, NEW t, NEW esc, NEW rev,
         Governed(t, cp, esc, rev)
  PROVE  Governed(t, SubmitInput(cp, text), esc, rev)
BY NoneIsNothing DEF SubmitInput, Governed, Checkpoints

LEMMA StartGoverned ==
  ASSUME NEW cp \in Checkpoints, NEW t, NEW esc, NEW rev,
         Governed(t, cp, esc, rev), cp.input # None
  PROVE  Governed(t, Start(cp), esc, rev)
<1> DEFINE moved == [cp EXCEPT !.messages = Append(cp.messages, Human(cp.input)),
                               !.input = None]
<1>1. Append(cp.messages, Human(cp.input)) \in Seq(Entries)
  BY DEF Checkpoints, Human, Entries
<1>2. moved \in Checkpoints
  BY <1>1 DEF Checkpoints
<1>3. /\ moved.requiresApproval = cp.requiresApproval
      /\ moved.proposed = cp.proposed
      /\ moved.decision = cp.decision
  BY DEF Checkpoints
<1> HIDE DEF moved
<1>4. Governed(t, Advance("start", moved), esc, rev)
  BY <1>2, <1>3, AdvanceGoverned DEF Governed, Nodes
<1> QED
  BY <1>4 DEF Start, moved

LEMMA SupervisorGoverned ==
  ASSUME NEW cp \in Checkpoints, NEW intent \in Intents, NEW id \in UserIds,
         NEW t, NEW esc, NEW rev, Governed(t, cp, esc, rev)
  PROVE  Governed(t, Supervisor(cp, intent, id), esc, rev)
<1> DEFINE routed == [cp EXCEPT !.intent = intent, !.user = ClassifiedUser(cp, id),
                       !.assignee = IF intent = "unknown" THEN "supervisor" ELSE intent]
<1>1. ClassifiedUser(cp, id) \in UserIds
  BY ExtractedType
<1>2. routed \in Checkpoints
  BY <1>1 DEF Checkpoints, Intents, Assignees
<1>3. /\ routed.requiresApproval = cp.requiresApproval
      /\ routed.proposed = cp.proposed
      /\ routed.decision = cp.decision
  BY DEF Checkpoints
<1> HIDE DEF routed
<1>4. Governed(t, Advance("supervisor", routed), esc, rev)
  BY <1>2, <1>3, AdvanceGoverned DEF Governed, Nodes
<1> QED
  BY <1>4 DEF Supervisor, routed

LEMMA BillingRepliesGoverned ==
  ASSUME NEW cp \in Checkpoints, NEW reply \in Replies, NEW t, NEW esc, NEW rev,
         Governed(t, cp, esc, rev)
  PROVE  Governed(t, BillingReplies(cp, reply), esc, rev)
<1> DEFINE replied == [cp EXCEPT !.messages = Reply(cp, reply), !.assignee = "billing"]
<1>1. replied \in Checkpoints
  BY ReplyType DEF Checkpoints, Assignees
<1>2. /\ replied.requiresApproval = cp.requiresApproval
      /\ replied.proposed = cp.proposed
      /\ replied.decision = cp.decision
  BY DEF Checkpoints
<1> HIDE DEF replied
<1>3. Governed(t, Advance("billing", replied), esc, rev)
  BY <1>1, <1>2, AdvanceGoverned DEF Governed, Nodes
<1> QED
  BY <1>3 DEF BillingReplies, replied

(* An escalation is governed once it is among the escalated actions.        *)
LEMMA BillingEscalatesGoverned ==
  ASSUME NEW cp \in Checkpoints, ~BillingIncomplete(cp), NEW t, NEW esc, NEW rev,
         Governed(t, cp, esc, rev),
         [thread |-> t, action |-> [user |-> cp.user, amount |-> BillingAmount(cp)]] \in esc
  PROVE  /\ Governed(t, BillingEscalates(cp), esc, rev)
         /\ BillingEscalates(cp).proposed = [user |-> cp.user, amount |-> BillingAmount(cp)]
<1> DEFINE action == [user |-> cp.user, amount |-> BillingAmount(cp)]
           written == [cp EXCEPT !.messages = Reply(cp, "escalated"), !.assignee = "auditor",
                                 !.proposed = action, !.requiresApproval = TRUE]
<1>1. action \in Actions /\ action # None
  BY BillingActionType, NoneIsNothing
<1>2. Reply(cp, "escalated") \in Seq(Entries)
  BY ReplyType DEF Replies
<1>3. [thread |-> t, action |-> action] \in esc
  OBVIOUS
<1> HIDE DEF action
<1>4. written \in Checkpoints
  BY <1>1, <1>2 DEF Checkpoints, Assignees
<1>5. written.proposed = action /\ written.decision = cp.decision
  BY DEF Checkpoints
<1> HIDE DEF written
<1>6. Governed(t, Advance("billing", written), esc, rev)
  BY <1>1, <1>3, <1>4, <1>5, AdvanceGoverned DEF Governed, Nodes
<1>7. Advance("billing", written).proposed = action
  BY <1>4, <1>5 DEF Advance, Checkpoints
<1> QED
  BY <1>6, <1>7 DEF BillingEscalates, written, action

LEMMA SupportGoverned ==
  ASSUME NEW cp \in Checkpoints, NEW t, NEW esc, NEW rev, Governed(t, cp, esc, rev)
  PROVE  Governed(t, Support(cp), esc, rev)
<1> DEFINE answered == [cp EXCEPT !.messages = Reply(cp, "answered"), !.assignee = "support"]
<1>1. answered \in Checkpoints
  BY ReplyType DEF Checkpoints, Assignees, Replies
<1>2. /\ answered.requiresApproval = cp.requiresApproval
      /\ answered.proposed = cp.proposed
      /\ answered.decision = cp.decision
  BY DEF Checkpoints
<1> HIDE DEF answered
<1>3. Governed(t, Advance("support", answered), esc, rev)
  BY <1>1, <1>2, AdvanceGoverned DEF Governed, Nodes
<1> QED
  BY <1>3 DEF Support, answered

LEMMA AuditorGoverned ==
  ASSUME NEW cp \in Checkpoints, NEW t, NEW esc, NEW rev, Governed(t, cp, esc, rev)
  PROVE  Governed(t, Auditor(cp), esc, rev)
<1> DEFINE closed(reply) == [cp EXCEPT !.messages = Reply(cp, reply),
                                       !.assignee = "auditor", !.requiresApproval = FALSE]
           untouched == [cp EXCEPT !.assignee = "auditor"]
<1>1. ASSUME NEW reply \in Replies
      PROVE  Governed(t, Advance("auditor", closed(reply)), esc, rev)
  <2>1. closed(reply) \in Checkpoints
    BY ReplyType DEF Checkpoints, Assignees
  <2>2. /\ ~closed(reply).requiresApproval
        /\ closed(reply).proposed = cp.proposed
        /\ closed(reply).decision = cp.decision
    BY DEF Checkpoints
  <2> HIDE DEF closed
  <2> QED
    BY <2>1, <2>2, AdvanceGoverned DEF Governed, Nodes
<1>2. Governed(t, Advance("auditor", untouched), esc, rev)
  <2>1. untouched \in Checkpoints
    BY DEF Checkpoints, Assignees
  <2>2. /\ untouched.requiresApproval = cp.requiresApproval
        /\ untouched.proposed = cp.proposed
        /\ untouched.decision = cp.decision
    BY DEF Checkpoints
  <2> HIDE DEF untouched
  <2> QED
    BY <2>1, <2>2, AdvanceGoverned DEF Governed, Nodes
<1> QED
  BY <1>1, <1>2 DEF Auditor, Replies

(* A decision is governed once it has been counted.                         *)
LEMMA UpdateStateGoverned ==
  ASSUME NEW cp \in Checkpoints, NEW decision \in Verdicts, NEW t, NEW esc, NEW rev,
         Governed(t, cp, esc, rev),
         decision = "approved" => rev[t]["approved"] > 0
  PROVE  Governed(t, UpdateState(cp, decision), esc, rev)
<1> DEFINE written == [cp EXCEPT !.decision = decision, !.input = None]
           node == IF cp.last = None THEN "start" ELSE cp.last
<1>1. written \in Checkpoints
  BY DEF Checkpoints
<1>2. node \in Nodes
  BY DEF Checkpoints, Nodes
<1>3. /\ written.requiresApproval = cp.requiresApproval
      /\ written.proposed = cp.proposed
      /\ written.decision = decision
  BY DEF Checkpoints
<1>4. UpdateState(cp, decision) = [written EXCEPT !.next = Route(node, written)]
  BY DEF UpdateState
<1> HIDE DEF written, node
<1> QED
  BY <1>1, <1>2, <1>3, <1>4, RouteGoverned DEF Governed, Checkpoints

--------------------------------------------------------------------------------
(* What a step may do to the histories: they grow, and a request and a      *)
(* checkpoint that were governed stay so.                                   *)

HistoriesGrow ==
  /\ escalated \subseteq escalated'
  /\ \A t \in Threads : reviews[t]["approved"] <= reviews'[t]["approved"]

LEMMA GovernedStays ==
  ASSUME TypeOK, reviews' \in [Threads -> [Verdicts -> 0 .. MaxReviews]], HistoriesGrow,
         NEW t \in Threads, NEW cp, Governed(t, cp, escalated, reviews)
  PROVE  Governed(t, cp, escalated', reviews')
<1>1. reviews[t]["approved"] \in Nat /\ reviews'[t]["approved"] \in Nat
  BY ServiceAssumption DEF TypeOK, Verdicts
<1>2. reviews[t]["approved"] > 0 => reviews'[t]["approved"] > 0
  BY <1>1 DEF HistoriesGrow
<1> QED
  BY <1>2 DEF Governed, HistoriesGrow

LEMMA RequestStays ==
  ASSUME TypeOK, reviews' \in [Threads -> [Verdicts -> 0 .. MaxReviews]], HistoriesGrow,
         NEW r, RequestGoverned(r, escalated, reviews)
  PROVE  RequestGoverned(r, escalated', reviews')
<1> SUFFICES ASSUME r.step # "idle"
             PROVE  RequestGoverned(r, escalated', reviews')
  BY DEF RequestGoverned
<1>1. r.thread \in Threads /\ Governed(r.thread, r.cp, escalated, reviews)
  BY DEF RequestGoverned
<1>2. Governed(r.thread, r.cp, escalated', reviews')
  BY <1>1, GovernedStays
<1>3. reviews[r.thread]["approved"] \in Nat /\ reviews'[r.thread]["approved"] \in Nat
  BY <1>1, ServiceAssumption DEF TypeOK, Verdicts
<1>4. reviews[r.thread]["approved"] > 0 => reviews'[r.thread]["approved"] > 0
  BY <1>1, <1>3 DEF HistoriesGrow
<1> QED
  BY <1>1, <1>2, <1>4 DEF RequestGoverned

(* The step of one worker: its request becomes r, the others stay.          *)
RequestsOK == /\ request \in [Workers -> Requests]
              /\ \A w \in Workers : request[w].step # "idle" => request[w].thread \in Threads
              /\ \A w \in Workers : RequestGoverned(request[w], escalated, reviews)

LEMMA WorkerStep ==
  ASSUME IInv, reviews' \in [Threads -> [Verdicts -> 0 .. MaxReviews]], HistoriesGrow,
         NEW w \in Workers, NEW r \in Requests,
         RequestGoverned(r, escalated', reviews'),
         request' = [request EXCEPT ![w] = r]
  PROVE  RequestsOK'
<1>1. request' \in [Workers -> Requests]
  BY DEF IInv, TypeOK
<1>2. \A v \in Workers : RequestGoverned(request[v], escalated', reviews')
  BY RequestStays DEF IInv
<1>3. \A v \in Workers : request'[v] = IF v = w THEN r ELSE request[v]
  BY DEF IInv, TypeOK
<1>4. \A v \in Workers : RequestGoverned(request'[v], escalated', reviews')
  BY <1>2, <1>3
<1>5. \A v \in Workers : request'[v].step # "idle" => request'[v].thread \in Threads
  BY <1>4 DEF RequestGoverned
<1> QED
  BY <1>1, <1>4, <1>5 DEF RequestsOK

(* The stored checkpoints stay governed when none is written.               *)
LEMMA StoreStays ==
  ASSUME IInv, reviews' \in [Threads -> [Verdicts -> 0 .. MaxReviews]], HistoriesGrow,
         checkpoint' = checkpoint
  PROVE  \A t \in Threads : Governed(t, checkpoint'[t], escalated', reviews')
BY GovernedStays DEF IInv

(* Nothing is lost from the ledger's guarantee when the histories grow.     *)
LEMMA LedgerStays ==
  ASSUME IInv, reviews' \in [Threads -> [Verdicts -> 0 .. MaxReviews]], HistoriesGrow,
         ledger' = ledger
  PROVE  LedgerGoverned'
<1>1. RefundsAreValid'
  BY DEF IInv, LedgerGoverned, RefundsAreValid
<1>2. ASSUME NEW i \in DOMAIN ledger
      PROVE  reviews[ledger[i].thread]["approved"] > 0
               => reviews'[ledger[i].thread]["approved"] > 0
  <2>1. ledger[i].thread \in Threads
    <3>1. ledger \in Seq(Refunds)
      BY DEF IInv, TypeOK
    <3>2. ledger[i] \in Refunds
      BY <3>1
    <3> QED
      BY <3>2 DEF Refunds
  <2>2. /\ reviews[ledger[i].thread]["approved"] \in Nat
        /\ reviews'[ledger[i].thread]["approved"] \in Nat
    BY <2>1, ServiceAssumption DEF IInv, TypeOK, Verdicts
  <2> QED
    BY <2>1, <2>2 DEF HistoriesGrow
<1>3. OverLimitIsGoverned'
  BY <1>2 DEF IInv, LedgerGoverned, OverLimitIsGoverned, HistoriesGrow, ActionOf
<1> QED
  BY <1>1, <1>3 DEF LedgerGoverned

(* A step that leaves the four histories alone.                             *)
LEMMA SameHistories ==
  ASSUME IInv, UNCHANGED histories
  PROVE  /\ HistoriesGrow
         /\ reviews' \in [Threads -> [Verdicts -> 0 .. MaxReviews]]
         /\ tickets' \in [Threads -> 0 .. MaxTickets]
         /\ ledger' \in Seq(Refunds) /\ escalated' \in SUBSET Escalations
         /\ EscalationsAreOverLimit(escalated)'
         /\ LedgerGoverned'
<1>1. /\ reviews' \in [Threads -> [Verdicts -> 0 .. MaxReviews]]
      /\ tickets' \in [Threads -> 0 .. MaxTickets]
      /\ ledger' \in Seq(Refunds) /\ escalated' \in SUBSET Escalations
  BY DEF IInv, TypeOK, histories
<1>2. HistoriesGrow
  <2>1. \A t \in Threads : reviews[t]["approved"] \in Nat
    BY ServiceAssumption DEF IInv, TypeOK, Verdicts
  <2> QED
    BY <2>1 DEF HistoriesGrow, histories
<1>3. EscalationsAreOverLimit(escalated)'
  BY DEF IInv, EscalationsAreOverLimit, histories
<1>4. LedgerGoverned'
  BY <1>1, <1>2, LedgerStays DEF histories
<1> QED
  BY <1>1, <1>2, <1>3, <1>4

(* A step that only moves one request on.                                   *)
LEMMA RequestOnly ==
  ASSUME IInv, UNCHANGED <<checkpoint, pending, histories, faults>>,
         NEW w \in Workers, NEW r \in Requests,
         RequestGoverned(r, escalated, reviews),
         request' = [request EXCEPT ![w] = r]
  PROVE  IInv'
<1>1. /\ HistoriesGrow
      /\ reviews' \in [Threads -> [Verdicts -> 0 .. MaxReviews]]
      /\ tickets' \in [Threads -> 0 .. MaxTickets]
      /\ ledger' \in Seq(Refunds) /\ escalated' \in SUBSET Escalations
      /\ EscalationsAreOverLimit(escalated)'
      /\ LedgerGoverned'
  BY SameHistories
<1>2. RequestGoverned(r, escalated', reviews')
  BY DEF histories
<1>3. RequestsOK'
  BY <1>1, <1>2, WorkerStep
<1>4. \A t \in Threads : Governed(t, checkpoint'[t], escalated', reviews')
  BY <1>1, StoreStays
<1>5. TypeOK'
  BY <1>1, <1>3 DEF IInv, TypeOK, RequestsOK
<1> QED
  BY <1>1, <1>3, <1>4, <1>5 DEF IInv, RequestsOK

(* A step that puts a run's copy in the store.                              *)
LEMMA Puts ==
  ASSUME IInv, UNCHANGED <<pending, histories, faults>>,
         NEW w \in Workers, request[w].step # "idle",
         checkpoint' = [checkpoint EXCEPT ![request[w].thread] = request[w].cp],
         NEW step \in {"run", "resume", "snapshot"},
         request' = [request EXCEPT ![w].step = step]
  PROVE  IInv'
<1> DEFINE r == [request[w] EXCEPT !.step = step]
<1>1. /\ HistoriesGrow
      /\ reviews' \in [Threads -> [Verdicts -> 0 .. MaxReviews]]
      /\ tickets' \in [Threads -> 0 .. MaxTickets]
      /\ ledger' \in Seq(Refunds) /\ escalated' \in SUBSET Escalations
      /\ EscalationsAreOverLimit(escalated)'
      /\ LedgerGoverned'
  BY SameHistories
<1>2. /\ request[w] \in Requests /\ request[w].thread \in Threads
      /\ request[w].cp \in Checkpoints
      /\ Governed(request[w].thread, request[w].cp, escalated, reviews)
  BY DEF IInv, TypeOK, RequestGoverned, Requests
<1>3. r \in Requests /\ RequestGoverned(r, escalated', reviews')
  BY <1>2 DEF Requests, Steps, RequestGoverned, histories
<1>4. request' = [request EXCEPT ![w] = r]
  BY DEF IInv, TypeOK
<1> HIDE DEF r
<1>5. RequestsOK'
  BY <1>1, <1>3, <1>4, WorkerStep
<1>6. checkpoint' \in [Threads -> Checkpoints]
  BY <1>2 DEF IInv, TypeOK
<1>7. \A t \in Threads : Governed(t, checkpoint'[t], escalated', reviews')
  BY <1>2 DEF IInv, TypeOK, histories
<1>8. TypeOK'
  BY <1>1, <1>5, <1>6 DEF IInv, TypeOK, RequestsOK
<1> QED
  BY <1>1, <1>5, <1>7, <1>8 DEF IInv, RequestsOK

(* A node that ran: the run's copy becomes cp, to be saved.                 *)
ToSave(w, cp) == [request[w] EXCEPT !.step = "save", !.cp = cp]

LEMMA RanRequest ==
  ASSUME IInv, NEW w \in Workers, request[w].step = "run",
         NEW cp \in Checkpoints, Ran(w, cp),
         Governed(request[w].thread, cp, escalated', reviews')
  PROVE  /\ ToSave(w, cp) \in Requests
         /\ RequestGoverned(ToSave(w, cp), escalated', reviews')
         /\ request' = [request EXCEPT ![w] = ToSave(w, cp)]
<1>1. request[w] \in Requests /\ request[w].thread \in Threads
  BY DEF IInv, TypeOK
<1>2. ToSave(w, cp) \in Requests
  BY <1>1 DEF ToSave, Requests, Steps
<1>3. RequestGoverned(ToSave(w, cp), escalated', reviews')
  BY <1>1 DEF ToSave, RequestGoverned, Requests
<1>4. request' = [request EXCEPT ![w] = ToSave(w, cp)]
  BY <1>1 DEF ToSave, Ran, IInv, TypeOK
<1> QED
  BY <1>2, <1>3, <1>4

LEMMA RanOnly ==
  ASSUME IInv, NEW w \in Workers, request[w].step = "run",
         NEW cp \in Checkpoints, Governed(request[w].thread, cp, escalated, reviews),
         Ran(w, cp), UNCHANGED <<checkpoint, pending, histories, faults>>
  PROVE  IInv'
<1>1. Governed(request[w].thread, cp, escalated', reviews')
  BY DEF histories
<1>2. /\ ToSave(w, cp) \in Requests
      /\ RequestGoverned(ToSave(w, cp), escalated', reviews')
      /\ request' = [request EXCEPT ![w] = ToSave(w, cp)]
  BY <1>1, RanRequest
<1>3. RequestGoverned(ToSave(w, cp), escalated, reviews)
  BY <1>2 DEF histories
<1> QED
  BY <1>2, <1>3, RequestOnly

(* The ledger's guarantee for one refund, and for a ledger one longer.      *)
RefundGoverned(r) ==
  /\ IF RefundRequiresApproval(r.amount)
     THEN /\ r.by = "auditor"
          /\ [thread |-> r.thread, action |-> ActionOf(r)] \in escalated
          /\ reviews[r.thread]["approved"] > 0
     ELSE r.by = "billing"
  /\ r.amount > 0 /\ KnownUser(r.user)

LEMMA LedgerAppends ==
  ASSUME IInv, UNCHANGED <<escalated, tickets, reviews>>,
         NEW r \in Refunds, RefundGoverned(r), ledger' = Append(ledger, r)
  PROVE  /\ ledger' \in Seq(Refunds)
         /\ LedgerGoverned'
<1>1. ledger \in Seq(Refunds)
  BY DEF IInv, TypeOK
<1>2. ledger' \in Seq(Refunds)
  BY <1>1
<1>3. \A i \in DOMAIN ledger' : ledger'[i] = r \/ (i \in DOMAIN ledger /\ ledger'[i] = ledger[i])
  BY <1>1
<1>4. \A i \in DOMAIN ledger : RefundGoverned(ledger[i])
  BY DEF IInv, LedgerGoverned, OverLimitIsGoverned, RefundsAreValid, RefundGoverned,
     RefundRequiresApproval
<1>5. \A i \in DOMAIN ledger' : RefundGoverned(ledger'[i])
  BY <1>3, <1>4
<1>6. LedgerGoverned'
  BY <1>5 DEF RefundGoverned, LedgerGoverned, OverLimitIsGoverned, RefundsAreValid, ActionOf,
     RefundRequiresApproval
<1> QED
  BY <1>2, <1>6

(* A step that executes a refund in a node that ran.                        *)
LEMMA RanAndPaid ==
  ASSUME IInv, NEW w \in Workers, request[w].step = "run",
         NEW cp \in Checkpoints, Governed(request[w].thread, cp, escalated, reviews),
         Ran(w, cp), UNCHANGED <<checkpoint, pending, escalated, tickets, reviews, faults>>,
         NEW r \in Refunds, RefundGoverned(r), ledger' = Append(ledger, r)
  PROVE  IInv'
<1>1. /\ HistoriesGrow
      /\ reviews' \in [Threads -> [Verdicts -> 0 .. MaxReviews]]
  <2>1. \A t \in Threads : reviews[t]["approved"] \in Nat
    BY ServiceAssumption DEF IInv, TypeOK, Verdicts
  <2> QED
    BY <2>1 DEF HistoriesGrow, IInv, TypeOK
<1>2. ledger' \in Seq(Refunds) /\ LedgerGoverned'
  BY LedgerAppends
<1>3. Governed(request[w].thread, cp, escalated', reviews')
  OBVIOUS
<1>4. /\ ToSave(w, cp) \in Requests
      /\ RequestGoverned(ToSave(w, cp), escalated', reviews')
      /\ request' = [request EXCEPT ![w] = ToSave(w, cp)]
  BY <1>3, RanRequest
<1>5. RequestsOK'
  BY <1>1, <1>4, WorkerStep
<1>6. \A t \in Threads : Governed(t, checkpoint'[t], escalated', reviews')
  BY <1>1, StoreStays
<1>7. EscalationsAreOverLimit(escalated)'
  BY DEF IInv, EscalationsAreOverLimit
<1>8. TypeOK'
  BY <1>1, <1>2, <1>5 DEF IInv, TypeOK, RequestsOK
<1> QED
  BY <1>2, <1>5, <1>6, <1>7, <1>8 DEF IInv, RequestsOK

(* A thread nobody has written is governed.                                 *)
LEMMA EmptyGoverned == \A t, esc, rev : Governed(t, EmptyCheckpoint, esc, rev)
BY NoneIsNothing DEF Governed, EmptyCheckpoint, Verdicts

(* A request leaves, by an exception or with the process.                   *)
LEMMA IdleRequest ==
  /\ Idle \in Requests
  /\ \A esc, rev : RequestGoverned(Idle, esc, rev)
BY EmptyType DEF Idle, Requests, RequestGoverned

(* The tool's answer, case by case.                                         *)
LEMMA ToolAnswers ==
  ASSUME NEW user \in Ids, NEW amount \in Nat
  PROVE  /\ ExecuteRefund(user, amount) = "success" =>
               amount > 0 /\ KnownUser(user) /\ ~RefundRequiresApproval(amount)
         /\ ExecuteRefund(user, amount) = "requires_human_auditor" =>
               amount > 0 /\ KnownUser(user) /\ RefundRequiresApproval(amount)
BY GovernanceAssumption DEF ExecuteRefund, RefundRequiresApproval

--------------------------------------------------------------------------------
(* The invariant holds initially and every action keeps it.                 *)

LEMMA InitInvariant == Init => IInv
<1> SUFFICES ASSUME Init PROVE IInv
  OBVIOUS
<1>1. TypeOK
  BY EmptyType, IdleRequest, ServiceAssumption
     DEF Init, TypeOK, Verdicts, Idle
<1>2. \A t \in Threads : Governed(t, checkpoint[t], escalated, reviews)
  BY EmptyGoverned DEF Init
<1>3. \A w \in Workers : RequestGoverned(request[w], escalated, reviews)
  BY IdleRequest DEF Init
<1> QED
  BY <1>1, <1>2, <1>3
     DEF Init, IInv, EscalationsAreOverLimit, LedgerGoverned, OverLimitIsGoverned,
         RefundsAreValid

LEMMA ArriveInvariant ==
  ASSUME IInv, NEW w \in Workers, Arrive(w)
  PROVE  IInv'
<1>1. CASE \E t \in Threads, text \in Texts : Submit(w, t, text)
  <2>1. PICK t \in Threads, text \in Texts : Submit(w, t, text)
    BY <1>1
  <2> DEFINE r == [Idle EXCEPT !.step = "load", !.thread = t, !.text = text]
  <2>2. r \in Requests /\ RequestGoverned(r, escalated', reviews')
    BY EmptyType, EmptyGoverned
       DEF Idle, Requests, Steps, RequestGoverned
  <2>3. /\ request' = [request EXCEPT ![w] = r]
        /\ tickets[t] < MaxTickets /\ tickets' = [tickets EXCEPT ![t] = @ + 1]
        /\ UNCHANGED <<checkpoint, pending, ledger, escalated, reviews, faults>>
    BY <2>1 DEF Submit
  <2> HIDE DEF r
  <2>4. tickets' \in [Threads -> 0 .. MaxTickets]
    BY <2>3, ServiceAssumption DEF IInv, TypeOK
  <2>5. /\ HistoriesGrow
        /\ reviews' \in [Threads -> [Verdicts -> 0 .. MaxReviews]]
    <3>1. \A u \in Threads : reviews[u]["approved"] \in Nat
      BY ServiceAssumption DEF IInv, TypeOK, Verdicts
    <3> QED
      BY <2>3, <3>1 DEF HistoriesGrow, IInv, TypeOK
  <2>6. RequestsOK'
    BY <2>2, <2>3, <2>5, WorkerStep
  <2>7. \A u \in Threads : Governed(u, checkpoint'[u], escalated', reviews')
    BY <2>3, <2>5, StoreStays
  <2>8. LedgerGoverned'
    BY <2>3, <2>5, LedgerStays
  <2>9. TypeOK'
    BY <2>3, <2>4, <2>5, <2>6 DEF IInv, TypeOK, RequestsOK
  <2>10. EscalationsAreOverLimit(escalated)'
    BY <2>3 DEF IInv, EscalationsAreOverLimit
  <2> QED
    BY <2>6, <2>7, <2>8, <2>9, <2>10 DEF IInv, RequestsOK
<1>2. CASE \E t \in Threads, decision \in Verdicts : Review(w, t, decision)
  <2>1. PICK t \in Threads, decision \in Verdicts : Review(w, t, decision)
    BY <1>2
  <2> DEFINE r == [Idle EXCEPT !.step = "update", !.thread = t, !.decision = decision]
  <2>2. /\ request' = [request EXCEPT ![w] = r]
        /\ reviews[t]["approved"] + reviews[t]["denied"] < MaxReviews
        /\ reviews' = [reviews EXCEPT ![t][decision] = @ + 1]
        /\ UNCHANGED <<checkpoint, pending, ledger, escalated, tickets, faults>>
    BY <2>1 DEF Review
  <2>3. \A u \in Threads, d \in Verdicts : reviews[u][d] \in 0 .. MaxReviews
    BY DEF IInv, TypeOK
  <2>4. reviews' \in [Threads -> [Verdicts -> 0 .. MaxReviews]]
    <3>1. reviews[t][decision] + 1 \in 0 .. MaxReviews
      BY <2>2, <2>3, ServiceAssumption DEF Verdicts
    <3> QED
      BY <2>2, <3>1 DEF IInv, TypeOK
  <2>5. \A u \in Threads, d \in Verdicts :
          reviews'[u][d] = IF u = t /\ d = decision THEN reviews[u][d] + 1 ELSE reviews[u][d]
    BY <2>2 DEF IInv, TypeOK
  <2>6. HistoriesGrow
    <3>1. \A u \in Threads, d \in Verdicts : reviews[u][d] \in Nat
      BY <2>3, ServiceAssumption
    <3> QED
      BY <2>2, <2>5, <3>1 DEF HistoriesGrow, Verdicts
  <2>7. reviews'[t][decision] > 0
    BY <2>3, <2>5, ServiceAssumption
  <2>8. r \in Requests /\ RequestGoverned(r, escalated', reviews')
    BY <2>7, EmptyType, EmptyGoverned
       DEF Idle, Requests, Steps, RequestGoverned
  <2> HIDE DEF r
  <2>9. RequestsOK'
    BY <2>2, <2>4, <2>6, <2>8, WorkerStep
  <2>10. \A u \in Threads : Governed(u, checkpoint'[u], escalated', reviews')
    BY <2>2, <2>4, <2>6, StoreStays
  <2>11. LedgerGoverned'
    BY <2>2, <2>4, <2>6, LedgerStays
  <2>12. TypeOK'
    BY <2>2, <2>4, <2>9 DEF IInv, TypeOK, RequestsOK
  <2>13. EscalationsAreOverLimit(escalated)'
    BY <2>2 DEF IInv, EscalationsAreOverLimit
  <2> QED
    BY <2>9, <2>10, <2>11, <2>12, <2>13 DEF IInv, RequestsOK
<1>3. CASE \E t \in Threads : Get(w, t)
  <2>1. PICK t \in Threads : Get(w, t)
    BY <1>3
  <2> DEFINE r == [Idle EXCEPT !.step = "snapshot", !.thread = t]
  <2>2. r \in Requests /\ RequestGoverned(r, escalated, reviews)
    BY EmptyType, EmptyGoverned
       DEF Idle, Requests, Steps, RequestGoverned
  <2> QED
    BY <2>1, <2>2, RequestOnly DEF Get
<1>4. CASE ListDetails(w)
  <2>1. PICK t \in pending :
          request' = [request EXCEPT ![w] =
            [Idle EXCEPT !.step = "snapshot", !.thread = t, !.todo = pending \ {t}]]
    BY <1>4 DEF ListDetails
  <2> DEFINE r == [Idle EXCEPT !.step = "snapshot", !.thread = t, !.todo = pending \ {t}]
  <2>2. t \in Threads /\ pending \ {t} \in SUBSET Threads
    BY DEF IInv, TypeOK
  <2>3. r \in Requests /\ RequestGoverned(r, escalated, reviews)
    BY <2>2, EmptyType, EmptyGoverned
       DEF Idle, Requests, Steps, RequestGoverned
  <2> QED
    BY <1>4, <2>1, <2>3, RequestOnly DEF ListDetails
<1> QED
  BY <1>1, <1>2, <1>3, <1>4 DEF Arrive

(* The steps of a request that is being answered, one case per action.      *)
LEMMA ProceedInvariant ==
  ASSUME IInv, NEW w \in Workers, Proceed(w)
  PROVE  IInv'
<1> DEFINE q == request[w]
<1>a. /\ q \in Requests
      /\ q.cp \in Checkpoints
      /\ RequestGoverned(q, escalated, reviews)
  BY DEF IInv, TypeOK, Requests
<1>b. ASSUME q.step # "idle"
      PROVE  /\ q.thread \in Threads
             /\ Governed(q.thread, q.cp, escalated, reviews)
             /\ checkpoint[q.thread] \in Checkpoints
             /\ Governed(q.thread, checkpoint[q.thread], escalated, reviews)
  BY <1>a, <1>b DEF RequestGoverned, IInv, TypeOK
<1>c. ASSUME NEW node \in Nodes, Runs(w, node)
      PROVE  /\ q.step = "run" /\ q.thread \in Threads
             /\ Governed(q.thread, q.cp, escalated, reviews)
  BY <1>b, <1>c DEF Runs
<1>1. CASE SubmitLoad(w)
  <2> DEFINE cp == SubmitInput(checkpoint[q.thread], q.text)
             r == [q EXCEPT !.step = "save", !.cp = cp]
  <2>1. q.step = "load" /\ q.text \in Texts
    BY <1>1, <1>a DEF SubmitLoad, RequestGoverned
  <2>2. cp \in Checkpoints /\ Governed(q.thread, cp, escalated, reviews)
    BY <2>1, <1>b, SubmitInputType, SubmitInputGoverned
  <2>3. request' = [request EXCEPT ![w] = r]
    BY <1>1 DEF SubmitLoad, IInv, TypeOK
  <2> HIDE DEF cp
  <2>4. r \in Requests /\ RequestGoverned(r, escalated, reviews)
    BY <1>a, <1>b, <2>1, <2>2 DEF Requests, Steps, RequestGoverned
  <2> QED
    BY <1>1, <2>3, <2>4, RequestOnly DEF SubmitLoad
<1>2. CASE UpdateRead(w)
  <2> DEFINE cp == UpdateState(checkpoint[q.thread], q.decision)
             r == [q EXCEPT !.step = "put", !.cp = cp]
  <2>1. /\ q.step = "update" /\ q.decision \in Verdicts
        /\ q.decision = "approved" => reviews[q.thread]["approved"] > 0
    BY <1>2, <1>a DEF UpdateRead, RequestGoverned
  <2>2. cp \in Checkpoints /\ Governed(q.thread, cp, escalated, reviews)
    BY <2>1, <1>b, UpdateStateType, UpdateStateGoverned
  <2>3. request' = [request EXCEPT ![w] = r]
    BY <1>2 DEF UpdateRead, IInv, TypeOK
  <2> HIDE DEF cp
  <2>4. r \in Requests /\ RequestGoverned(r, escalated, reviews)
    BY <1>a, <1>b, <2>1, <2>2 DEF Requests, Steps, RequestGoverned
  <2> QED
    BY <1>2, <2>3, <2>4, RequestOnly DEF UpdateRead
<1>3. CASE UpdatePut(w)
  BY <1>3, Puts DEF UpdatePut
<1>4. CASE ResumeLoad(w)
  <2> DEFINE cp == checkpoint[q.thread]
             r == [q EXCEPT !.cp = cp,
                            !.step = IF cp.next = "end" THEN "snapshot" ELSE "run"]
  <2>1. q.step = "resume"
    BY <1>4 DEF ResumeLoad
  <2>2. cp \in Checkpoints /\ Governed(q.thread, cp, escalated, reviews)
    BY <2>1, <1>b
  <2>3. request' = [request EXCEPT ![w] = r]
    BY <1>4 DEF ResumeLoad, IInv, TypeOK
  <2> HIDE DEF cp
  <2>4. r \in Requests /\ RequestGoverned(r, escalated, reviews)
    BY <1>a, <1>b, <2>1, <2>2 DEF Requests, Steps, RequestGoverned
  <2> QED
    BY <1>4, <2>3, <2>4, RequestOnly DEF ResumeLoad
<1>5. CASE Save(w)
  <2> DEFINE step == IF q.cp.next \in {"end", "auditor"} THEN "snapshot" ELSE "run"
  <2>1. step \in {"run", "resume", "snapshot"}
    OBVIOUS
  <2>2. request' = [request EXCEPT ![w].step = step]
    BY <1>5 DEF Save
  <2> HIDE DEF step
  <2> QED
    BY <1>5, <2>1, <2>2, Puts DEF Save
<1>6. CASE RunStart(w)
  <2>1. Start(q.cp) \in Checkpoints /\ Governed(q.thread, Start(q.cp), escalated, reviews)
    <3>1. q.cp.input # None
      BY <1>6, <1>c DEF RunStart, Runs, Governed, Nodes
    <3> QED
      BY <1>6, <1>a, <1>c, <3>1, StartType, StartGoverned DEF RunStart, Nodes
  <2> QED
    BY <1>6, <1>c, <2>1, RanOnly DEF RunStart, Nodes
<1>7. CASE RunSupervisor(w)
  <2>1. PICK intent \in Intents, id \in RouterIds : Ran(w, Supervisor(q.cp, intent, id))
    BY <1>7 DEF RunSupervisor
  <2>2. id \in UserIds
    BY ServiceAssumption
  <2> DEFINE cp == Supervisor(q.cp, intent, id)
  <2>3. cp \in Checkpoints /\ Governed(q.thread, cp, escalated, reviews)
    BY <1>7, <1>a, <1>c, <2>2, SupervisorType, SupervisorGoverned DEF RunSupervisor, Nodes
  <2> QED
    BY <1>7, <1>c, <2>1, <2>3, RanOnly DEF RunSupervisor, Nodes
<1>8. CASE RunBillingAsks(w)
  <2> DEFINE reply == IF q.cp.user = None THEN "which_account" ELSE "how_much"
  <2>1. reply \in Replies
    BY DEF Replies
  <2>2. BillingAsks(q.cp) = BillingReplies(q.cp, reply)
    BY DEF BillingAsks
  <2> HIDE DEF reply
  <2>3. /\ BillingAsks(q.cp) \in Checkpoints
        /\ Governed(q.thread, BillingAsks(q.cp), escalated, reviews)
    BY <1>8, <1>a, <1>c, <2>1, <2>2, BillingRepliesType, BillingRepliesGoverned
       DEF RunBillingAsks, Nodes
  <2> QED
    BY <1>8, <1>c, <2>3, RanOnly DEF RunBillingAsks, Nodes
<1>9. CASE RunBillingRefuses(w)
  <2>1. BillingResult(q.cp) \in Replies
    BY <1>9 DEF RunBillingRefuses, Replies
  <2>2. /\ BillingRefuses(q.cp) \in Checkpoints
        /\ Governed(q.thread, BillingRefuses(q.cp), escalated, reviews)
    BY <1>9, <1>a, <1>c, <2>1, BillingRepliesType, BillingRepliesGoverned
       DEF RunBillingRefuses, BillingRefuses, Nodes
  <2> QED
    BY <1>9, <1>c, <2>2, RanOnly DEF RunBillingRefuses, Nodes
<1>10. CASE RunBillingEscalates(w)
  <2> DEFINE action == [user |-> q.cp.user, amount |-> BillingAmount(q.cp)]
             e == [thread |-> q.thread, action |-> action]
             cp == BillingEscalates(q.cp)
  <2>1. /\ q.step = "run" /\ q.thread \in Threads /\ ~BillingIncomplete(q.cp)
        /\ Governed(q.thread, q.cp, escalated, reviews)
        /\ ExecuteRefund(action.user, action.amount) = "requires_human_auditor"
        /\ UNCHANGED <<checkpoint, pending, ledger, tickets, reviews, faults>>
        /\ Ran(w, cp)
        /\ escalated' = escalated \cup {[thread |-> q.thread, action |-> cp.proposed]}
    BY <1>10, <1>c DEF RunBillingEscalates, BillingResult, Nodes
  <2>2. action \in Actions
    BY <1>a, <2>1, BillingActionType
  <2>3. /\ cp \in Checkpoints /\ cp.proposed = action
        /\ Governed(q.thread, cp, escalated \cup {e}, reviews)
    <3>1. Governed(q.thread, q.cp, escalated \cup {e}, reviews)
      BY <2>1 DEF Governed
    <3> QED
      BY <1>a, <2>1, <3>1, BillingEscalatesType, BillingEscalatesGoverned
  <2> HIDE DEF action, cp
  <2>4. escalated' = escalated \cup {e}
    BY <2>1, <2>3
  <2>5. escalated' \in SUBSET Escalations
    BY <2>1, <2>2, <2>4 DEF IInv, TypeOK, Escalations
  <2>6. EscalationsAreOverLimit(escalated)'
    <3>1. \A x \in escalated' : x \in escalated \/ x = e
      BY <2>4
    <3>2. ExecuteRefund(e.action.user, e.action.amount) = "requires_human_auditor"
      BY <2>1
    <3> QED
      BY <3>1, <3>2 DEF EscalationsAreOverLimit, IInv
  <2>7. /\ HistoriesGrow
        /\ reviews' \in [Threads -> [Verdicts -> 0 .. MaxReviews]]
    <3>1. \A t \in Threads : reviews[t]["approved"] \in Nat
      BY ServiceAssumption DEF IInv, TypeOK, Verdicts
    <3> QED
      BY <2>1, <2>4, <3>1 DEF HistoriesGrow, IInv, TypeOK
  <2>8. Governed(q.thread, cp, escalated', reviews')
    BY <2>1, <2>3, <2>4
  <2>9. /\ ToSave(w, cp) \in Requests
        /\ RequestGoverned(ToSave(w, cp), escalated', reviews')
        /\ request' = [request EXCEPT ![w] = ToSave(w, cp)]
    BY <2>1, <2>3, <2>8, RanRequest
  <2>10. RequestsOK'
    BY <2>7, <2>9, WorkerStep
  <2>11. \A t \in Threads : Governed(t, checkpoint'[t], escalated', reviews')
    BY <2>1, <2>7, StoreStays
  <2>12. LedgerGoverned'
    BY <2>1, <2>7, LedgerStays
  <2>13. TypeOK'
    BY <2>1, <2>5, <2>7, <2>10 DEF IInv, TypeOK, RequestsOK
  <2> QED
    BY <2>6, <2>10, <2>11, <2>12, <2>13 DEF IInv, RequestsOK
<1>11. CASE RunBillingRefunds(w)
  <2> DEFINE action == [user |-> q.cp.user, amount |-> BillingAmount(q.cp)]
             r == [thread |-> q.thread, by |-> "billing", user |-> action.user,
                   amount |-> action.amount, review |-> None]
  <2>1. /\ q.step = "run" /\ q.thread \in Threads /\ ~BillingIncomplete(q.cp)
        /\ Governed(q.thread, q.cp, escalated, reviews)
        /\ ExecuteRefund(action.user, action.amount) = "success"
        /\ UNCHANGED <<checkpoint, pending, escalated, tickets, reviews, faults>>
        /\ Ran(w, BillingRefunds(q.cp))
        /\ ledger' = Append(ledger, r)
    BY <1>11, <1>c DEF RunBillingRefunds, BillingResult, Refunded, Nodes
  <2>2. action.user \in Ids /\ action.amount \in Nat
    BY <1>a, <2>1, BillingActionType DEF Actions
  <2>3. /\ BillingRefunds(q.cp) \in Checkpoints
        /\ Governed(q.thread, BillingRefunds(q.cp), escalated, reviews)
    BY <1>a, <2>1, BillingRepliesType, BillingRepliesGoverned DEF BillingRefunds, Replies
  <2> HIDE DEF action
  <2>4. r \in Refunds
    BY <2>1, <2>2 DEF Refunds
  <2>5. RefundGoverned(r)
    BY <2>1, <2>2, ToolAnswers DEF RefundGoverned
  <2> HIDE DEF r
  <2> QED
    BY <2>1, <2>3, <2>4, <2>5, RanAndPaid
<1>12. CASE RunSupport(w)
  <2>1. Support(q.cp) \in Checkpoints /\ Governed(q.thread, Support(q.cp), escalated, reviews)
    BY <1>12, <1>a, <1>c, SupportType, SupportGoverned DEF RunSupport, Nodes
  <2> QED
    BY <1>12, <1>c, <2>1, RanOnly DEF RunSupport, Nodes
<1>13. CASE RunAuditor(w)
  <2>1. /\ q.step = "run" /\ q.thread \in Threads
        /\ Governed(q.thread, q.cp, escalated, reviews)
        /\ UNCHANGED <<checkpoint, pending, escalated, tickets, reviews, faults>>
        /\ Ran(w, Auditor(q.cp))
    BY <1>13, <1>c DEF RunAuditor, Nodes
  <2>2. Auditor(q.cp) \in Checkpoints /\ Governed(q.thread, Auditor(q.cp), escalated, reviews)
    BY <1>a, <2>1, AuditorType, AuditorGoverned
  <2>3. CASE AuditorPays(q.cp)
    <3> DEFINE action == q.cp.proposed
               r == [thread |-> q.thread, by |-> "auditor", user |-> action.user,
                     amount |-> action.amount, review |-> q.decision]
    <3>1. ledger' = Append(ledger, r)
      BY <1>13, <2>3 DEF RunAuditor, Refunded
    <3>2. /\ action # None /\ action \in Actions
          /\ [thread |-> q.thread, action |-> action] \in escalated
          /\ reviews[q.thread]["approved"] > 0
      BY <1>a, <2>1, <2>3 DEF AuditorPays, Governed, Checkpoints
    <3>3. ExecuteRefund(action.user, action.amount) = "requires_human_auditor"
      BY <3>2 DEF IInv, EscalationsAreOverLimit
    <3>4. /\ action.user \in Ids /\ action.amount \in Nat
          /\ action = [user |-> action.user, amount |-> action.amount]
      BY <3>2 DEF Actions
    <3> HIDE DEF action
    <3>5. r \in Refunds
      BY <1>a, <2>1, <3>4 DEF Refunds, Requests
    <3>6. ActionOf(r) = action
      BY <3>4 DEF ActionOf
    <3>7. /\ action.amount > 0 /\ KnownUser(action.user)
          /\ RefundRequiresApproval(action.amount)
      BY <3>3, <3>4, ToolAnswers
    <3>8. RefundGoverned(r)
      BY <3>2, <3>6, <3>7 DEF RefundGoverned
    <3> HIDE DEF r
    <3> QED
      BY <2>1, <2>2, <3>1, <3>5, <3>8, RanAndPaid
  <2>4. CASE ~AuditorPays(q.cp)
    <3>1. UNCHANGED histories
      BY <1>13, <2>1, <2>4 DEF RunAuditor, histories
    <3> QED
      BY <2>1, <2>2, <3>1, RanOnly
  <2> QED
    BY <2>3, <2>4
<1>14. CASE Snapshot(w)
  <2> DEFINE awaiting == checkpoint[q.thread].next = "auditor"
             r == [q EXCEPT !.step = "mark", !.cp = EmptyCheckpoint, !.awaiting = awaiting]
  <2>1. q.step = "snapshot"
    BY <1>14 DEF Snapshot
  <2>2. request' = [request EXCEPT ![w] = r]
    BY <1>14 DEF Snapshot, IInv, TypeOK
  <2>3. awaiting \in BOOLEAN
    OBVIOUS
  <2> HIDE DEF awaiting
  <2>4. r \in Requests /\ RequestGoverned(r, escalated, reviews)
    BY <1>a, <1>b, <2>1, <2>3, EmptyType, EmptyGoverned DEF Requests, Steps, RequestGoverned
  <2> QED
    BY <1>14, <2>2, <2>4, RequestOnly DEF Snapshot
<1>15. CASE Mark(w)
  <2>1. /\ q.step = "mark" /\ q.thread \in Threads
        /\ pending' \in SUBSET Threads
        /\ UNCHANGED <<checkpoint, histories, faults>>
    BY <1>15, <1>b DEF Mark, IInv, TypeOK
  <2>2. \E r \in Requests : /\ RequestGoverned(r, escalated', reviews')
                            /\ request' = [request EXCEPT ![w] = r]
    <3>1. CASE request' = [request EXCEPT ![w] = Idle]
      BY <3>1, IdleRequest
    <3>2. ASSUME NEW u \in q.todo,
                 request' = [request EXCEPT ![w] =
                   [Idle EXCEPT !.step = "snapshot", !.thread = u, !.todo = q.todo \ {u}]]
          PROVE  \E r \in Requests : /\ RequestGoverned(r, escalated', reviews')
                                     /\ request' = [request EXCEPT ![w] = r]
      <4> DEFINE r == [Idle EXCEPT !.step = "snapshot", !.thread = u, !.todo = q.todo \ {u}]
      <4>1. u \in Threads /\ q.todo \ {u} \in SUBSET Threads
        BY <1>a DEF Requests
      <4>2. r \in Requests /\ RequestGoverned(r, escalated', reviews')
        BY <4>1, EmptyType, EmptyGoverned DEF Idle, Requests, Steps, RequestGoverned
      <4> QED
        BY <3>2, <4>2
    <3> QED
      BY <1>15, <3>1, <3>2 DEF Mark
  <2>3. PICK r \in Requests : /\ RequestGoverned(r, escalated', reviews')
                              /\ request' = [request EXCEPT ![w] = r]
    BY <2>2
  <2>4. /\ HistoriesGrow
        /\ reviews' \in [Threads -> [Verdicts -> 0 .. MaxReviews]]
        /\ tickets' \in [Threads -> 0 .. MaxTickets]
        /\ ledger' \in Seq(Refunds) /\ escalated' \in SUBSET Escalations
        /\ EscalationsAreOverLimit(escalated)'
        /\ LedgerGoverned'
    BY <2>1, SameHistories
  <2>5. RequestsOK'
    BY <2>3, <2>4, WorkerStep
  <2>6. \A t \in Threads : Governed(t, checkpoint'[t], escalated', reviews')
    BY <2>1, <2>4, StoreStays
  <2>7. TypeOK'
    BY <2>1, <2>4, <2>5 DEF IInv, TypeOK, RequestsOK
  <2> QED
    BY <2>4, <2>5, <2>6, <2>7 DEF IInv, RequestsOK
<1> QED
  BY <1>1, <1>2, <1>3, <1>4, <1>5, <1>6, <1>7, <1>8, <1>9, <1>10, <1>11, <1>12, <1>13,
     <1>14, <1>15 DEF Proceed

(* A failure loses requests, a crash or a restart the list, but no history. *)
LEMMA FaultInvariant ==
  ASSUME IInv, faults' \in 0 .. MaxFaults, UNCHANGED <<checkpoint, histories>>,
         pending' \in SUBSET Threads,
         request' \in [Workers -> Requests],
         \A w \in Workers : request'[w] \in {request[w], Idle}
  PROVE  IInv'
<1>1. /\ HistoriesGrow
      /\ reviews' \in [Threads -> [Verdicts -> 0 .. MaxReviews]]
      /\ tickets' \in [Threads -> 0 .. MaxTickets]
      /\ ledger' \in Seq(Refunds) /\ escalated' \in SUBSET Escalations
      /\ EscalationsAreOverLimit(escalated)'
      /\ LedgerGoverned'
  BY SameHistories
<1>2. \A w \in Workers : RequestGoverned(request'[w], escalated', reviews')
  BY IdleRequest DEF IInv, histories
<1>3. \A t \in Threads : Governed(t, checkpoint'[t], escalated', reviews')
  BY <1>1, StoreStays
<1>5. \A w \in Workers : request'[w].step # "idle" => request'[w].thread \in Threads
  BY <1>2 DEF RequestGoverned
<1>6. TypeOK'
  BY <1>1, <1>5 DEF IInv, TypeOK
<1> QED
  BY <1>1, <1>2, <1>3, <1>6 DEF IInv

LEMMA FaultCounted ==
  ASSUME IInv, Fault
  PROVE  faults' \in 0 .. MaxFaults
BY ServiceAssumption DEF Fault, IInv, TypeOK

LEMMA NextInvariant == IInv /\ [Next]_vars => IInv'
<1> SUFFICES ASSUME IInv, [Next]_vars PROVE IInv'
  OBVIOUS
<1>1. CASE Crash
  <2>1. request' = [w \in Workers |-> Idle] /\ pending' = {}
    BY <1>1 DEF Crash
  <2>2. request' \in [Workers -> Requests] /\ \A w \in Workers : request'[w] = Idle
    BY <2>1, IdleRequest
  <2> QED
    BY <1>1, <2>1, <2>2, FaultCounted, FaultInvariant DEF Crash
<1>2. ASSUME NEW w \in Workers, Fail(w)
      PROVE  IInv'
  <2>1. Aborts(w)
    BY <1>2 DEF Fail, RouterFails, AnswererFails, DatabaseFails
  <2>2. request' = [request EXCEPT ![w] = Idle]
    BY <2>1 DEF Aborts
  <2>3. /\ request' \in [Workers -> Requests]
        /\ \A v \in Workers : request'[v] \in {request[v], Idle}
    BY <2>2, IdleRequest DEF IInv, TypeOK
  <2>4. pending' \in SUBSET Threads
    BY <2>1 DEF Aborts, IInv, TypeOK
  <2> QED
    BY <2>1, <2>3, <2>4, FaultCounted, FaultInvariant DEF Aborts
<1>3. CASE UNCHANGED vars
  <2>1. /\ UNCHANGED <<checkpoint, pending, request, faults>>
        /\ UNCHANGED histories
    BY <1>3 DEF vars, histories
  <2>2. /\ LedgerGoverned' /\ EscalationsAreOverLimit(escalated)'
        /\ TypeOK'
    BY <2>1, SameHistories DEF IInv, TypeOK, histories
  <2> QED
    BY <2>1, <2>2 DEF IInv, histories
<1>4. CASE Restart
  <2>1. UNCHANGED <<checkpoint, request, histories, faults>> /\ pending' = {}
    BY <1>4 DEF Restart
  <2>2. /\ request' \in [Workers -> Requests]
        /\ \A w \in Workers : request'[w] = request[w]
        /\ faults' \in 0 .. MaxFaults
    BY <2>1 DEF IInv, TypeOK
  <2> QED
    BY <2>1, <2>2, FaultInvariant
<1> QED
  BY <1>1, <1>2, <1>3, <1>4, ArriveInvariant, ProceedInvariant DEF Next

LEMMA SpecInvariant == Spec => []IInv
BY InitInvariant, NextInvariant, PTL DEF Spec

--------------------------------------------------------------------------------
(* The theorems.                                                            *)

(* Every variable of the service keeps its type, so the bounds on tickets,  *)
(* decisions and faults are kept and every request in flight has a thread.  *)
THEOREM TypeCorrect == Spec => []TypeOK
<1>1. IInv => TypeOK
  BY DEF IInv
<1> QED
  BY <1>1, SpecInvariant, PTL

(* No over-limit refund is executed without an escalation of that action    *)
(* and an approval on that thread (auditor_node), and none within the limit *)
(* passes through the auditor, whatever the other workers do and whatever   *)
(* fails.                                                                   *)
THEOREM MoneyIsGoverned == Spec => []OverLimitIsGoverned
<1>1. IInv => OverLimitIsGoverned
  BY DEF IInv, LedgerGoverned
<1> QED
  BY <1>1, SpecInvariant, PTL

(* Every refund executed, execute_approved_refund's unchecked ones too, is  *)
(* of a positive amount to a known account.                                 *)
THEOREM MoneyIsValid == Spec => []RefundsAreValid
<1>1. IInv => RefundsAreValid
  BY DEF IInv, LedgerGoverned
<1> QED
  BY <1>1, SpecInvariant, PTL

(* A thread suspended at the auditor always has an escalated over-limit     *)
(* action for the reviewer to decide (the proposed fields of a snapshot).    *)
THEOREM ReviewableWhenSuspended == Spec => []SuspendedIsReviewable
<1>1. IInv => SuspendedIsReviewable
  <2> SUFFICES ASSUME IInv, NEW t \in Threads, Suspended(t)
               PROVE  /\ checkpoint[t].requiresApproval
                      /\ checkpoint[t].proposed # None
                      /\ RefundRequiresApproval(checkpoint[t].proposed.amount)
                      /\ [thread |-> t, action |-> checkpoint[t].proposed] \in escalated
    BY DEF SuspendedIsReviewable
  <2> DEFINE action == checkpoint[t].proposed
  <2>1. /\ checkpoint[t].requiresApproval /\ action # None
        /\ [thread |-> t, action |-> action] \in escalated
    BY DEF IInv, Governed, Suspended
  <2>2. action \in Actions
    BY <2>1 DEF IInv, TypeOK, Checkpoints
  <2>3. ExecuteRefund(action.user, action.amount) = "requires_human_auditor"
    BY <2>1 DEF IInv, EscalationsAreOverLimit
  <2>4. action.user \in Ids /\ action.amount \in Nat
    BY <2>2 DEF Actions
  <2> HIDE DEF action
  <2>5. RefundRequiresApproval(action.amount)
    BY <2>3, <2>4, ToolAnswers
  <2> QED
    BY <2>1, <2>5 DEF action
<1> QED
  BY <1>1, SpecInvariant, PTL

--------------------------------------------------------------------------------
(* The listing.  A thread gets listed two steps after its checkpoint was    *)
(* read, so the finding of a snapshot in flight must be true for good; it   *)
(* is, because escalations are never undone.                                *)
HasEscalation(t, esc) == \E e \in esc : e.thread = t

ListInv ==
  /\ \A t \in pending : HasEscalation(t, escalated)
  /\ \A w \in Workers : request[w].step = "mark" /\ request[w].awaiting =>
       HasEscalation(request[w].thread, escalated)

(* What a step may do to a request: leave it, or take it to another step    *)
(* than mark, which only Snapshot does.                                     *)
LEMMA OnlySnapshotFinds ==
  ASSUME IInv, NEW w \in Workers, Arrive(w) \/ Proceed(w) \/ Fail(w), ~Snapshot(w)
  PROVE  \A v \in Workers : request'[v].step = "mark" => request'[v] = request[v]
<1>1. request \in [Workers -> Requests]
  BY DEF IInv, TypeOK
<1>2. CASE Arrive(w)
  BY <1>1, <1>2 DEF Arrive, Submit, Review, Get, ListDetails, Idle
<1>3. CASE SubmitLoad(w) \/ UpdateRead(w) \/ UpdatePut(w) \/ ResumeLoad(w) \/ Save(w)
  BY <1>1, <1>3 DEF SubmitLoad, UpdateRead, UpdatePut, ResumeLoad, Save, Requests
<1>4. CASE \E cp : Ran(w, cp)
  BY <1>1, <1>4 DEF Ran, Requests
<1>5. CASE Mark(w)
  <2>1. CASE request' = [request EXCEPT ![w] = Idle]
    BY <1>1, <2>1 DEF Idle
  <2>2. ASSUME NEW u, NEW todo,
               request' = [request EXCEPT ![w] =
                 [Idle EXCEPT !.step = "snapshot", !.thread = u, !.todo = todo]]
        PROVE  \A v \in Workers : request'[v].step = "mark" => request'[v] = request[v]
    BY <1>1, <2>2 DEF Idle
  <2> QED
    BY <1>5, <2>1, <2>2 DEF Mark
<1>6. CASE Fail(w)
  BY <1>1, <1>6 DEF Fail, RouterFails, AnswererFails, DatabaseFails, Aborts, Idle
<1>7. (RunStart(w) \/ RunSupervisor(w) \/ RunBillingAsks(w) \/ RunBillingRefuses(w)
        \/ RunBillingEscalates(w) \/ RunBillingRefunds(w) \/ RunSupport(w) \/ RunAuditor(w))
      => \E cp : Ran(w, cp)
  BY DEF RunStart, RunSupervisor, RunBillingAsks, RunBillingRefuses, RunBillingEscalates,
     RunBillingRefunds, RunSupport, RunAuditor
<1> QED
  BY <1>2, <1>3, <1>4, <1>5, <1>6, <1>7 DEF Proceed

LEMMA EscalatedGrows == [Next]_vars => escalated \subseteq escalated'
BY DEF Next, Restart, Crash, Arrive, Proceed, Fail, Submit, Review, Get, ListDetails,
   SubmitLoad, UpdateRead, UpdatePut, ResumeLoad, Save, RunStart, RunSupervisor,
   RunBillingAsks, RunBillingRefuses, RunBillingEscalates, RunBillingRefunds, RunSupport,
   RunAuditor, Snapshot, Mark,
   RouterFails, AnswererFails, DatabaseFails, Aborts, histories, vars

LEMMA OnlyMarkLists ==
  ASSUME [Next]_vars, NEW t \in pending', t \notin pending
  PROVE  \E w \in Workers : Mark(w) /\ request[w].awaiting /\ request[w].thread = t
BY DEF Next, Restart, Crash, Arrive, Proceed, Fail, Submit, Review, Get, ListDetails,
   SubmitLoad, UpdateRead, UpdatePut, ResumeLoad, Save, RunStart, RunSupervisor,
   RunBillingAsks, RunBillingRefuses, RunBillingEscalates, RunBillingRefunds, RunSupport,
   RunAuditor, Snapshot, Mark, RouterFails, AnswererFails, DatabaseFails, Aborts, vars

LEMMA ListNext == IInv /\ ListInv /\ [Next]_vars => ListInv'
<1> SUFFICES ASSUME IInv, ListInv, [Next]_vars PROVE ListInv'
  OBVIOUS
<1>1. escalated \subseteq escalated'
  BY EscalatedGrows
<1>2. ASSUME NEW t \in pending' PROVE HasEscalation(t, escalated')
  <2>1. HasEscalation(t, escalated)
    BY <1>2, OnlyMarkLists DEF ListInv, Mark
  <2> QED
    BY <1>1, <2>1 DEF HasEscalation
<1>3. ASSUME NEW v \in Workers, request'[v].step = "mark", request'[v].awaiting
      PROVE  HasEscalation(request'[v].thread, escalated')
  <2>1. CASE request'[v] = request[v]
    BY <1>1, <1>3, <2>1 DEF ListInv, HasEscalation
  <2>2. ASSUME NEW w \in Workers, Snapshot(w), request'[v] # request[v]
        PROVE  HasEscalation(request'[v].thread, escalated')
    <3>1. /\ v = w /\ request[w].step = "snapshot"
          /\ request'[w].thread = request[w].thread
          /\ request'[w].awaiting = (checkpoint[request[w].thread].next = "auditor")
          /\ request[w].thread \in Threads
      BY <2>2 DEF Snapshot, IInv, TypeOK, Requests
    <3>2. checkpoint[request[w].thread].next = "auditor"
      BY <1>3, <3>1
    <3>3. [thread |-> request[w].thread,
           action |-> checkpoint[request[w].thread].proposed] \in escalated
      BY <3>1, <3>2 DEF IInv, Governed
    <3> QED
      BY <1>1, <3>1, <3>3 DEF HasEscalation
  <2>3. (\E w \in Workers : Snapshot(w)) \/ request'[v] = request[v]
    <3>1. CASE \E w \in Workers : Arrive(w) \/ Proceed(w) \/ Fail(w)
      BY <1>3, <3>1, OnlySnapshotFinds
    <3>2. CASE Restart \/ Crash \/ UNCHANGED vars
      BY <1>3, <3>2 DEF Restart, Crash, vars, Idle
    <3> QED
      BY <3>1, <3>2 DEF Next
  <2> QED
    BY <2>1, <2>2, <2>3
<1> QED
  BY <1>2, <1>3 DEF ListInv

(* A listed thread has had something to approve, however its snapshots are  *)
(* interleaved with runs, decisions and each other (_snapshot).             *)
THEOREM ListedIsReviewed == Spec => []ListedWasEscalated
<1>1. Init => ListInv
  BY DEF Init, ListInv, Idle
<1>2. ListInv => ListedWasEscalated
  BY DEF ListInv, ListedWasEscalated, HasEscalation
<1> QED
  BY <1>1, <1>2, ListNext, SpecInvariant, PTL DEF Spec
================================================================================
