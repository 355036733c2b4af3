---------------------------- MODULE ResolutionGraph ----------------------------
(***************************************************************************)
(* The resolution workflow as a LangGraph state graph (src/graph.py,       *)
(* src/state.py, src/agents): what each node returns, how the edges route, *)
(* and how one checkpoint of a thread follows another.  A checkpoint is    *)
(* the state object plus the runtime's own part of it:                     *)
(*   input  the text waiting in the input channel (None when consumed)     *)
(*   next   the task the next superstep runs, "end" when there is none     *)
(*   last   the node that ran or was discarded last, None before any       *)
(* Every operator is a function of a checkpoint; WorkflowService runs them.*)
(***************************************************************************)
EXTENDS Governance, Sequences

CONSTANTS
  Texts,            (* the texts of the tickets                             *)
  NoText,           (* the empty string: no ticket text yet                 *)
  ExtractAmount,    (* the amount extract_amount reads in each text         *)
  ExtractUserId,    (* the account id extract_user_id reads in each text    *)
  None

Amounts  == Nat \cup {None}
UserIds  == Ids \cup {None}
Intents  == {"billing", "support", "unknown"}
Nodes    == {"start", "supervisor", "billing", "support", "auditor"}
Assignees == {"supervisor", "billing", "support", "auditor"}
Verdicts == {"approved", "denied"}
Actions  == [user : Ids, amount : Nat]

ASSUME GraphAssumption ==
  /\ NoText \notin Texts
  /\ ExtractAmount \in [Texts \cup {NoText} -> Amounts]
  /\ ExtractUserId \in [Texts \cup {NoText} -> UserIds]
  /\ ExtractAmount[NoText] = None /\ ExtractUserId[NoText] = None
  /\ None \notin Ids \cup Nat \cup Texts \cup {NoText}
  /\ None \notin Actions \cup Verdicts \cup Nodes

(* The conversation: a ticket, or a reply named for the branch that wrote it. *)
Human(text) == [role |-> "human", text |-> text]
AI(reply)   == [role |-> "ai", text |-> reply]

Replies == {"which_account", "how_much", "invalid_amount", "user_not_found",
            "escalated", "refunded", "answered", "approved", "declined"}
Entries == [role : {"human"}, text : Texts] \cup [role : {"ai"}, text : Replies]

Checkpoints ==
  [messages : Seq(Entries), assignee : Assignees, intent : Intents,
   user : UserIds, proposed : Actions \cup {None}, requiresApproval : BOOLEAN,
   decision : Verdicts \cup {None}, input : Texts \cup {None},
   next : Nodes \cup {"end"}, last : Nodes \cup {None}]

(* A thread nobody has written: every channel reads its default.            *)
EmptyCheckpoint ==
  [messages |-> << >>, assignee |-> "supervisor", intent |-> "unknown",
   user |-> None, proposed |-> None, requiresApproval |-> FALSE,
   decision |-> None, input |-> None, next |-> "end", last |-> None]

(* The text every node works on: the last human message, "" without one.    *)
HumanPositions(messages) == {i \in DOMAIN messages : messages[i].role = "human"}

LatestText(messages) ==
  LET latest == {i \in HumanPositions(messages) :
                   \A j \in HumanPositions(messages) : j <= i}
  IN  IF latest = {} THEN NoText ELSE messages[CHOOSE i \in latest : TRUE].text

--------------------------------------------------------------------------------
(* The edges.                                                               *)

(* Mutant: an unknown intent is classified again.                           *)
RouteFromSupervisorAgain(cp) ==
  IF cp.intent \in {"billing", "support"} THEN cp.intent ELSE "supervisor"

RouteFromSupervisor(cp) ==
  IF cp.intent \in {"billing", "support"} THEN cp.intent ELSE "end"

(* Mutants: every billing request is escalated; a decided one no longer is. *)
RouteFromBillingAlways(cp) == "auditor"

RouteFromBillingUndecided(cp) ==
  IF cp.requiresApproval /\ cp.decision = None THEN "auditor" ELSE "end"

RouteFromBilling(cp) == IF cp.requiresApproval THEN "auditor" ELSE "end"

(* Mutant: the auditor's edge leads back to the supervisor.                 *)
RouteReturns(node, cp) ==
  CASE node \in {"start", "auditor"} -> "supervisor"
    [] node = "supervisor" -> RouteFromSupervisor(cp)
    [] node = "billing"    -> RouteFromBilling(cp)
    [] OTHER               -> "end"

Route(node, cp) ==
  CASE node = "start"      -> "supervisor"
    [] node = "supervisor" -> RouteFromSupervisor(cp)
    [] node = "billing"    -> RouteFromBilling(cp)
    [] OTHER               -> "end"

(* A superstep ends: the node's writes are in cp and its edges are taken.   *)
Advance(node, cp) == [cp EXCEPT !.next = Route(node, cp), !.last = node]

(* add_messages: a reply is appended to the conversation.                   *)
Reply(cp, reply) == Append(cp.messages, AI(reply))

--------------------------------------------------------------------------------
(* The input of a new ticket: it goes to the input channel of the thread's  *)
(* latest checkpoint, and the task that was waiting there, whatever it is,  *)
(* is discarded.                                                            *)
SubmitInput(cp, text) ==
  [cp EXCEPT !.input = text, !.next = "start",
             !.last = IF cp.next = "end" THEN cp.last ELSE cp.next]

(* The entry superstep moves the input into the conversation.               *)
StartOverwrites(cp) ==   (* mutant: no reducer on the messages *)
  Advance("start", [cp EXCEPT !.messages = <<Human(cp.input)>>, !.input = None])

Start(cp) ==
  Advance("start", [cp EXCEPT !.messages = Append(cp.messages, Human(cp.input)),
                              !.input = None])

(* The supervisor writes what the router answered, and falls back on the    *)
(* text's own account id when the router names none.                        *)
ClassifiedUser(cp, routerId) ==
  IF routerId # None THEN routerId ELSE ExtractUserId[LatestText(cp.messages)]

SupervisorAssigns(cp, intent, routerId) ==   (* mutant: "unknown" is an assignee *)
  Advance("supervisor",
          [cp EXCEPT !.intent = intent,
                     !.user = ClassifiedUser(cp, routerId),
                     !.assignee = intent])

Supervisor(cp, intent, routerId) ==
  Advance("supervisor",
          [cp EXCEPT !.intent = intent,
                     !.user = ClassifiedUser(cp, routerId),
                     !.assignee = IF intent = "unknown" THEN "supervisor" ELSE intent])

(* Billing's three kinds of return.  Only an escalation writes the          *)
(* governance fields; every other return leaves them as they were.          *)
BillingAmount(cp) == ExtractAmount[LatestText(cp.messages)]

BillingIncomplete(cp) == cp.user = None \/ BillingAmount(cp) = None

BillingResult(cp) == ExecuteRefund(cp.user, BillingAmount(cp))

BillingReplies(cp, reply) ==
  Advance("billing", [cp EXCEPT !.messages = Reply(cp, reply), !.assignee = "billing"])

BillingAsks(cp) ==
  BillingReplies(cp, IF cp.user = None THEN "which_account" ELSE "how_much")

BillingRefuses(cp) == BillingReplies(cp, BillingResult(cp))

BillingRefunds(cp) == BillingReplies(cp, "refunded")

BillingEscalatesAsPaid(cp) ==   (* mutant: the reply claims the refund *)
  Advance("billing",
          [cp EXCEPT !.messages = Reply(cp, "refunded"), !.assignee = "auditor",
                     !.proposed = [user |-> cp.user, amount |-> BillingAmount(cp)],
                     !.requiresApproval = TRUE])

BillingEscalates(cp) ==
  Advance("billing",
          [cp EXCEPT !.messages = Reply(cp, "escalated"), !.assignee = "auditor",
                     !.proposed = [user |-> cp.user, amount |-> BillingAmount(cp)],
                     !.requiresApproval = TRUE])

Support(cp) ==
  Advance("support", [cp EXCEPT !.messages = Reply(cp, "answered"), !.assignee = "support"])

(* The auditor carries out the decision on record, or leaves the state      *)
(* untouched when there is none it can act on.                              *)
AuditorPaysAnyway(cp) == cp.proposed # None   (* mutant: the decision is ignored *)

AuditorPays(cp) == cp.decision = "approved" /\ cp.proposed # None

(* Mutants: the flag is not reset; the replies are swapped; a payment is    *)
(* not recorded; the proposal is withdrawn with the flag.                   *)
AuditorKeepsFlag(cp) ==
  LET closed(reply) == [cp EXCEPT !.messages = Reply(cp, reply), !.assignee = "auditor"]
  IN  Advance("auditor", IF AuditorPays(cp) THEN closed("approved") ELSE closed("declined"))

AuditorSwaps(cp) ==
  LET closed(reply) == [cp EXCEPT !.messages = Reply(cp, reply), !.assignee = "auditor",
                                  !.requiresApproval = FALSE]
  IN  Advance("auditor", IF AuditorPays(cp) THEN closed("declined") ELSE closed("approved"))

AuditorForgets(cp) ==
  Advance("auditor", [cp EXCEPT !.assignee = "auditor", !.requiresApproval = FALSE])

AuditorWithdraws(cp) ==
  LET closed(reply) == [cp EXCEPT !.messages = Reply(cp, reply), !.assignee = "auditor",
                                  !.requiresApproval = FALSE, !.proposed = None]
  IN  Advance("auditor", IF AuditorPays(cp) THEN closed("approved") ELSE closed("declined"))

Auditor(cp) ==
  LET closed(reply) == [cp EXCEPT !.messages = Reply(cp, reply), !.assignee = "auditor",
                                  !.requiresApproval = FALSE]
  IN  Advance("auditor",
              IF AuditorPays(cp) THEN closed("approved")
              ELSE IF cp.decision = "denied" THEN closed("declined")
              ELSE [cp EXCEPT !.assignee = "auditor"])

(* Mutant: the write counts as the entry's, and the graph runs again.       *)
UpdateStateRestarts(cp, decision) ==
  [cp EXCEPT !.decision = decision, !.input = None, !.next = Route("start", cp)]

(* update_state writes the decision as if the last node had returned it:    *)
(* the waiting task and input are dropped and that node's edges run again.  *)
UpdateState(cp, decision) ==
  LET written == [cp EXCEPT !.decision = decision, !.input = None]
  IN  [written EXCEPT !.next = Route(IF cp.last = None THEN "start" ELSE cp.last, written)]
================================================================================
