---------------------------- MODULE WorkflowService ----------------------------
(***************************************************************************)
(* The API process (src/api/main.py, src/workflow_service.py)      *)
(* driving the graph of ResolutionGraph against a durable checkpointer.    *)
(* Endpoints run in a pool of worker threads; a request is a sequence of   *)
(* database reads, node executions and database writes, and the only       *)
(* things requests share are the checkpoints and the set _pending.         *)
(*                                                                         *)
(*   checkpoint, ledger and the other histories survive a crash;           *)
(*   pending and the requests in flight do not.                            *)
(***************************************************************************)
EXTENDS ResolutionGraph

CONSTANTS
  Threads,      (* workflow thread ids, chosen by clients or generated      *)
  Workers,      (* the threads that run the synchronous endpoints           *)
  RouterIds,    (* the user ids the LLM router may name, None for none      *)
  MaxTickets,   (* bound: tickets submitted to one thread                   *)
  MaxReviews,   (* bound: decisions posted for one thread                   *)
  MaxFaults     (* bound: crashes, model failures and database failures     *)

ASSUME ServiceAssumption ==
  /\ RouterIds \subseteq UserIds
  /\ MaxTickets \in Nat /\ MaxReviews \in Nat /\ MaxFaults \in Nat

VARIABLES
  checkpoint,   (* the latest durable checkpoint of each thread             *)
  pending,      (* _pending: the threads listed as awaiting approval        *)
  request,      (* what each worker is doing                                *)
  ledger,       (* history: the refunds that were executed, in order        *)
  escalated,    (* history: the actions billing escalated, with the thread  *)
  tickets,      (* history: tickets submitted to each thread                *)
  reviews,      (* history: decisions posted for each thread                *)
  faults        (* failures so far                                          *)

vars == <<checkpoint, pending, request, ledger, escalated, tickets, reviews, faults>>

Steps == {"load", "run", "save", "update", "put", "resume", "snapshot", "mark"}

(* One request: its step, thread and input, the run's own copy of the       *)
(* checkpoint, the snapshot's finding and the threads still to be listed.   *)
Requests ==
  [step : Steps \cup {"idle"}, thread : Threads \cup {None},
   text : Texts \cup {None}, decision : Verdicts \cup {None},
   cp : Checkpoints, awaiting : BOOLEAN, todo : SUBSET Threads]

Idle == [step |-> "idle", thread |-> None, text |-> None, decision |-> None,
         cp |-> EmptyCheckpoint, awaiting |-> FALSE, todo |-> {}]

(* A refund: who executed it, and for the auditor the decision its own      *)
(* request carried.                                                         *)
Refunds == [thread : Threads, by : {"billing", "auditor"}, user : Ids,
            amount : Nat, review : Verdicts \cup {None}]

Escalations == [thread : Threads, action : Actions]

TypeOK ==
  /\ checkpoint \in [Threads -> Checkpoints]
  /\ pending \in SUBSET Threads
  /\ request \in [Workers -> Requests]
  /\ \A w \in Workers : request[w].step # "idle" => request[w].thread \in Threads
  /\ ledger \in Seq(Refunds)
  /\ escalated \in SUBSET Escalations
  /\ tickets \in [Threads -> 0 .. MaxTickets]
  /\ reviews \in [Threads -> [Verdicts -> 0 .. MaxReviews]]
  /\ faults \in 0 .. MaxFaults

Init ==
  /\ checkpoint = [t \in Threads |-> EmptyCheckpoint]
  /\ pending = {}
  /\ request = [w \in Workers |-> Idle]
  /\ ledger = << >>
  /\ escalated = {}
  /\ tickets = [t \in Threads |-> 0]
  /\ reviews = [t \in Threads |-> [d \in Verdicts |-> 0]]
  /\ faults = 0

histories == <<ledger, escalated, tickets, reviews>>

--------------------------------------------------------------------------------
(* Requests arrive.                                                         *)

(* POST /tickets                                                            *)
Submit(w, t, text) ==
  /\ request[w].step = "idle"
  /\ tickets[t] < MaxTickets
  /\ request' = [request EXCEPT ![w] =
                   [Idle EXCEPT !.step = "load", !.thread = t, !.text = text]]
  /\ tickets' = [tickets EXCEPT ![t] = @ + 1]
  /\ UNCHANGED <<checkpoint, pending, ledger, escalated, reviews, faults>>

(* POST /approve: any thread id is accepted.                                *)
Review(w, t, decision) ==
  /\ request[w].step = "idle"
  /\ reviews[t]["approved"] + reviews[t]["denied"] < MaxReviews
  /\ request' = [request EXCEPT ![w] =
                   [Idle EXCEPT !.step = "update", !.thread = t, !.decision = decision]]
  /\ reviews' = [reviews EXCEPT ![t][decision] = @ + 1]
  /\ UNCHANGED <<checkpoint, pending, ledger, escalated, tickets, faults>>

(* GET /workflows/{thread_id}                                               *)
Get(w, t) ==
  /\ request[w].step = "idle"
  /\ request' = [request EXCEPT ![w] = [Idle EXCEPT !.step = "snapshot", !.thread = t]]
  /\ UNCHANGED <<checkpoint, pending, histories, faults>>

(* GET /pending/details: a snapshot of each thread listed at this moment,   *)
(* in the order of their opaque names.                                      *)
ListDetails(w) ==
  /\ request[w].step = "idle"
  /\ \E t \in pending :
       request' = [request EXCEPT ![w] =
         [Idle EXCEPT !.step = "snapshot", !.thread = t, !.todo = pending \ {t}]]
  /\ UNCHANGED <<checkpoint, pending, histories, faults>>

--------------------------------------------------------------------------------
(* The database steps of a request.                                         *)

(* invoke(input) reads the latest checkpoint and adds the input to it.      *)
SubmitLoad(w) ==
  /\ request[w].step = "load"
  /\ request' = [request EXCEPT ![w].step = "save",
                   ![w].cp = SubmitInput(checkpoint[request[w].thread], request[w].text)]
  /\ UNCHANGED <<checkpoint, pending, histories, faults>>

(* update_state reads the latest checkpoint ...                             *)
UpdateReadStale(w) ==   (* mutant: a decision on record is kept *)
  LET cp == checkpoint[request[w].thread]
      kept == IF cp.decision = None THEN request[w].decision ELSE cp.decision
  IN  /\ request[w].step = "update"
      /\ request' = [request EXCEPT ![w].step = "put", ![w].cp = UpdateState(cp, kept)]
      /\ UNCHANGED <<checkpoint, pending, histories, faults>>

UpdateRead(w) ==
  /\ request[w].step = "update"
  /\ request' = [request EXCEPT ![w].step = "put",
                   ![w].cp = UpdateState(checkpoint[request[w].thread], request[w].decision)]
  /\ UNCHANGED <<checkpoint, pending, histories, faults>>

(* ... and writes it back with the decision.                                *)
UpdatePut(w) ==
  /\ request[w].step = "put"
  /\ checkpoint' = [checkpoint EXCEPT ![request[w].thread] = request[w].cp]
  /\ request' = [request EXCEPT ![w].step = "resume"]
  /\ UNCHANGED <<pending, histories, faults>>

(* invoke(None) continues from the latest checkpoint, past the interrupt.   *)
ResumeLoad(w) ==
  /\ request[w].step = "resume"
  /\ LET cp == checkpoint[request[w].thread]
     IN  request' = [request EXCEPT ![w].cp = cp,
                       ![w].step = IF cp.next = "end" THEN "snapshot" ELSE "run"]
  /\ UNCHANGED <<checkpoint, pending, histories, faults>>

(* A superstep's checkpoint becomes the latest one.  The run goes on until  *)
(* there is no next task or the next task is the auditor.                   *)
Save(w) ==
  /\ request[w].step = "save"
  /\ checkpoint' = [checkpoint EXCEPT ![request[w].thread] = request[w].cp]
  /\ request' = [request EXCEPT ![w].step =
                   IF request[w].cp.next \in {"end", "auditor"} THEN "snapshot" ELSE "run"]
  /\ UNCHANGED <<pending, histories, faults>>

--------------------------------------------------------------------------------
(* The nodes.  Each runs on the run's own copy and is saved by Save.        *)

Runs(w, node) == request[w].step = "run" /\ request[w].cp.next = node

Ran(w, cp) == request' = [request EXCEPT ![w].step = "save", ![w].cp = cp]

Refunded(w, by, action, review) ==
  ledger' = Append(ledger, [thread |-> request[w].thread, by |-> by,
                            user |-> action.user, amount |-> action.amount,
                            review |-> review])

RunStart(w) ==
  /\ Runs(w, "start")
  /\ Ran(w, Start(request[w].cp))
  /\ UNCHANGED <<checkpoint, pending, histories, faults>>

(* Whatever the text, the model may answer any intent and name any account. *)
RunSupervisor(w) ==
  /\ Runs(w, "supervisor")
  /\ \E intent \in Intents, id \in RouterIds :
       Ran(w, Supervisor(request[w].cp, intent, id))
  /\ UNCHANGED <<checkpoint, pending, histories, faults>>

RunBillingAsks(w) ==
  /\ Runs(w, "billing")
  /\ BillingIncomplete(request[w].cp)
  /\ Ran(w, BillingAsks(request[w].cp))
  /\ UNCHANGED <<checkpoint, pending, histories, faults>>

RunBillingRefuses(w) ==
  /\ Runs(w, "billing")
  /\ ~BillingIncomplete(request[w].cp)
  /\ BillingResult(request[w].cp) \in {"invalid_amount", "user_not_found"}
  /\ Ran(w, BillingRefuses(request[w].cp))
  /\ UNCHANGED <<checkpoint, pending, histories, faults>>

RunBillingEscalates(w) ==
  /\ Runs(w, "billing")
  /\ ~BillingIncomplete(request[w].cp)
  /\ BillingResult(request[w].cp) = "requires_human_auditor"
  /\ Ran(w, BillingEscalates(request[w].cp))
  /\ escalated' = escalated \cup
       {[thread |-> request[w].thread, action |-> BillingEscalates(request[w].cp).proposed]}
  /\ UNCHANGED <<checkpoint, pending, ledger, tickets, reviews, faults>>

(* The refund is executed here; the run records it when it is saved.        *)
RunBillingRefunds(w) ==
  /\ Runs(w, "billing")
  /\ ~BillingIncomplete(request[w].cp)
  /\ BillingResult(request[w].cp) = "success"
  /\ Ran(w, BillingRefunds(request[w].cp))
  /\ Refunded(w, "billing",
              [user |-> request[w].cp.user, amount |-> BillingAmount(request[w].cp)], None)
  /\ UNCHANGED <<checkpoint, pending, escalated, tickets, reviews, faults>>

RunSupport(w) ==
  /\ Runs(w, "support")
  /\ Ran(w, Support(request[w].cp))
  /\ UNCHANGED <<checkpoint, pending, histories, faults>>

RunAuditor(w) ==
  /\ Runs(w, "auditor")
  /\ Ran(w, Auditor(request[w].cp))
  /\ IF AuditorPays(request[w].cp)
     THEN Refunded(w, "auditor", request[w].cp.proposed, request[w].decision)
     ELSE ledger' = ledger
  /\ UNCHANGED <<checkpoint, pending, escalated, tickets, reviews, faults>>

--------------------------------------------------------------------------------
(* Mutant: a run that is merely unfinished counts as awaiting approval.     *)
SnapshotUnfinished(w) ==
  /\ request[w].step = "snapshot"
  /\ request' = [request EXCEPT ![w].step = "mark", ![w].cp = EmptyCheckpoint,
                   ![w].awaiting = checkpoint[request[w].thread].next # "end"]
  /\ UNCHANGED <<checkpoint, pending, histories, faults>>

(* Every answer ends with _snapshot: it reads the thread ...                *)
Snapshot(w) ==
  /\ request[w].step = "snapshot"
  /\ request' = [request EXCEPT ![w].step = "mark", ![w].cp = EmptyCheckpoint,
                   ![w].awaiting = checkpoint[request[w].thread].next = "auditor"]
  /\ UNCHANGED <<checkpoint, pending, histories, faults>>

(* Mutant: a thread that is no longer suspended stays listed.               *)
MarkOnlyAdds(w) ==
  /\ request[w].step = "mark"
  /\ pending' = IF request[w].awaiting THEN pending \cup {request[w].thread} ELSE pending
  /\ request' = [request EXCEPT ![w] = Idle]
  /\ UNCHANGED <<checkpoint, histories, faults>>

(* ... and lists or unlists it, then goes on to the next thread to list.    *)
Mark(w) ==
  LET t == request[w].thread
      todo == request[w].todo
  IN  /\ request[w].step = "mark"
      /\ pending' = IF request[w].awaiting THEN pending \cup {t} ELSE pending \ {t}
      /\ \/ /\ todo = {}
            /\ request' = [request EXCEPT ![w] = Idle]
         \/ \E u \in todo :
              request' = [request EXCEPT ![w] =
                [Idle EXCEPT !.step = "snapshot", !.thread = u, !.todo = todo \ {u}]]
      /\ UNCHANGED <<checkpoint, histories, faults>>

--------------------------------------------------------------------------------
(* Failures.                                                                *)

Fault == faults < MaxFaults /\ faults' = faults + 1

(* An exception leaves the endpoint: the client gets an error, the rest of  *)
(* the request, its snapshot included, does not happen.                     *)
Aborts(w) ==
  /\ Fault
  /\ request' = [request EXCEPT ![w] = Idle]
  /\ UNCHANGED <<checkpoint, pending, histories>>

(* The router raises in the supervisor ...                                  *)
RouterFails(w) == Runs(w, "supervisor") /\ Aborts(w)

(* ... or the answerer in support.                                          *)
AnswererFails(w) == Runs(w, "support") /\ Aborts(w)

(* A database call of the request raises.                                   *)
DatabaseFails(w) ==
  /\ request[w].step \in {"load", "save", "update", "put", "resume", "snapshot"}
  /\ Aborts(w)

(* The idle process is stopped and started again: _pending is gone.         *)
Restart ==
  /\ \A w \in Workers : request[w].step = "idle"
  /\ pending' = {}
  /\ UNCHANGED <<checkpoint, request, histories, faults>>

(* The process dies and restarts: requests and _pending are gone.           *)
Crash ==
  /\ Fault
  /\ request' = [w \in Workers |-> Idle]
  /\ pending' = {}
  /\ UNCHANGED <<checkpoint, histories>>

--------------------------------------------------------------------------------
Arrive(w) ==
  \/ \E t \in Threads, text \in Texts : Submit(w, t, text)
  \/ \E t \in Threads, decision \in Verdicts : Review(w, t, decision)
  \/ \E t \in Threads : Get(w, t)
  \/ ListDetails(w)

Proceed(w) ==
  \/ SubmitLoad(w) \/ UpdateRead(w) \/ UpdatePut(w) \/ ResumeLoad(w) \/ Save(w)
  \/ RunStart(w) \/ RunSupervisor(w) \/ RunBillingAsks(w) \/ RunBillingRefuses(w)
  \/ RunBillingEscalates(w) \/ RunBillingRefunds(w) \/ RunSupport(w) \/ RunAuditor(w)
  \/ Snapshot(w) \/ Mark(w)

Fail(w) == RouterFails(w) \/ AnswererFails(w) \/ DatabaseFails(w)

Next == Restart \/ Crash \/ \E w \in Workers : Arrive(w) \/ Proceed(w) \/ Fail(w)

Spec == Init /\ [][Next]_vars

(* A worker thread that has a request keeps executing it; nothing obliges a *)
(* client to send one.                                                      *)
Fairness == \A w \in Workers : WF_vars(Proceed(w))

FairSpec == Spec /\ Fairness
================================================================================
