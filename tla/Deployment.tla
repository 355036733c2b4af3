------------------------------- MODULE Deployment -------------------------------
(***************************************************************************)
(* The life of the API process around the service of WorkflowService:      *)
(* lifespan and get_service (src/api/main.py), compiled_app (src/graph.py) *)
(* and the audit trail (src/audit/logger.py, GET /audit).  The service     *)
(* runs only while the process serves with a connected database; the trail *)
(* lives in the process, whether or not there is a service.                *)
(*                                                                         *)
(* Serving requests, the shutdown that waits for those in progress, and    *)
(* process death belong to uvicorn and are external.                       *)
(***************************************************************************)
EXTENDS ServiceProperties

CONSTANT MaxStarts   (* bound: starts of the API process                    *)

ASSUME DeploymentAssumption == MaxStarts \in Nat

VARIABLES
  phase,      (* what the process is doing                                  *)
  pool,       (* the connection pool is open                                *)
  service,    (* _service is set: workflow endpoints do not answer 503      *)
  database,   (* the database accepts connections                           *)
  trail,      (* audit_log._records, oldest first                           *)
  forgotten,  (* history: refunds executed before this process started      *)
  starts      (* starts so far                                              *)

lifecycle == <<phase, pool, service, database, starts>>
deployment == <<lifecycle, trail, forgotten>>
allVars == <<vars, deployment>>

Phases == {"down", "opening", "serving", "draining", "closing"}

Statuses == {"rejected", "not_found", "requires_human_auditor", "success",
             "success_after_approval"}

Records == [user : Ids, amount : Nat, status : Statuses]

DeploymentTypeOK ==
  /\ TypeOK
  /\ phase \in Phases
  /\ pool \in BOOLEAN /\ service \in BOOLEAN /\ database \in BOOLEAN
  /\ trail \in Seq(Records)
  /\ forgotten \in 0 .. Len(ledger)
  /\ starts \in 0 .. MaxStarts

DeploymentInit ==
  /\ Init
  /\ phase = "down" /\ pool = FALSE /\ service = FALSE
  /\ database \in BOOLEAN
  /\ trail = << >> /\ forgotten = 0 /\ starts = 0

Accepting == phase = "serving" /\ service

--------------------------------------------------------------------------------
(* Startup.                                                                 *)

(* lifespan: the pool is opened before any connection is made.              *)
StartProcess ==
  /\ phase = "down" /\ starts < MaxStarts
  /\ phase' = "opening" /\ pool' = TRUE /\ starts' = starts + 1
  /\ UNCHANGED <<vars, service, database, trail, forgotten>>

(* Mutant: nothing holds the context manager, which closes its pool.        *)
SetupUnheld ==
  /\ phase = "opening" /\ database
  /\ phase' = "serving" /\ service' = TRUE /\ pool' = FALSE
  /\ UNCHANGED <<vars, database, starts, trail, forgotten>>

(* checkpointer.setup() succeeds and the service is installed.              *)
SetupSucceeds ==
  /\ phase = "opening" /\ database
  /\ phase' = "serving" /\ service' = TRUE
  /\ UNCHANGED <<vars, pool, database, starts, trail, forgotten>>

(* It raises: compiled_app closes the pool, lifespan suppresses the         *)
(* exception and serves without a service.                                  *)
SetupFails ==
  /\ phase = "opening" /\ ~database
  /\ phase' = "serving" /\ pool' = FALSE
  /\ UNCHANGED <<vars, service, database, starts, trail, forgotten>>

DatabaseComesUp ==
  /\ ~database /\ database' = TRUE
  /\ UNCHANGED <<vars, phase, pool, service, starts, trail, forgotten>>

--------------------------------------------------------------------------------
(* The audit trail.                                                         *)

ToolStatus(user, amount) ==
  LET answer == ExecuteRefund(user, amount)
  IN  CASE answer = "invalid_amount" -> "rejected"
        [] answer = "user_not_found" -> "not_found"
        [] OTHER                     -> answer

BillingCallsTool(w) == Runs(w, "billing") /\ ~BillingIncomplete(request[w].cp)

AuditorCallsTool(w) == Runs(w, "auditor") /\ AuditorPays(request[w].cp)

(* Mutant: the newest record goes first.                                    *)
RecordedFirst(user, amount, status) ==
  trail' = <<[user |-> user, amount |-> amount, status |-> status]>> \o trail

Recorded(user, amount, status) ==
  trail' = Append(trail, [user |-> user, amount |-> amount, status |-> status])

(* Mutants: an escalation leaves no record; an approved refund is recorded  *)
(* like an automatic one.                                                   *)
TrailStepEscalationUnrecorded(w) ==
  LET cp == request[w].cp
      status == ToolStatus(cp.user, BillingAmount(cp))
  IN  IF BillingCallsTool(w) /\ status # "requires_human_auditor"
      THEN Recorded(cp.user, BillingAmount(cp), status)
      ELSE IF AuditorCallsTool(w)
      THEN Recorded(cp.proposed.user, cp.proposed.amount, "success_after_approval")
      ELSE UNCHANGED trail

TrailStepUnlabelled(w) ==
  LET cp == request[w].cp
  IN  IF BillingCallsTool(w)
      THEN Recorded(cp.user, BillingAmount(cp), ToolStatus(cp.user, BillingAmount(cp)))
      ELSE IF AuditorCallsTool(w)
      THEN Recorded(cp.proposed.user, cp.proposed.amount, "success")
      ELSE UNCHANGED trail

(* Every call of a refund tool appends one record, in the step that makes   *)
(* the call; nothing else does.                                             *)
TrailStep(w) ==
  LET cp == request[w].cp
  IN  IF BillingCallsTool(w)
      THEN Recorded(cp.user, BillingAmount(cp), ToolStatus(cp.user, BillingAmount(cp)))
      ELSE IF AuditorCallsTool(w)
      THEN Recorded(cp.proposed.user, cp.proposed.amount, "success_after_approval")
      ELSE UNCHANGED trail

(* The records of one user as it was spelled, None for all.                 *)
Matching(records, user) ==
  LET upTo[n \in 0 .. Len(records)] ==
        IF n = 0 THEN << >>
        ELSE IF user = None \/ records[n].user = user
        THEN Append(upTo[n - 1], records[n])
        ELSE upTo[n - 1]
  IN  upTo[Len(records)]

(* Mutant: the first records instead of the last.                           *)
AuditViewOldest(records, user, limit) ==
  LET matching == Matching(records, user)
      upTo == IF limit < Len(matching) THEN limit ELSE Len(matching)
  IN  IF limit > 0 THEN SubSeq(matching, 1, upTo) ELSE matching

(* GET /audit: of the matching records the last limit, or all when the      *)
(* limit is not positive.                                                   *)
AuditView(records, user, limit) ==
  LET matching == Matching(records, user)
      from == Len(matching) - limit + 1
  IN  IF limit > 0 THEN SubSeq(matching, IF from > 1 THEN from ELSE 1, Len(matching))
      ELSE matching

--------------------------------------------------------------------------------
(* Requests, faults and shutdown.                                           *)

(* get_service yields the service ...                                       *)
Admit(w) == Accepting /\ Arrive(w) /\ UNCHANGED deployment

(* ... or answers 503, and nothing happens.                                 *)
Refuse == phase = "serving" /\ ~service /\ UNCHANGED allVars

Execute(w) == Proceed(w) /\ TrailStep(w) /\ UNCHANGED <<lifecycle, forgotten>>

RequestFails(w) == Fail(w) /\ UNCHANGED deployment

(* The server stops accepting and waits for the requests in progress ...    *)
StopAccepting ==
  /\ phase = "serving" /\ starts < MaxStarts
  /\ phase' = "draining"
  /\ UNCHANGED <<vars, pool, service, database, starts, trail, forgotten>>

(* ... then lifespan takes the service away ...                             *)
UnsetService ==
  /\ phase = "draining" /\ Quiet
  /\ phase' = "closing" /\ service' = FALSE
  /\ UNCHANGED <<vars, pool, database, starts, trail, forgotten>>

Gone ==
  /\ phase' = "down" /\ pool' = FALSE /\ service' = FALSE
  /\ trail' = << >> /\ forgotten' = Len(ledger)
  /\ UNCHANGED <<database, starts>>

(* ... and closes the pool, and the process exits.                          *)
ClosePool == phase = "closing" /\ Restart /\ Gone

Die == phase # "down" /\ starts < MaxStarts /\ Crash /\ Gone

DeploymentNext ==
  \/ StartProcess \/ SetupSucceeds \/ SetupFails \/ DatabaseComesUp
  \/ StopAccepting \/ UnsetService \/ ClosePool \/ Die \/ Refuse
  \/ \E w \in Workers : Admit(w) \/ Execute(w) \/ RequestFails(w)

DeploymentSpec == DeploymentInit /\ [][DeploymentNext]_allVars

(* Startup and shutdown, once begun, go on; worker threads execute their    *)
(* requests.  Nothing starts or stops the process, or the database.         *)
DeploymentFairness ==
  /\ WF_allVars(SetupSucceeds \/ SetupFails \/ UnsetService \/ ClosePool)
  /\ \A w \in Workers : WF_allVars(Execute(w))

DeploymentFairSpec == DeploymentSpec /\ DeploymentFairness

--------------------------------------------------------------------------------
(* What the deployment must guarantee.                                      *)

(* A request in progress always has the service and an open pool under it;  *)
(* no shutdown and no failed startup takes them away (the PoolClosed the    *)
(* comment in lifespan warns of).                                           *)
RequestsHavePool == ~Quiet => service /\ pool

PaidStatuses == {"success", "success_after_approval"}

PaidRecord(refund) ==
  [user |-> refund.user, amount |-> refund.amount,
   status |-> IF refund.by = "auditor" THEN "success_after_approval" ELSE "success"]

PaidPositions == {i \in DOMAIN trail : trail[i].status \in PaidStatuses}

(* The trail accounts for the money: its successful records are exactly the *)
(* refunds this process executed, in their order, and it tells those a      *)
(* reviewer approved from the automatic ones.                               *)
TrailAccountsForRefunds ==
  LET rank(i) == Cardinality({j \in PaidPositions : j <= i})
  IN  /\ Cardinality(PaidPositions) = Len(ledger) - forgotten
      /\ \A i \in PaidPositions : trail[i] = PaidRecord(ledger[forgotten + rank(i)])

(* The trail shows that a high-value refund went through a human: until the *)
(* process is restarted, an approved refund is preceded by the record of    *)
(* its escalation, and an automatic one is within the limit.                *)
ApprovalsAreTraceable ==
  starts = 1 => \A j \in DOMAIN trail :
    /\ trail[j].status = "success_after_approval" =>
         \E i \in 1 .. j - 1 : /\ trail[i].status = "requires_human_auditor"
                               /\ trail[i].user = trail[j].user
                               /\ trail[i].amount = trail[j].amount
    /\ trail[j].status = "success" => ~RefundRequiresApproval(trail[j].amount)

(* Money and record move together, and a record stays: as long as the       *)
(* process lives, a step that executes a refund appends its record, no      *)
(* other step adds a record of a refund, and no step touches an older one.  *)
RefundsAreRecorded ==
  [][phase' # "down" =>
       LET record == trail'[Len(trail')]
           refund == ledger'[Len(ledger')]
       IN  \/ UNCHANGED <<trail, ledger>>
           \/ /\ trail' = Append(trail, record)
              /\ \/ record.status \notin PaidStatuses /\ ledger' = ledger
                 \/ ledger' = Append(ledger, refund) /\ record = PaidRecord(refund)]_allVars

(* The view of GET /audit drops a matching record only for being older than *)
(* limit others that match, and shows the rest in the order of the trail;   *)
(* with a limit of zero it drops none.                                      *)
ViewShowsTheNewest ==
  \A user \in Ids \cup {None}, limit \in 0 .. Len(trail) :
    LET view     == AuditView(trail, user, limit)
        matching == {i \in DOMAIN trail : user = None \/ trail[i].user = user}
        rank(i, among) == Cardinality({j \in among : j <= i})
        newest   == {i \in matching :
                       limit = 0 \/ Cardinality({j \in matching : j > i}) < limit}
    IN  /\ Len(view) = Cardinality(newest)
        /\ \A i \in newest : view[rank(i, newest)] = trail[i]

(* Between requests GET /pending lists exactly the suspended threads, but   *)
(* for one thread per request that failed before its snapshot, until a      *)
(* restart loses the set.                                                   *)
ListingIsExact ==
  starts <= 1 /\ phase # "down" /\ Quiet =>
    LET suspended == {t \in Threads : Suspended(t)}
    IN  Cardinality((pending \ suspended) \cup (suspended \ pending)) <= faults

(* A shutdown ends: no request in progress keeps it waiting forever.        *)
ShutdownCompletes == phase = "draining" ~> phase = "down"

(* The workflow endpoints answer 503 only until a database is available.    *)
ServiceBecomesAvailable ==
  (phase = "serving" /\ database) ~> (service \/ phase # "serving")

(* Every decision the auditor carried out is in the trail: apart from what  *)
(* execute_refund records of billing's calls, the trail has a record for    *)
(* each approval and each denial that was answered.                         *)
DecisionsAreRecorded ==
  LET answered(t) == RepliesOf(checkpoint[t].messages, "approved")
                       \cup RepliesOf(checkpoint[t].messages, "declined")
      ofBilling   == {"rejected", "not_found", "requires_human_auditor", "success"}
  IN  starts = 1 => \A t \in Threads :
        Cardinality(answered(t)) <= Cardinality({i \in DOMAIN trail :
                                                  trail[i].status \notin ofBilling})
================================================================================
