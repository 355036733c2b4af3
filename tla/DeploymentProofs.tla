---------------------------- MODULE DeploymentProofs ----------------------------
(***************************************************************************)
(* The deployment runs the service and nothing but the service: each of    *)
(* its steps is a step of WorkflowService or leaves it alone.  What        *)
(* ServiceProofs proves of the service therefore holds of the deployed     *)
(* one, through every start, shutdown and death of its process.            *)
(***************************************************************************)
EXTENDS Deployment, ServiceProofs, FiniteSetTheorems

LEMMA DeploymentStep == [DeploymentNext]_allVars => [Next]_vars
<1> SUFFICES ASSUME [DeploymentNext]_allVars PROVE [Next]_vars
  OBVIOUS
<1>1. CASE UNCHANGED vars
  BY <1>1
<1>2. CASE StartProcess \/ SetupSucceeds \/ SetupFails \/ DatabaseComesUp
  BY <1>2 DEF StartProcess, SetupSucceeds, SetupFails, DatabaseComesUp
<1>3. CASE StopAccepting \/ UnsetService \/ Refuse \/ UNCHANGED allVars
  BY <1>3 DEF StopAccepting, UnsetService, Refuse, allVars
<1>4. CASE ClosePool \/ Die
  BY <1>4 DEF ClosePool, Die, Next
<1>5. ASSUME NEW w \in Workers, Admit(w) \/ Execute(w) \/ RequestFails(w)
      PROVE  Next
  BY <1>5 DEF Admit, Execute, RequestFails, Next
<1> QED
  BY <1>1, <1>2, <1>3, <1>4, <1>5 DEF DeploymentNext

(* The deployed process implements the service: its lifecycle and its audit *)
(* trail add no behaviour to checkpoints, requests, listing or money.       *)
THEOREM DeploymentImplementsService == DeploymentSpec => Spec
<1>1. DeploymentInit => Init
  BY DEF DeploymentInit
<1> QED
  BY <1>1, DeploymentStep, PTL DEF DeploymentSpec, Spec

(* So the money the deployed process moves is governed: every refund over   *)
(* the limit was escalated on its thread and an approval was posted there.  *)
THEOREM DeployedMoneyIsGoverned == DeploymentSpec => []OverLimitIsGoverned
BY DeploymentImplementsService, MoneyIsGoverned, PTL

--------------------------------------------------------------------------------
(* Requests and the pool.  RequestsHavePool alone is not inductive: that a  *)
(* service has an open pool depends on the phases in which it can be set.   *)
PoolInv ==
  /\ service => pool /\ phase \in {"serving", "draining"}
  /\ phase = "opening" => pool
  /\ ~Quiet => service

LEMMA InProgress ==
  ASSUME NEW w \in Workers, Proceed(w) \/ Fail(w)
  PROVE  ~Quiet
<1>1. CASE Proceed(w)
  BY <1>1 DEF Proceed, SubmitLoad, UpdateRead, UpdatePut, ResumeLoad, Save, Runs, RunStart,
     RunSupervisor, RunBillingAsks, RunBillingRefuses, RunBillingEscalates,
     RunBillingRefunds, RunSupport, RunAuditor, Snapshot, Mark, Quiet
<1>2. CASE Fail(w)
  BY <1>2 DEF Fail, RouterFails, AnswererFails, DatabaseFails, Runs, Quiet
<1> QED
  BY <1>1, <1>2

LEMMA PoolInit == DeploymentInit => PoolInv
BY DEF DeploymentInit, Init, Idle, Quiet, PoolInv

LEMMA PoolNext == PoolInv /\ [DeploymentNext]_allVars => PoolInv'
<1> SUFFICES ASSUME PoolInv, [DeploymentNext]_allVars PROVE PoolInv'
  OBVIOUS
<1>1. CASE StartProcess
  BY <1>1 DEF StartProcess, PoolInv, Quiet, vars
<1>2. CASE SetupSucceeds
  BY <1>2 DEF SetupSucceeds, PoolInv, Quiet, vars
<1>3. CASE SetupFails
  BY <1>3 DEF SetupFails, PoolInv, Quiet, vars
<1>4. CASE DatabaseComesUp
  BY <1>4 DEF DatabaseComesUp, PoolInv, Quiet, vars
<1>5. CASE StopAccepting
  BY <1>5 DEF StopAccepting, PoolInv, Quiet, vars
<1>6. CASE UnsetService
  BY <1>6 DEF UnsetService, PoolInv, Quiet, vars
<1>7. CASE ClosePool
  BY <1>7 DEF ClosePool, Restart, Gone, PoolInv, Quiet
<1>8. CASE Die
  <2>1. \A w \in Workers : request'[w] = Idle
    BY <1>8 DEF Die, Crash
  <2>2. Quiet'
    BY <2>1 DEF Quiet, Idle
  <2> QED
    BY <1>8, <2>2 DEF Die, Gone, PoolInv
<1>9. CASE Refuse \/ UNCHANGED allVars
  BY <1>9 DEF Refuse, allVars, deployment, lifecycle, vars, PoolInv, Quiet
<1>10. ASSUME NEW w \in Workers, Admit(w)
       PROVE  PoolInv'
  BY <1>10 DEF Admit, Accepting, deployment, lifecycle, PoolInv
<1>11. ASSUME NEW w \in Workers, Execute(w) \/ RequestFails(w)
       PROVE  PoolInv'
  <2>1. UNCHANGED lifecycle
    BY <1>11 DEF Execute, RequestFails, deployment
  <2>2. ~Quiet
    BY <1>11, InProgress DEF Execute, RequestFails
  <2> QED
    BY <2>1, <2>2 DEF lifecycle, PoolInv
<1> QED
  BY <1>1, <1>2, <1>3, <1>4, <1>5, <1>6, <1>7, <1>8, <1>9, <1>10, <1>11 DEF DeploymentNext

(* No request ever runs on a closed pool.                                   *)
THEOREM PoolOutlivesRequests == DeploymentSpec => []RequestsHavePool
<1>1. PoolInv => RequestsHavePool
  BY DEF PoolInv, RequestsHavePool
<1> QED
  BY <1>1, PoolInit, PoolNext, PTL DEF DeploymentSpec

--------------------------------------------------------------------------------
(* The trail and the approvals.  That an approved refund's escalation is    *)
(* on record follows from the service's own invariant, by which what the    *)
(* auditor pays was escalated, once every escalation of the first process   *)
(* is known to be on record.                                                *)
EscalationRecord(action) ==
  [user |-> action.user, amount |-> action.amount, status |-> "requires_human_auditor"]

Traceable(tr) ==
  \A j \in DOMAIN tr :
    /\ tr[j].status = "success_after_approval" =>
         \E i \in 1 .. j - 1 : /\ tr[i].status = "requires_human_auditor"
                               /\ tr[i].user = tr[j].user
                               /\ tr[i].amount = tr[j].amount
    /\ tr[j].status = "success" => ~RefundRequiresApproval(tr[j].amount)

OnRecord(esc, tr) ==
  \A e \in esc : \E i \in DOMAIN tr : tr[i] = EscalationRecord(e.action)

TraceInv ==
  /\ trail \in Seq(Records)
  /\ starts \in Nat
  /\ starts = 0 => escalated = {} /\ phase = "down"
  /\ starts = 1 /\ phase # "down" => OnRecord(escalated, trail)
  /\ starts <= 1 => Traceable(trail)

(* What one more record does to both.                                       *)
LEMMA RecordAppended ==
  ASSUME NEW tr \in Seq(Records), NEW r \in Records, Traceable(tr),
         r.status = "success_after_approval" =>
           \E i \in DOMAIN tr : tr[i] = EscalationRecord(r),
         r.status = "success" => ~RefundRequiresApproval(r.amount)
  PROVE  Traceable(Append(tr, r))
<1> SUFFICES ASSUME NEW j \in DOMAIN Append(tr, r)
             PROVE  /\ Append(tr, r)[j].status = "success_after_approval" =>
                         \E i \in 1 .. j - 1 :
                           /\ Append(tr, r)[i].status = "requires_human_auditor"
                           /\ Append(tr, r)[i].user = Append(tr, r)[j].user
                           /\ Append(tr, r)[i].amount = Append(tr, r)[j].amount
                    /\ Append(tr, r)[j].status = "success" =>
                         ~RefundRequiresApproval(Append(tr, r)[j].amount)
  BY DEF Traceable
<1>1. \A i \in 1 .. Len(tr) : Append(tr, r)[i] = tr[i]
  OBVIOUS
<1>2. Append(tr, r)[Len(tr) + 1] = r
  OBVIOUS
<1>3. CASE j \in 1 .. Len(tr)
  <2>1. \A i \in 1 .. j - 1 : Append(tr, r)[i] = tr[i]
    BY <1>1, <1>3
  <2>2. j \in DOMAIN tr
    BY <1>3
  <2> QED
    BY <1>1, <1>3, <2>1, <2>2 DEF Traceable
<1>4. CASE j = Len(tr) + 1
  <2>1. ASSUME r.status = "success_after_approval"
        PROVE  \E i \in 1 .. j - 1 :
                 /\ Append(tr, r)[i].status = "requires_human_auditor"
                 /\ Append(tr, r)[i].user = r.user
                 /\ Append(tr, r)[i].amount = r.amount
    <3>1. PICK i \in DOMAIN tr : tr[i] = EscalationRecord(r)
      BY <2>1
    <3>2. i \in 1 .. j - 1 /\ Append(tr, r)[i] = EscalationRecord(r)
      BY <1>1, <1>4, <3>1
    <3> QED
      BY <3>2 DEF EscalationRecord
  <2> QED
    BY <1>2, <1>4, <2>1
<1>5. j \in 1 .. Len(tr) \/ j = Len(tr) + 1
  OBVIOUS
<1> QED
  BY <1>3, <1>4, <1>5

LEMMA StaysOnRecord ==
  ASSUME NEW tr \in Seq(Records), NEW r \in Records, NEW esc, OnRecord(esc, tr)
  PROVE  OnRecord(esc, Append(tr, r))
<1> SUFFICES ASSUME NEW e \in esc
             PROVE  \E i \in DOMAIN Append(tr, r) :
                      Append(tr, r)[i] = EscalationRecord(e.action)
  BY DEF OnRecord
<1>1. PICK i \in DOMAIN tr : tr[i] = EscalationRecord(e.action)
  BY DEF OnRecord
<1>2. i \in DOMAIN Append(tr, r) /\ Append(tr, r)[i] = tr[i]
  OBVIOUS
<1> QED
  BY <1>1, <1>2

(* The step that records is the step that escalates.                        *)
LEMMA EscalatingStep ==
  ASSUME IInv, NEW w \in Workers, Proceed(w)
  PROVE  \/ escalated' = escalated
         \/ /\ BillingCallsTool(w)
            /\ BillingResult(request[w].cp) = "requires_human_auditor"
            /\ escalated' = escalated \cup
                 {[thread |-> request[w].thread,
                   action |-> [user |-> request[w].cp.user,
                               amount |-> BillingAmount(request[w].cp)]]}
<1> DEFINE cp == request[w].cp
           t == request[w].thread
           action == [user |-> cp.user, amount |-> BillingAmount(cp)]
<1>1. CASE RunBillingEscalates(w)
  <2>1. /\ BillingCallsTool(w) /\ BillingResult(cp) = "requires_human_auditor"
        /\ escalated' = escalated \cup
             {[thread |-> t, action |-> BillingEscalates(cp).proposed]}
    BY <1>1 DEF RunBillingEscalates, BillingCallsTool
  <2>2. cp \in Checkpoints /\ Governed(t, cp, escalated, reviews)
    BY <1>1 DEF RunBillingEscalates, Runs, IInv, TypeOK, Requests, RequestGoverned
  <2>3. ~BillingIncomplete(cp)
    BY <2>1 DEF BillingCallsTool
  <2>4. Governed(t, cp, escalated \cup {[thread |-> t, action |-> action]}, reviews)
    BY <2>2 DEF Governed
  <2>5. BillingEscalates(cp).proposed = action
    BY <2>2, <2>3, <2>4, BillingEscalatesGoverned
  <2> QED
    BY <2>1, <2>5
<1>2. CASE ~RunBillingEscalates(w)
  <2>1. escalated' = escalated
    BY <1>2 DEF Proceed, SubmitLoad, UpdateRead, UpdatePut, ResumeLoad, Save, RunStart,
       RunSupervisor, RunBillingAsks, RunBillingRefuses, RunBillingRefunds, RunSupport,
       RunAuditor, Snapshot, Mark, histories
  <2> QED
    BY <2>1
<1> QED
  BY <1>1, <1>2

LEMMA ToolStatuses ==
  ASSUME NEW user \in Ids, NEW amount \in Nat
  PROVE  /\ ToolStatus(user, amount) \in Statuses \ {"success_after_approval"}
         /\ ToolStatus(user, amount) = "success" => ~RefundRequiresApproval(amount)
         /\ ExecuteRefund(user, amount) = "requires_human_auditor" =>
              ToolStatus(user, amount) = "requires_human_auditor"
<1>1. ExecuteRefund(user, amount) \in
        {"invalid_amount", "user_not_found", "requires_human_auditor", "success"}
  BY GovernanceAssumption DEF ExecuteRefund, RefundRequiresApproval
<1>2. ToolStatus(user, amount) = "success" => ExecuteRefund(user, amount) = "success"
  BY <1>1 DEF ToolStatus
<1> QED
  BY <1>1, <1>2, ToolAnswers DEF ToolStatus, Statuses

LEMMA TraceExecute ==
  ASSUME IInv, PoolInv, TraceInv, NEW w \in Workers, Execute(w)
  PROVE  TraceInv'
<1> DEFINE cp == request[w].cp
           t == request[w].thread
           action == [user |-> cp.user, amount |-> BillingAmount(cp)]
<1>1. phase # "down" /\ starts # 0
  <2>1. ~Quiet
    BY InProgress DEF Execute
  <2> QED
    BY <2>1 DEF PoolInv, TraceInv
<1>2. UNCHANGED <<phase, starts>> /\ Proceed(w) /\ TrailStep(w)
  BY DEF Execute, lifecycle
<1>3. CASE BillingCallsTool(w)
  <2> DEFINE r == [user |-> cp.user, amount |-> BillingAmount(cp),
                   status |-> ToolStatus(cp.user, BillingAmount(cp))]
  <2>1. trail' = Append(trail, r)
    BY <1>2, <1>3 DEF TrailStep, Recorded
  <2>2. cp \in Checkpoints /\ ~BillingIncomplete(cp)
    BY <1>3 DEF BillingCallsTool, IInv, TypeOK, Requests
  <2>3. cp.user \in Ids /\ BillingAmount(cp) \in Nat
    BY <2>2, BillingActionType DEF Actions
  <2>4. r \in Records /\ r.status # "success_after_approval"
    BY <2>3, ToolStatuses DEF Records
  <2>5. r.status = "success" => ~RefundRequiresApproval(r.amount)
    BY <2>3, ToolStatuses
  <2>6. BillingResult(cp) = "requires_human_auditor" => r = EscalationRecord(action)
    BY <2>3, ToolStatuses DEF BillingResult, EscalationRecord
  <2> HIDE DEF r
  <2>7. trail' \in Seq(Records) /\ Len(trail) + 1 \in DOMAIN trail'
        /\ trail'[Len(trail) + 1] = r
    BY <2>1, <2>4 DEF TraceInv
  <2>8. ASSUME starts = 1 PROVE Traceable(trail')
    BY <2>1, <2>4, <2>5, <2>8, RecordAppended DEF TraceInv
  <2>9. ASSUME starts = 1 PROVE OnRecord(escalated', trail')
    <3>1. OnRecord(escalated, trail')
      BY <1>1, <2>1, <2>4, <2>9, StaysOnRecord DEF TraceInv
    <3>2. CASE escalated' = escalated
      BY <3>1, <3>2
    <3>3. CASE /\ BillingResult(cp) = "requires_human_auditor"
               /\ escalated' = escalated \cup {[thread |-> t, action |-> action]}
      <4>1. trail'[Len(trail) + 1] = EscalationRecord(action)
        BY <2>6, <2>7, <3>3
      <4> QED
        BY <2>7, <3>1, <3>3, <4>1 DEF OnRecord
    <3> QED
      BY <1>2, <3>2, <3>3, EscalatingStep
  <2> QED
    BY <1>1, <1>2, <2>7, <2>8, <2>9 DEF TraceInv
<1>4. CASE ~BillingCallsTool(w) /\ AuditorCallsTool(w)
  <2> DEFINE r == [user |-> cp.proposed.user, amount |-> cp.proposed.amount,
                   status |-> "success_after_approval"]
  <2>1. trail' = Append(trail, r) /\ escalated' = escalated
    BY <1>2, <1>4, EscalatingStep DEF TrailStep, Recorded
  <2>2. cp \in Checkpoints /\ cp.proposed # None /\ Governed(t, cp, escalated, reviews)
    BY <1>4 DEF AuditorCallsTool, AuditorPays, Runs, IInv, TypeOK, Requests, RequestGoverned
  <2>3. cp.proposed \in Actions /\ [thread |-> t, action |-> cp.proposed] \in escalated
    BY <2>2 DEF Checkpoints, Governed
  <2>4. r \in Records
    BY <2>3 DEF Actions, Records, Statuses
  <2>5. EscalationRecord(r) = EscalationRecord(cp.proposed)
    BY DEF EscalationRecord
  <2>6. ASSUME starts = 1 PROVE \E i \in DOMAIN trail : trail[i] = EscalationRecord(r)
    BY <1>1, <2>3, <2>5, <2>6 DEF TraceInv, OnRecord
  <2>7. r.status # "success"
    OBVIOUS
  <2> HIDE DEF r
  <2>8. ASSUME starts = 1 PROVE Traceable(trail') /\ OnRecord(escalated', trail')
    BY <1>1, <2>1, <2>4, <2>6, <2>7, <2>8, RecordAppended, StaysOnRecord DEF TraceInv
  <2> QED
    BY <1>1, <1>2, <2>1, <2>4, <2>8 DEF TraceInv
<1>5. CASE ~BillingCallsTool(w) /\ ~AuditorCallsTool(w)
  <2>1. trail' = trail /\ escalated' = escalated
    BY <1>2, <1>5, EscalatingStep DEF TrailStep
  <2> QED
    BY <1>2, <2>1 DEF TraceInv
<1> QED
  BY <1>3, <1>4, <1>5

LEMMA TraceInit == DeploymentInit => TraceInv
BY DEF DeploymentInit, Init, TraceInv, Traceable, OnRecord

LEMMA TraceNext == IInv /\ PoolInv /\ TraceInv /\ [DeploymentNext]_allVars => TraceInv'
<1> SUFFICES ASSUME IInv, PoolInv, TraceInv, [DeploymentNext]_allVars PROVE TraceInv'
  OBVIOUS
<1>1. CASE StartProcess
  BY <1>1 DEF StartProcess, vars, TraceInv, OnRecord
<1>2. CASE SetupSucceeds \/ SetupFails \/ DatabaseComesUp \/ StopAccepting \/ UnsetService
  <2>1. UNCHANGED <<escalated, trail, starts>> /\ (phase' = "down" <=> phase = "down")
    BY <1>2 DEF SetupSucceeds, SetupFails, DatabaseComesUp, StopAccepting, UnsetService, vars
  <2> QED
    BY <2>1 DEF TraceInv
<1>3. CASE ClosePool \/ Die
  <2>1. trail' = << >> /\ starts' = starts /\ phase' = "down" /\ escalated' = escalated
    BY <1>3 DEF ClosePool, Die, Restart, Crash, Gone, histories
  <2> QED
    BY <2>1 DEF TraceInv, Traceable
<1>4. CASE Refuse \/ UNCHANGED allVars
  BY <1>4 DEF Refuse, allVars, deployment, lifecycle, vars, TraceInv
<1>5. ASSUME NEW w \in Workers, Admit(w) \/ RequestFails(w)
      PROVE  TraceInv'
  <2>1. UNCHANGED deployment /\ UNCHANGED escalated
    BY <1>5 DEF Admit, RequestFails, Arrive, Submit, Review, Get, ListDetails, Fail,
       RouterFails, AnswererFails, DatabaseFails, Aborts, histories
  <2> QED
    BY <2>1 DEF deployment, lifecycle, TraceInv
<1> QED
  BY <1>1, <1>2, <1>3, <1>4, <1>5, TraceExecute DEF DeploymentNext

(* The audit trail shows that high-value refunds went through an            *)
(* escalation (ADR 0010), for as long as the process is not restarted.      *)
THEOREM ApprovalsTraceable == DeploymentSpec => []ApprovalsAreTraceable
<1>1. TraceInv => ApprovalsAreTraceable
  BY DEF TraceInv, Traceable, ApprovalsAreTraceable
<1>2. DeploymentSpec => []IInv
  BY DeploymentImplementsService, SpecInvariant, PTL
<1>3. DeploymentSpec => []PoolInv
  BY PoolInit, PoolNext, PTL DEF DeploymentSpec
<1> QED
  BY <1>1, <1>2, <1>3, TraceInit, TraceNext, PTL DEF DeploymentSpec

LEMMA AppendExtends ==
  ASSUME NEW S, NEW tr \in Seq(S), NEW r
  PROVE  /\ Len(Append(tr, r)) = Len(tr) + 1
         /\ SubSeq(Append(tr, r), 1, Len(tr)) = tr
<1> DEFINE T == S \cup {r}
<1>1. tr \in Seq(T) /\ r \in T
  OBVIOUS
<1>2. Append(tr, r) \in Seq(T) /\ Len(Append(tr, r)) = Len(tr) + 1
  BY <1>1
<1> QED
  BY <1>1, <1>2

--------------------------------------------------------------------------------
(* The tool answers "success" exactly when it executes the refund.          *)
LEMMA ToolPays ==
  ASSUME NEW user \in Ids, NEW amount \in Nat
  PROVE  ToolStatus(user, amount) = "success" => ExecuteRefund(user, amount) = "success"
<1>1. ExecuteRefund(user, amount) \in
        {"invalid_amount", "user_not_found", "requires_human_auditor", "success"}
  BY GovernanceAssumption DEF ExecuteRefund, RefundRequiresApproval
<1> QED
  BY <1>1 DEF ToolStatus

(* A request about to run a node can only take that node's step.            *)
LEMMA BillingRuns ==
  ASSUME NEW w \in Workers, Proceed(w), Runs(w, "billing"),
         ~BillingIncomplete(request[w].cp), BillingResult(request[w].cp) = "success"
  PROVE  RunBillingRefunds(w)
BY DEF Proceed, SubmitLoad, UpdateRead, UpdatePut, ResumeLoad, Save, RunStart,
   RunSupervisor, RunBillingAsks, RunBillingRefuses, RunBillingEscalates, RunSupport,
   RunAuditor, Snapshot, Mark, Runs

LEMMA AuditorRuns ==
  ASSUME NEW w \in Workers, Proceed(w), Runs(w, "auditor")
  PROVE  RunAuditor(w)
BY DEF Proceed, SubmitLoad, UpdateRead, UpdatePut, ResumeLoad, Save, RunStart,
   RunSupervisor, RunBillingAsks, RunBillingRefuses, RunBillingEscalates,
   RunBillingRefunds, RunSupport, Snapshot, Mark, Runs

(* What a step of a request does to the ledger and to the trail.            *)
LEMMA RecordedStep ==
  ASSUME IInv, TraceInv, NEW w \in Workers, Execute(w)
  PROVE  LET record == trail'[Len(trail')]
             refund == ledger'[Len(ledger')]
         IN  \/ UNCHANGED <<trail, ledger>>
             \/ /\ trail' = Append(trail, record)
                /\ \/ record.status \notin PaidStatuses /\ ledger' = ledger
                   \/ ledger' = Append(ledger, refund) /\ record = PaidRecord(refund)
<1> DEFINE cp == request[w].cp
           record == trail'[Len(trail')]
           refund == ledger'[Len(ledger')]
<1>1. Proceed(w) /\ TrailStep(w) /\ trail \in Seq(Records) /\ ledger \in Seq(Refunds)
  BY DEF Execute, TraceInv, IInv, TypeOK
<1>2. \A r : trail' = Append(trail, r) => record = r
  BY <1>1
<1>3. \A r : ledger' = Append(ledger, r) => refund = r
  BY <1>1
<1>4. CASE RunBillingRefunds(w)
  <2>1. BillingCallsTool(w) /\ BillingResult(cp) = "success" /\ ~BillingIncomplete(cp)
    BY <1>4 DEF RunBillingRefunds, BillingCallsTool
  <2>2. cp \in Checkpoints
    BY DEF IInv, TypeOK, Requests
  <2>3. ToolStatus(cp.user, BillingAmount(cp)) = "success"
    BY <2>1 DEF BillingResult, ToolStatus
  <2>4. trail' = Append(trail, [user |-> cp.user, amount |-> BillingAmount(cp),
                                status |-> "success"])
    BY <1>1, <2>1, <2>3 DEF TrailStep, Recorded
  <2>5. ledger' = Append(ledger, [thread |-> request[w].thread, by |-> "billing",
                                  user |-> cp.user, amount |-> BillingAmount(cp),
                                  review |-> None])
    BY <1>4 DEF RunBillingRefunds, Refunded
  <2>6. record = PaidRecord(refund)
    BY <1>2, <1>3, <2>4, <2>5 DEF PaidRecord
  <2> QED
    BY <1>2, <1>3, <2>4, <2>5, <2>6
<1>5. CASE RunAuditor(w) /\ AuditorPays(cp)
  <2>1. ~BillingCallsTool(w) /\ AuditorCallsTool(w)
    BY <1>5 DEF RunAuditor, Runs, BillingCallsTool, AuditorCallsTool
  <2>2. trail' = Append(trail, [user |-> cp.proposed.user, amount |-> cp.proposed.amount,
                                status |-> "success_after_approval"])
    BY <1>1, <2>1 DEF TrailStep, Recorded
  <2>3. ledger' = Append(ledger, [thread |-> request[w].thread, by |-> "auditor",
                                  user |-> cp.proposed.user, amount |-> cp.proposed.amount,
                                  review |-> request[w].decision])
    BY <1>5 DEF RunAuditor, Refunded
  <2>4. record = PaidRecord(refund)
    BY <1>2, <1>3, <2>2, <2>3 DEF PaidRecord
  <2> QED
    BY <1>2, <1>3, <2>2, <2>3, <2>4
<1>6. CASE ~RunBillingRefunds(w) /\ ~(RunAuditor(w) /\ AuditorPays(cp))
  <2>1. ledger' = ledger
    BY <1>1, <1>6 DEF Proceed, SubmitLoad, UpdateRead, UpdatePut, ResumeLoad, Save, RunStart,
       RunSupervisor, RunBillingAsks, RunBillingRefuses, RunBillingEscalates, RunSupport,
       RunAuditor, Snapshot, Mark, histories
  <2>2. CASE BillingCallsTool(w)
    <3>1. BillingResult(cp) # "success"
      BY <1>1, <1>6, <2>2, BillingRuns DEF BillingCallsTool
    <3> DEFINE status == ToolStatus(cp.user, BillingAmount(cp))
    <3>2. cp \in Checkpoints /\ ~BillingIncomplete(cp)
      BY <2>2 DEF BillingCallsTool, IInv, TypeOK, Requests
    <3>3. cp.user \in Ids /\ BillingAmount(cp) \in Nat
      BY <3>2, BillingActionType DEF Actions
    <3>4. status \notin PaidStatuses
      BY <3>1, <3>3, ToolStatuses, ToolPays DEF BillingResult, PaidStatuses
    <3>5. trail' = Append(trail, [user |-> cp.user, amount |-> BillingAmount(cp),
                                  status |-> status])
      BY <1>1, <2>2 DEF TrailStep, Recorded
    <3> HIDE DEF status
    <3>6. record.status \notin PaidStatuses
      BY <1>2, <3>4, <3>5
    <3> QED
      BY <1>2, <2>1, <3>5, <3>6
  <2>3. CASE ~BillingCallsTool(w)
    <3>1. ~AuditorCallsTool(w)
      BY <1>1, <1>6, AuditorRuns DEF AuditorCallsTool
    <3> QED
      BY <1>1, <2>1, <2>3, <3>1 DEF TrailStep
  <2> QED
    BY <2>2, <2>3
<1> QED
  BY <1>4, <1>5, <1>6

(* Money and record move together, on every instance.                       *)
THEOREM EveryRefundIsRecorded == DeploymentSpec => RefundsAreRecorded
<1> DEFINE record == trail'[Len(trail')]
           refund == ledger'[Len(ledger')]
           Kept == phase' # "down" =>
             \/ UNCHANGED <<trail, ledger>>
             \/ /\ trail' = Append(trail, record)
                /\ \/ record.status \notin PaidStatuses /\ ledger' = ledger
                   \/ ledger' = Append(ledger, refund) /\ record = PaidRecord(refund)
<1>1. IInv /\ TraceInv /\ [DeploymentNext]_allVars => [Kept]_allVars
  <2> SUFFICES ASSUME IInv, TraceInv, DeploymentNext PROVE Kept
    OBVIOUS
  <2>1. CASE UNCHANGED <<trail, ledger>>
    BY <2>1
  <2>2. CASE \E w \in Workers : Execute(w)
    BY <2>2, RecordedStep
  <2>3. CASE ClosePool \/ Die
    BY <2>3 DEF ClosePool, Die, Gone
  <2>4. UNCHANGED <<trail, ledger>> \/ (\E w \in Workers : Execute(w)) \/ ClosePool \/ Die
    BY DEF DeploymentNext, StartProcess, SetupSucceeds, SetupFails, DatabaseComesUp,
       StopAccepting, UnsetService, Refuse, Admit, RequestFails, allVars, vars, deployment,
       Arrive, Submit, Review, Get, ListDetails, Fail,
       RouterFails, AnswererFails, DatabaseFails, Aborts,
       histories
  <2> QED
    BY <2>1, <2>2, <2>3, <2>4
<1>2. DeploymentSpec => []IInv
  BY DeploymentImplementsService, SpecInvariant, PTL
<1>3. DeploymentSpec => []PoolInv
  BY PoolInit, PoolNext, PTL DEF DeploymentSpec
<1>4. DeploymentSpec => []TraceInv
  BY <1>2, <1>3, TraceInit, TraceNext, PTL DEF DeploymentSpec
<1> QED
  BY <1>1, <1>2, <1>4, PTL DEF DeploymentSpec, RefundsAreRecorded

LEMMA TraceInvariant == DeploymentSpec => [](IInv /\ PoolInv /\ TraceInv)
<1>1. DeploymentSpec => []IInv
  BY DeploymentImplementsService, SpecInvariant, PTL
<1>2. DeploymentSpec => []PoolInv
  BY PoolInit, PoolNext, PTL DEF DeploymentSpec
<1> QED
  BY <1>1, <1>2, TraceInit, TraceNext, PTL DEF DeploymentSpec

--------------------------------------------------------------------------------
(* The trail as an account.  It holds position by position, and it must be  *)
(* counted: the n-th successful record is the n-th refund since the start.  *)
Logged(record, refund) ==
  /\ trail' = Append(trail, record)
  /\ \/ record.status \notin PaidStatuses /\ ledger' = ledger
     \/ ledger' = Append(ledger, refund) /\ record = PaidRecord(refund)

LEMMA TrailSteps ==
  ASSUME IInv, TraceInv, [DeploymentNext]_allVars
  PROVE  \/ UNCHANGED <<trail, ledger, forgotten>>
         \/ trail' = << >> /\ ledger' = ledger /\ forgotten' = Len(ledger)
         \/ forgotten' = forgotten /\ \E record, refund : Logged(record, refund)
<1>1. CASE StartProcess \/ SetupSucceeds \/ SetupFails \/ DatabaseComesUp \/ StopAccepting
           \/ UnsetService \/ Refuse \/ UNCHANGED allVars
  BY <1>1 DEF StartProcess, SetupSucceeds, SetupFails, DatabaseComesUp, StopAccepting,
     UnsetService, Refuse, allVars, vars, deployment
<1>2. CASE ClosePool \/ Die
  BY <1>2 DEF ClosePool, Die, Restart, Crash, Gone, histories
<1>3. CASE \E w \in Workers : Admit(w) \/ RequestFails(w)
  BY <1>3 DEF Admit, RequestFails, deployment, Arrive, Submit, Review, Get, ListDetails,
     Fail, RouterFails, AnswererFails, DatabaseFails, Aborts, histories
<1>4. ASSUME NEW w \in Workers, Execute(w)
      PROVE  /\ forgotten' = forgotten
             /\ UNCHANGED <<trail, ledger>> \/ \E record, refund : Logged(record, refund)
  <2> DEFINE record == trail'[Len(trail')]
             refund == ledger'[Len(ledger')]
  <2>1. UNCHANGED <<trail, ledger>> \/ Logged(record, refund)
    BY <1>4, RecordedStep DEF Logged
  <2>2. forgotten' = forgotten
    BY <1>4 DEF Execute
  <2> QED
    BY <2>1, <2>2
<1> QED
  BY <1>1, <1>2, <1>3, <1>4 DEF DeploymentNext

LEMMA Appended ==
  ASSUME NEW S, NEW s \in Seq(S), NEW e
  PROVE  /\ DOMAIN Append(s, e) = DOMAIN s \cup {Len(s) + 1} /\ DOMAIN s = 1 .. Len(s)
         /\ Len(Append(s, e)) = Len(s) + 1
         /\ \A i \in 1 .. Len(s) : Append(s, e)[i] = s[i]
         /\ Append(s, e)[Len(s) + 1] = e
<1> DEFINE T == S \cup {e}
<1>1. s \in Seq(T) /\ e \in T
  OBVIOUS
<1> HIDE DEF T
<1> QED
  BY <1>1

AccountInv ==
  /\ ledger \in Seq(Refunds) /\ trail \in Seq(Records)
  /\ forgotten \in 0 .. Len(ledger)
  /\ TrailAccountsForRefunds

Rank(S, i) == Cardinality({j \in S : j <= i})

LEMMA RankBounds ==
  ASSUME NEW n \in Nat, NEW S \in SUBSET (1 .. n), NEW i \in S
  PROVE  IsFiniteSet(S) /\ Rank(S, i) \in 1 .. Cardinality(S) /\ Cardinality(S) \in Nat
<1> DEFINE T == {j \in S : j <= i}
<1>1. IsFiniteSet(1 .. n)
  BY FS_Interval
<1>2. IsFiniteSet(S) /\ Cardinality(S) \in Nat
  BY <1>1, FS_Subset, FS_CardinalityType
<1>3. T \subseteq S /\ i \in T
  OBVIOUS
<1>4. IsFiniteSet(T) /\ Cardinality(T) \in Nat /\ Cardinality(T) <= Cardinality(S)
  BY <1>2, <1>3, FS_Subset, FS_CardinalityType
<1>5. Cardinality(T) # 0
  BY <1>3, <1>4, FS_EmptySet
<1> QED
  BY <1>2, <1>4, <1>5 DEF Rank

LEMMA AccountLogged ==
  ASSUME AccountInv, NEW record, NEW refund, Logged(record, refund),
         ledger' \in Seq(Refunds), trail' \in Seq(Records), forgotten' = forgotten
  PROVE  AccountInv'
<1> DEFINE old == PaidPositions
           last == Len(trail) + 1
<1>1. /\ DOMAIN trail' = DOMAIN trail \cup {last} /\ DOMAIN trail = 1 .. Len(trail)
      /\ \A i \in 1 .. Len(trail) : trail'[i] = trail[i]
      /\ trail'[last] = record
      /\ Len(trail) \in Nat /\ Len(ledger) \in Nat /\ forgotten \in 0 .. Len(ledger)
  BY Appended DEF Logged, AccountInv
<1>2. old \subseteq 1 .. Len(trail) /\ old \in SUBSET (1 .. Len(trail))
  BY <1>1 DEF PaidPositions
<1>3. IsFiniteSet(old) /\ Cardinality(old) \in Nat
  <2>1. IsFiniteSet(1 .. Len(trail))
    BY <1>1, FS_Interval
  <2> QED
    BY <1>2, <2>1, FS_Subset, FS_CardinalityType
<1>4. /\ Cardinality(old) = Len(ledger) - forgotten
      /\ \A i \in old : trail[i] = PaidRecord(ledger[forgotten + Rank(old, i)])
  BY DEF AccountInv, TrailAccountsForRefunds, Rank
<1>5. CASE record.status \notin PaidStatuses /\ ledger' = ledger
  <2>1. PaidPositions' = old
    BY <1>1, <1>5 DEF PaidPositions
  <2>2. \A i \in old : trail'[i] = trail[i]
    BY <1>1, <1>2
  <2> QED
    BY <1>1, <1>4, <1>5, <2>1, <2>2 DEF AccountInv, TrailAccountsForRefunds, Rank
<1>6. CASE ledger' = Append(ledger, refund) /\ record = PaidRecord(refund)
  <2> DEFINE new == old \cup {last}
  <2>1. /\ Len(ledger') = Len(ledger) + 1 /\ ledger'[Len(ledger) + 1] = refund
        /\ \A k \in 1 .. Len(ledger) : ledger'[k] = ledger[k]
    BY <1>6, Appended DEF AccountInv
  <2>2. record.status \in PaidStatuses
    BY <1>6 DEF PaidRecord, PaidStatuses
  <2>3. PaidPositions' = new
    BY <1>1, <2>2 DEF PaidPositions
  <2>4. last \notin old
    BY <1>1, <1>2
  <2>5. Cardinality(new) = Cardinality(old) + 1
    BY <1>3, <2>4, FS_AddElement
  <2>6. ASSUME NEW i \in old
        PROVE  trail'[i] = PaidRecord(ledger'[forgotten + Rank(new, i)])
    <3>1. Rank(new, i) = Rank(old, i)
      <4>1. {j \in new : j <= i} = {j \in old : j <= i}
        BY <1>1, <1>2
      <4> QED
        BY <4>1 DEF Rank
    <3>2. Rank(old, i) \in 1 .. Cardinality(old)
      BY <1>1, <1>2, RankBounds
    <3>3. forgotten + Rank(old, i) \in 1 .. Len(ledger)
      BY <1>1, <1>3, <1>4, <3>2
    <3>4. trail'[i] = trail[i]
      BY <1>1, <1>2
    <3> QED
      BY <1>4, <2>1, <3>1, <3>3, <3>4
  <2>7. trail'[last] = PaidRecord(ledger'[forgotten + Rank(new, last)])
    <3>0. ASSUME NEW j \in new PROVE j <= last
      <4>1. j \in 1 .. Len(trail) \/ j = last
        BY <1>2
      <4> QED
        BY <1>1, <4>1
    <3>1. {j \in new : j <= last} = new
      BY <3>0
    <3>2. Rank(new, last) = Cardinality(old) + 1
      BY <2>5, <3>1 DEF Rank
    <3>3. forgotten + Rank(new, last) = Len(ledger) + 1
      BY <1>1, <1>3, <1>4, <3>2
    <3> QED
      BY <1>1, <1>6, <2>1, <3>3
  <2>8. Cardinality(new) = Len(ledger') - forgotten /\ forgotten \in 0 .. Len(ledger')
    BY <1>1, <1>3, <1>4, <2>1, <2>5
  <2>9. \A i \in new : trail'[i] = PaidRecord(ledger'[forgotten + Rank(new, i)])
    BY <2>6, <2>7
  <2> QED
    BY <2>3, <2>8, <2>9 DEF AccountInv, TrailAccountsForRefunds, Rank
<1> QED
  BY <1>5, <1>6 DEF Logged

LEMMA AccountEmpty ==
  ASSUME trail = << >>, ledger \in Seq(Refunds), forgotten = Len(ledger)
  PROVE  AccountInv
<1>1. PaidPositions = {}
  BY DEF PaidPositions
<1>2. Cardinality({}) = 0
  BY FS_EmptySet, Zenon
<1>3. Len(ledger) \in Nat /\ trail \in Seq(Records)
  OBVIOUS
<1> QED
  BY <1>1, <1>2, <1>3 DEF AccountInv, TrailAccountsForRefunds

LEMMA AccountInvariant == DeploymentSpec => []AccountInv
<1>1. DeploymentInit => AccountInv
  BY AccountEmpty DEF DeploymentInit, Init
<1>2. ASSUME IInv, IInv', TraceInv, TraceInv', AccountInv, [DeploymentNext]_allVars
      PROVE  AccountInv'
  <2>1. ledger' \in Seq(Refunds) /\ trail' \in Seq(Records)
    BY <1>2 DEF IInv, TypeOK, TraceInv
  <2>2. CASE UNCHANGED <<trail, ledger, forgotten>>
    BY <1>2, <2>2 DEF AccountInv, TrailAccountsForRefunds, PaidPositions
  <2>3. CASE trail' = << >> /\ ledger' = ledger /\ forgotten' = Len(ledger)
    <3>1. trail' = << >> /\ ledger' \in Seq(Refunds) /\ forgotten' = Len(ledger')
      BY <2>1, <2>3
    <3>2. PaidPositions' = {}
      BY <3>1 DEF PaidPositions
    <3>3. Cardinality({}) = 0
      BY FS_EmptySet, Zenon
    <3>4. Len(ledger') \in Nat
      BY <3>1
    <3> QED
      BY <2>1, <3>1, <3>2, <3>3, <3>4 DEF AccountInv, TrailAccountsForRefunds
  <2>4. CASE forgotten' = forgotten /\ \E record, refund : Logged(record, refund)
    BY <1>2, <2>1, <2>4, AccountLogged
  <2> QED
    BY <1>2, <2>2, <2>3, <2>4, TrailSteps
<1>3. IInv /\ IInv' /\ TraceInv /\ TraceInv' /\ AccountInv /\ [DeploymentNext]_allVars
        => AccountInv'
  BY <1>2
<1> QED
  BY <1>1, <1>3, TraceInvariant, PTL DEF DeploymentSpec

(* The trail accounts for every refund of this process and for no other, in *)
(* their order (audit_log.record in execute_refund and                      *)
(* execute_approved_refund), for any number of requests and workers.        *)
THEOREM TrailIsTheAccount == DeploymentSpec => []TrailAccountsForRefunds
<1>1. AccountInv => TrailAccountsForRefunds
  BY DEF AccountInv
<1> QED
  BY <1>1, AccountInvariant, PTL

(* Types: the process keeps within its phases and forgets no more refunds   *)
(* than were executed.                                                      *)
THEOREM DeploymentTypeCorrect == DeploymentSpec => []DeploymentTypeOK
<1> DEFINE LifeOK == /\ phase \in Phases
                     /\ pool \in BOOLEAN /\ service \in BOOLEAN /\ database \in BOOLEAN
                     /\ starts \in 0 .. MaxStarts
<1>1. DeploymentInit => LifeOK
  <2>1. ASSUME DeploymentInit PROVE pool \in BOOLEAN /\ service \in BOOLEAN
    BY <2>1, Zenon DEF DeploymentInit
  <2>2. ASSUME DeploymentInit
        PROVE  phase \in Phases /\ database \in BOOLEAN /\ starts \in 0 .. MaxStarts
    BY <2>2, DeploymentAssumption DEF DeploymentInit, Phases
  <2> QED
    BY <2>1, <2>2
<1>2. LifeOK /\ [DeploymentNext]_allVars => LifeOK'
  <2> SUFFICES ASSUME LifeOK, [DeploymentNext]_allVars PROVE LifeOK'
    OBVIOUS
  <2>1. CASE StartProcess
    BY <2>1, DeploymentAssumption DEF StartProcess, Phases
  <2>2. CASE SetupSucceeds \/ SetupFails \/ DatabaseComesUp \/ StopAccepting \/ UnsetService
    BY <2>2 DEF SetupSucceeds, SetupFails, DatabaseComesUp, StopAccepting, UnsetService, Phases
  <2>3. CASE ClosePool \/ Die
    BY <2>3 DEF ClosePool, Die, Gone, Phases
  <2>4. CASE UNCHANGED lifecycle
    BY <2>4 DEF lifecycle
  <2> QED
    BY <2>1, <2>2, <2>3, <2>4 DEF DeploymentNext, Refuse, Admit, Execute, RequestFails,
       allVars, deployment
<1>3. IInv /\ AccountInv /\ LifeOK => DeploymentTypeOK
  BY DEF IInv, AccountInv, DeploymentTypeOK
<1>4. DeploymentSpec => []LifeOK
  BY <1>1, <1>2, PTL DEF DeploymentSpec
<1> QED
  BY <1>3, <1>4, TraceInvariant, AccountInvariant, PTL

--------------------------------------------------------------------------------
(* GET /audit.  What a filter returns of a trail is known by induction over *)
(* how the trail came about, a record at a time.                            *)
Positions(records, user) == {i \in DOMAIN records : user = None \/ records[i].user = user}

(* f filters every beginning of the records.                                *)
Filters(records, user, f) ==
  f = [n \in 0 .. Len(records) |->
         IF n = 0 THEN << >>
         ELSE IF user = None \/ records[n].user = user THEN Append(f[n - 1], records[n])
         ELSE f[n - 1]]

(* The records at the positions P, in their order.                          *)
IsPart(part, records, P) ==
  /\ part \in Seq(Records) /\ Len(part) = Cardinality(P)
  /\ \A i \in P : part[Rank(P, i)] = records[i]

(* Every position has a rank, and every rank a position.                    *)
Ranked(P) == \A k \in 1 .. Cardinality(P) : \E i \in P : Rank(P, i) = k

Viewable(records) ==
  \A user \in Ids \cup {None} :
    /\ Ranked(Positions(records, user))
    /\ \E f : Filters(records, user, f)
    /\ \A f : Filters(records, user, f) =>
                IsPart(f[Len(records)], records, Positions(records, user))

LEMMA RankAdded ==
  ASSUME NEW n \in Nat, NEW P \in SUBSET (1 .. n)
  PROVE  /\ IsFiniteSet(P) /\ Cardinality(P) \in Nat
         /\ Cardinality(P \cup {n + 1}) = Cardinality(P) + 1
         /\ Rank(P \cup {n + 1}, n + 1) = Cardinality(P) + 1
         /\ \A i \in P : Rank(P \cup {n + 1}, i) = Rank(P, i)
         /\ Ranked(P) => Ranked(P \cup {n + 1})
<1> DEFINE Q == P \cup {n + 1}
<1>1. IsFiniteSet(1 .. n)
  BY FS_Interval
<1>2. IsFiniteSet(P) /\ Cardinality(P) \in Nat /\ n + 1 \notin P
  <2>1. IsFiniteSet(P)
    BY <1>1, FS_Subset
  <2>2. Cardinality(P) \in Nat
    BY <2>1, FS_CardinalityType
  <2>3. n + 1 \notin P
    OBVIOUS
  <2> QED
    BY <2>1, <2>2, <2>3
<1>3. Cardinality(Q) = Cardinality(P) + 1
  <2> DEFINE x == n + 1
  <2>1. x \notin P
    BY <1>2
  <2> HIDE DEF x
  <2>2. Cardinality(P \cup {x}) = Cardinality(P) + 1
    BY <1>2, <2>1, FS_AddElement
  <2> QED
    BY <2>2 DEF x
<1>4. Rank(Q, n + 1) = Cardinality(P) + 1
  <2>0. ASSUME NEW j \in Q PROVE j <= n + 1
    <3>1. j \in 1 .. n \/ j = n + 1
      OBVIOUS
    <3> QED
      BY <3>1
  <2>1. {j \in Q : j <= n + 1} = Q
    BY <2>0
  <2> QED
    BY <1>3, <2>1 DEF Rank
<1>5. ASSUME NEW i \in P PROVE Rank(Q, i) = Rank(P, i)
  <2>1. {j \in Q : j <= i} = {j \in P : j <= i}
    OBVIOUS
  <2> QED
    BY <2>1 DEF Rank
<1>6. ASSUME Ranked(P), NEW k \in 1 .. Cardinality(Q)
      PROVE  \E i \in Q : Rank(Q, i) = k
  <2>1. CASE k = Cardinality(P) + 1
    BY <1>4, <2>1
  <2>2. CASE k \in 1 .. Cardinality(P)
    BY <1>5, <1>6, <2>2 DEF Ranked
  <2> QED
    BY <1>2, <1>3, <2>1, <2>2
<1> QED
  BY <1>2, <1>3, <1>4, <1>5, <1>6 DEF Ranked

LEMMA ViewableEmpty == Viewable(<< >>)
<1> SUFFICES ASSUME NEW user
             PROVE  /\ Ranked(Positions(<< >>, user))
                    /\ \E f : Filters(<< >>, user, f)
                    /\ \A f : Filters(<< >>, user, f) =>
                                IsPart(f[Len(<< >>)], << >>, Positions(<< >>, user))
  BY DEF Viewable
<1>1. Positions(<< >>, user) = {}
  BY DEF Positions
<1>2. Cardinality({}) = 0
  BY FS_EmptySet, Zenon
<1>3. Ranked({})
  BY <1>2 DEF Ranked
<1>4. Filters(<< >>, user, [n \in 0 .. 0 |-> << >>])
  BY DEF Filters
<1>5. ASSUME NEW f, Filters(<< >>, user, f) PROVE IsPart(f[0], << >>, {})
  <2>1. f[0] = << >>
    BY <1>5 DEF Filters
  <2>2. << >> \in Seq(Records) /\ Len(<< >>) = 0
    OBVIOUS
  <2> QED
    BY <1>2, <2>1, <2>2 DEF IsPart
<1>6. Len(<< >>) = 0
  OBVIOUS
<1> QED
  BY <1>1, <1>3, <1>4, <1>5, <1>6

LEMMA ViewableAppended ==
  ASSUME NEW records \in Seq(Records), NEW record \in Records, Viewable(records)
  PROVE  Viewable(Append(records, record))
<1> DEFINE new == Append(records, record)
<1>1. PICK n \in Nat : n = Len(records)
  OBVIOUS
<1>2. /\ Len(new) = n + 1 /\ DOMAIN new = 1 .. n + 1 /\ DOMAIN records = 1 .. n
      /\ new[n + 1] = record /\ \A i \in 1 .. n : new[i] = records[i]
  BY <1>1
<1> HIDE DEF new
<1> SUFFICES ASSUME NEW user \in Ids \cup {None}
             PROVE  /\ Ranked(Positions(new, user))
                    /\ \E f : Filters(new, user, f)
                    /\ \A f : Filters(new, user, f) =>
                                IsPart(f[Len(new)], new, Positions(new, user))
  BY DEF Viewable, new
<1> DEFINE P == Positions(records, user)
           Q == Positions(new, user)
           is(i) == user = None \/ new[i].user = user
<1>3. P \in SUBSET (1 .. n) /\ Q = IF is(n + 1) THEN P \cup {n + 1} ELSE P
  BY <1>2 DEF Positions
<1>4. /\ Ranked(P)
      /\ \E f : Filters(records, user, f)
      /\ \A f : Filters(records, user, f) => IsPart(f[n], records, P)
  BY <1>1 DEF Viewable
<1>5. ASSUME NEW f
      PROVE  Filters(records, user, f) <=>
               f = [k \in 0 .. n |-> IF k = 0 THEN << >>
                                     ELSE IF is(k) THEN Append(f[k - 1], new[k]) ELSE f[k - 1]]
  BY <1>1, <1>2 DEF Filters
<1>6. ASSUME NEW f
      PROVE  Filters(new, user, f) <=>
               f = [k \in 0 .. n + 1 |-> IF k = 0 THEN << >>
                                         ELSE IF is(k) THEN Append(f[k - 1], new[k]) ELSE f[k - 1]]
  BY <1>2 DEF Filters
<1> HIDE DEF P, Q, is
<1>7. Ranked(Q)
  BY <1>3, <1>4, RankAdded
<1>8. \E f : Filters(new, user, f)
  <2>1. PICK f : Filters(records, user, f)
    BY <1>4
  <2> DEFINE g == [k \in 0 .. n + 1 |->
                     IF k <= n THEN f[k]
                     ELSE IF is(n + 1) THEN Append(f[n], new[n + 1]) ELSE f[n]]
  <2>2. \A k \in 0 .. n :
          f[k] = IF k = 0 THEN << >>
                 ELSE IF is(k) THEN Append(f[k - 1], new[k]) ELSE f[k - 1]
    BY <1>5, <2>1
  <2>3. \A k \in 0 .. n + 1 :
          g[k] = IF k = 0 THEN << >>
                 ELSE IF is(k) THEN Append(g[k - 1], new[k]) ELSE g[k - 1]
    <3> SUFFICES ASSUME NEW k \in 0 .. n + 1
                 PROVE  g[k] = IF k = 0 THEN << >>
                               ELSE IF is(k) THEN Append(g[k - 1], new[k]) ELSE g[k - 1]
      OBVIOUS
    <3>1. CASE k = n + 1
      <4>1. g[k] = IF is(k) THEN Append(f[n], new[k]) ELSE f[n]
        BY <3>1
      <4>2. g[k - 1] = f[n] /\ k # 0
        BY <3>1
      <4> QED
        BY <4>1, <4>2
    <3>2. CASE k \in 1 .. n
      <4>1. g[k] = f[k] /\ g[k - 1] = f[k - 1] /\ k \in 0 .. n /\ k # 0
        BY <3>2
      <4> QED
        BY <2>2, <4>1
    <3>3. CASE k = 0
      <4>1. g[k] = f[0] /\ 0 \in 0 .. n
        BY <3>3
      <4> QED
        BY <2>2, <3>3, <4>1
    <3> QED
      BY <3>1, <3>2, <3>3
  <2>4. g = [k \in 0 .. n + 1 |-> g[k]]
    OBVIOUS
  <2> HIDE DEF g
  <2>5. g = [k \in 0 .. n + 1 |-> IF k = 0 THEN << >>
                                  ELSE IF is(k) THEN Append(g[k - 1], new[k]) ELSE g[k - 1]]
    BY <2>3, <2>4
  <2> QED
    BY <1>6, <2>5
<1>9. ASSUME NEW f, Filters(new, user, f) PROVE IsPart(f[n + 1], new, Q)
  <2> DEFINE g == [k \in 0 .. n |-> f[k]]
  <2>1. \A k \in 0 .. n + 1 :
          f[k] = IF k = 0 THEN << >>
                 ELSE IF is(k) THEN Append(f[k - 1], new[k]) ELSE f[k - 1]
    BY <1>6, <1>9
  <2>2. \A k \in 0 .. n :
          g[k] = IF k = 0 THEN << >>
                 ELSE IF is(k) THEN Append(g[k - 1], new[k]) ELSE g[k - 1]
    <3> SUFFICES ASSUME NEW k \in 0 .. n
                 PROVE  g[k] = IF k = 0 THEN << >>
                               ELSE IF is(k) THEN Append(g[k - 1], new[k]) ELSE g[k - 1]
      OBVIOUS
    <3>1. k \in 0 .. n + 1 /\ g[k] = f[k] /\ (k # 0 => g[k - 1] = f[k - 1])
      OBVIOUS
    <3> QED
      BY <2>1, <3>1
  <2>3. g = [k \in 0 .. n |-> g[k]]
    OBVIOUS
  <2>4. g[n] = f[n]
    OBVIOUS
  <2> HIDE DEF g
  <2>5. g = [k \in 0 .. n |-> IF k = 0 THEN << >>
                              ELSE IF is(k) THEN Append(g[k - 1], new[k]) ELSE g[k - 1]]
    BY <2>2, <2>3
  <2>6. IsPart(f[n], records, P)
    BY <1>4, <1>5, <2>4, <2>5
  <2>7. PICK m \in Seq(Records) : m = f[n]
    BY <2>6 DEF IsPart
  <2>8. Len(m) = Cardinality(P) /\ \A i \in P : m[Rank(P, i)] = records[i]
    BY <2>6, <2>7 DEF IsPart
  <2>9. f[n + 1] = IF is(n + 1) THEN Append(m, record) ELSE m
    <3>1. n + 1 \in 0 .. n + 1 /\ n + 1 # 0 /\ (n + 1) - 1 = n
      OBVIOUS
    <3> QED
      BY <1>2, <2>1, <2>7, <3>1
  <2>10. CASE ~ is(n + 1)
    <3>1. \A i \in P : new[i] = records[i]
      BY <1>2, <1>3
    <3>2. f[n + 1] = m /\ Q = P
      BY <1>3, <2>9, <2>10
    <3> QED
      BY <2>8, <3>1, <3>2 DEF IsPart
  <2>11. CASE is(n + 1)
    <3> DEFINE r == Append(m, record)
    <3>1. /\ r \in Seq(Records) /\ Len(r) = Len(m) + 1 /\ r[Len(m) + 1] = record
          /\ \A i \in 1 .. Len(m) : r[i] = m[i]
      OBVIOUS
    <3> HIDE DEF r
    <3>2. f[n + 1] = r /\ Q = P \cup {n + 1}
      BY <1>3, <2>9, <2>11 DEF r
    <3>3. Len(r) = Cardinality(Q)
      BY <1>3, <2>8, <3>1, <3>2, RankAdded
    <3>4. ASSUME NEW i \in P PROVE r[Rank(Q, i)] = new[i]
      <4>1. Rank(P, i) \in 1 .. Len(m)
        BY <1>3, <2>8, RankBounds
      <4>2. Rank(Q, i) = Rank(P, i)
        BY <1>3, <3>2, RankAdded
      <4>3. new[i] = records[i]
        BY <1>2, <1>3
      <4> QED
        BY <2>8, <3>1, <4>1, <4>2, <4>3
    <3>5. r[Rank(Q, n + 1)] = new[n + 1]
      <4>1. Rank(Q, n + 1) = Len(m) + 1
        BY <1>3, <2>8, <3>2, RankAdded
      <4> QED
        BY <1>2, <3>1, <4>1
    <3> QED
      BY <3>1, <3>2, <3>3, <3>4, <3>5 DEF IsPart
  <2> QED
    BY <2>10, <2>11
<1> QED
  BY <1>2, <1>7, <1>8, <1>9 DEF Q

Newest(P, limit) == {i \in P : Cardinality({j \in P : j > i}) < limit}

Older(P, limit) == IF Cardinality(P) > limit THEN Cardinality(P) - limit ELSE 0

(* The elements of P that fewer than limit others follow are P but for its  *)
(* first older ones.                                                        *)
LEMMA NewestCount ==
  ASSUME NEW n \in Nat, NEW P \in SUBSET (1 .. n), Ranked(P),
         NEW limit \in Nat \ {0}, NEW older \in Nat, older = Older(P, limit)
  PROVE  /\ Cardinality(Newest(P, limit)) = Cardinality(P) - older
         /\ \A i \in Newest(P, limit) :
              /\ Rank(P, i) = older + Rank(Newest(P, limit), i)
              /\ Rank(Newest(P, limit), i) \in 1 .. Cardinality(Newest(P, limit))
<1> DEFINE newest == {i \in P : Cardinality({j \in P : j > i}) < limit}
           first == {i \in P : Rank(P, i) <= older}
<1>0. \A i \in P : i \in Nat
  OBVIOUS
<1>1. IsFiniteSet(P) /\ Cardinality(P) \in Nat
  BY RankAdded
<1>2. PICK m \in Nat : m = Cardinality(P) /\ older = IF m > limit THEN m - limit ELSE 0
  BY <1>1 DEF Older
<1>3. ASSUME NEW i \in P PROVE Rank(P, i) \in 1 .. m
  BY <1>2, RankBounds
<1>4. ASSUME NEW i \in P PROVE Cardinality({j \in P : j > i}) = m - Rank(P, i)
  <2> DEFINE A == {j \in P : j <= i}
             B == {j \in P : j > i}
  <2>1. P \ A = B /\ P \cap A = A
    <3>1. \A j \in P : j > i <=> ~ (j <= i)
      BY <1>0
    <3> QED
      BY <3>1
  <2>2. Cardinality(P \ A) = Cardinality(P) - Cardinality(P \cap A)
    BY <1>1, FS_Difference
  <2> QED
    BY <1>2, <2>1, <2>2 DEF Rank
<1>5. newest = P \ first /\ first \subseteq P
  <2>1. ASSUME NEW i \in P PROVE i \in newest <=> i \notin first
    BY <1>2, <1>3, <1>4
  <2> QED
    BY <2>1
<1>6. ASSUME NEW i \in P, NEW j \in P, i <= j PROVE Rank(P, i) <= Rank(P, j)
  <2> DEFINE A == {x \in P : x <= i}
             B == {x \in P : x <= j}
  <2>1. A \in SUBSET B /\ B \in SUBSET P
    <3>1. \A x \in P : x <= i => x <= j
      BY <1>0, <1>6
    <3> QED
      BY <3>1
  <2>2. IsFiniteSet(B)
    BY <1>1, <2>1, FS_Subset
  <2>3. Cardinality(A) <= Cardinality(B)
    BY <2>1, <2>2, FS_Subset
  <2> QED
    BY <2>3 DEF Rank
<1>7. ASSUME NEW i \in P, NEW j \in P, ~ (i <= j) PROVE Rank(P, j) < Rank(P, i)
  <2> DEFINE A == {x \in P : x <= j}
             B == {x \in P : x <= i}
  <2>1. A \in SUBSET B /\ B \in SUBSET P /\ i \in B /\ i \notin A
    <3>1. (\A x \in P : x <= j => x <= i) /\ i <= i
      BY <1>0, <1>7
    <3> QED
      BY <1>7, <3>1
  <2>2. IsFiniteSet(B)
    BY <1>1, <2>1, FS_Subset
  <2>3. Cardinality(A) <= Cardinality(B) /\ (Cardinality(B) = Cardinality(A) => B = A)
    BY <2>1, <2>2, FS_Subset
  <2>4. Rank(P, j) <= Rank(P, i) /\ Rank(P, j) # Rank(P, i)
    BY <2>1, <2>3 DEF Rank
  <2> QED
    BY <1>3, <2>4
<1>8. Cardinality(first) = older
  <2>1. CASE older = 0
    <3>0. ASSUME NEW i \in P PROVE ~ (Rank(P, i) <= older)
      BY <1>2, <1>3, <2>1
    <3>1. first = {}
      BY <3>0
    <3>2. Cardinality({}) = 0
      BY FS_EmptySet, Zenon
    <3> QED
      BY <2>1, <3>1, <3>2
  <2>2. CASE older # 0
    <3>1. older \in 1 .. Cardinality(P)
      BY <1>2, <2>2
    <3>2. PICK i \in P : Rank(P, i) = older
      BY <3>1 DEF Ranked
    <3>3. ASSUME NEW j \in P PROVE Rank(P, j) <= older <=> j <= i
      BY <1>3, <1>6, <1>7, <3>2
    <3>4. first = {j \in P : j <= i}
      BY <3>3
    <3> QED
      BY <3>2, <3>4 DEF Rank
  <2> QED
    BY <2>1, <2>2
<1>9. Cardinality(newest) = m - older
  <2>1. P \cap first = first
    BY <1>5
  <2>2. Cardinality(P \ first) = Cardinality(P) - Cardinality(P \cap first)
    BY <1>1, FS_Difference
  <2> QED
    BY <1>2, <1>5, <1>8, <2>1, <2>2
<1>10. ASSUME NEW i \in newest
       PROVE  /\ Rank(P, i) = older + Rank(newest, i)
              /\ Rank(newest, i) \in 1 .. Cardinality(newest)
  <2> DEFINE A == {j \in P : j <= i}
  <2>1. i \in P /\ ~ (Rank(P, i) <= older)
    BY <1>5
  <2>2. ASSUME NEW j \in first PROVE j \in A
    <3>1. j \in P /\ Rank(P, j) <= older
      OBVIOUS
    <3>2. ~ (Rank(P, i) <= Rank(P, j))
      <4>1. Rank(P, i) \in Nat /\ Rank(P, j) \in Nat
        BY <1>3, <2>1, <3>1
      <4> QED
        BY <2>1, <3>1, <4>1
    <3>3. j <= i
      <4>1. i \in Nat /\ j \in Nat
        BY <2>1, <3>1
      <4>2. ~ (i <= j)
        BY <1>6, <2>1, <3>1, <3>2
      <4> QED
        BY <4>1, <4>2
    <3> QED
      BY <3>1, <3>3
  <2>3. A \cap first = first /\ A \ first = {j \in newest : j <= i}
    BY <1>5, <2>2
  <2>4. IsFiniteSet(A)
    <3>1. A \in SUBSET P
      OBVIOUS
    <3> QED
      BY <1>1, <3>1, FS_Subset
  <2>5. Cardinality(A \ first) = Cardinality(A) - Cardinality(A \cap first)
    BY <2>4, FS_Difference
  <2>6. Rank(newest, i) = Rank(P, i) - older
    BY <1>8, <2>3, <2>5 DEF Rank
  <2>7. Rank(P, i) \in 1 .. m
    BY <1>3, <2>1
  <2> HIDE DEF newest, first, A
  <2>8. Rank(newest, i) \in 1 .. m - older
    BY <2>1, <2>6, <2>7
  <2> QED
    BY <1>9, <2>6, <2>7, <2>8
<1> QED
  BY <1>2, <1>9, <1>10 DEF Newest

ViewInv == trail \in Seq(Records) /\ Viewable(trail)

LEMMA ViewInvariant == DeploymentSpec => []ViewInv
<1>1. DeploymentInit => ViewInv
  <2>1. << >> \in Seq(Records)
    OBVIOUS
  <2> QED
    BY <2>1, ViewableEmpty DEF DeploymentInit, ViewInv
<1>2. /\ IInv /\ TraceInv /\ AccountInv /\ AccountInv' /\ ViewInv
      /\ [DeploymentNext]_allVars
      => ViewInv'
  <2> SUFFICES ASSUME IInv, TraceInv, AccountInv', ViewInv, [DeploymentNext]_allVars
               PROVE  ViewInv'
    OBVIOUS
  <2>1. trail' \in Seq(Records)
    BY DEF AccountInv
  <2>2. CASE trail' = trail
    BY <2>1, <2>2 DEF ViewInv, Viewable
  <2>3. CASE trail' = << >>
    BY <2>1, <2>3, ViewableEmpty DEF ViewInv
  <2>4. ASSUME NEW record, NEW refund, Logged(record, refund) PROVE ViewInv'
    <3>1. trail' = Append(trail, record)
      BY <2>4 DEF Logged
    <3>2. record \in Records
      <4>1. Len(trail) + 1 \in DOMAIN trail' /\ trail'[Len(trail) + 1] = record
        BY <3>1, Appended DEF ViewInv
      <4> QED
        BY <2>1, <4>1
    <3>3. Viewable(Append(trail, record))
      BY <3>2, ViewableAppended DEF ViewInv
    <3> QED
      BY <2>1, <3>1, <3>3 DEF ViewInv
  <2> QED
    BY <2>2, <2>3, <2>4, TrailSteps
<1> QED
  BY <1>1, <1>2, TraceInvariant, AccountInvariant, PTL DEF DeploymentSpec

(* GET /audit shows, of the records of one user or of all, the limit last   *)
(* and no other, or all when the limit is zero, in the order of the trail   *)
(* (records[-limit:] in get_audit).                                         *)
THEOREM ViewIsTheNewest == DeploymentSpec => []ViewShowsTheNewest
<1>1. ASSUME ViewInv PROVE ViewShowsTheNewest
  <2> SUFFICES ASSUME NEW user \in Ids \cup {None}, NEW limit \in 0 .. Len(trail)
               PROVE  LET view     == AuditView(trail, user, limit)
                          matching == {i \in DOMAIN trail : user = None \/ trail[i].user = user}
                          rank(i, among) == Cardinality({j \in among : j <= i})
                          newest   == {i \in matching :
                                         limit = 0 \/ Cardinality({j \in matching : j > i}) < limit}
                      IN  /\ Len(view) = Cardinality(newest)
                          /\ \A i \in newest : view[rank(i, newest)] = trail[i]
    BY DEF ViewShowsTheNewest
  <2> DEFINE P == Positions(trail, user)
             newest == Newest(P, limit)
             view == AuditView(trail, user, limit)
  <2>1. PICK m : IsPart(m, trail, P) /\ m = Matching(trail, user)
    <3> DEFINE F(f) == [n \in 0 .. Len(trail) |->
                         IF n = 0 THEN << >>
                         ELSE IF user = None \/ trail[n].user = user
                         THEN Append(f[n - 1], trail[n])
                         ELSE f[n - 1]]
    <3>1. Matching(trail, user) = (CHOOSE f : f = F(f))[Len(trail)]
      BY DEF Matching
    <3>2. \A f : Filters(trail, user, f) <=> f = F(f)
      BY DEF Filters
    <3> HIDE DEF F
    <3>3. \E f : f = F(f)
      BY <1>1, <3>2 DEF ViewInv, Viewable
    <3>4. PICK f : f = F(f) /\ Matching(trail, user) = f[Len(trail)]
      BY <3>1, <3>3
    <3> QED
      BY <1>1, <3>2, <3>4 DEF ViewInv, Viewable
  <2>2. P \in SUBSET (1 .. Len(trail)) /\ Len(trail) \in Nat /\ Ranked(P)
    BY <1>1 DEF ViewInv, Viewable, Positions
  <2>3. /\ m \in Seq(Records) /\ Len(m) = Cardinality(P) /\ Cardinality(P) \in Nat
        /\ \A i \in P : m[Rank(P, i)] = trail[i]
    BY <2>1 DEF IsPart
  <2>4. CASE limit = 0
    <3>1. view = IF limit > 0
                 THEN SubSeq(m, IF Len(m) - limit + 1 > 1 THEN Len(m) - limit + 1 ELSE 1, Len(m))
                 ELSE m
      BY <2>1, Zenon DEF AuditView
    <3>2. view = m
      BY <2>4, <3>1
    <3> HIDE DEF view
    <3>3. Len(view) = Cardinality(P) /\ \A i \in P : view[Rank(P, i)] = trail[i]
      BY <2>3, <3>2
    <3>4. P = {i \in P : limit = 0 \/ Cardinality({j \in P : j > i}) < limit}
      BY <2>4
    <3> QED
      BY <3>3, <3>4 DEF P, Positions, view, Rank
  <2>5. CASE limit # 0
    <3>1. PICK older \in Nat :
            /\ older = Older(P, limit)
            /\ older = IF Cardinality(P) > limit THEN Cardinality(P) - limit ELSE 0
      BY <2>3 DEF Older
    <3>2. limit \in Nat \ {0}
      BY <2>5
    <3> HIDE DEF P
    <3>3. /\ Cardinality(newest) = Cardinality(P) - older
          /\ \A i \in newest : /\ Rank(P, i) = older + Rank(newest, i)
                               /\ Rank(newest, i) \in 1 .. Cardinality(newest)
      <4>1. PICK n \in Nat : P \in SUBSET (1 .. n)
        BY <2>2
      <4> QED
        BY <2>2, <3>1, <3>2, <4>1, NewestCount, Zenon
    <3>4. view = SubSeq(m, older + 1, Len(m))
      <4>1. view = SubSeq(m, IF Len(m) - limit + 1 > 1 THEN Len(m) - limit + 1 ELSE 1, Len(m))
        <5>1. view = IF limit > 0
                     THEN SubSeq(m, IF Len(m) - limit + 1 > 1 THEN Len(m) - limit + 1 ELSE 1, Len(m))
                     ELSE m
          BY <2>1, Zenon DEF AuditView
        <5>2. limit > 0
          BY <3>2
        <5> QED
          BY <5>1, <5>2, Zenon
      <4>2. (IF Len(m) - limit + 1 > 1 THEN Len(m) - limit + 1 ELSE 1) = older + 1
        BY <2>3, <3>1, <3>2
      <4> QED
        BY <4>1, <4>2, Zenon
    <3>5. /\ Len(view) = Len(m) - older
          /\ \A k \in 1 .. Len(m) - older : view[k] = m[older + k]
      <4>1. older \in 0 .. Len(m)
        BY <2>3, <3>1, <3>2
      <4> QED
        BY <2>3, <3>4, <4>1
    <3> HIDE DEF view, newest
    <3>6. \A i \in newest : view[Rank(newest, i)] = trail[i]
      <4> SUFFICES ASSUME NEW i \in newest PROVE view[Rank(newest, i)] = trail[i]
        OBVIOUS
      <4>1. i \in P
        BY DEF newest, Newest
      <4> QED
        BY <2>3, <3>3, <3>5, <4>1
    <3>7. Len(view) = Cardinality(newest)
      BY <2>3, <3>3, <3>5
    <3>8. {i \in P : limit = 0 \/ Cardinality({j \in P : j > i}) < limit} = newest
      BY <2>5 DEF newest, Newest
    <3> QED
      BY <3>6, <3>7, <3>8 DEF P, Positions, view, Rank
  <2> QED
    BY <2>4, <2>5
<1> QED
  BY <1>1, ViewInvariant, PTL
================================================================================
