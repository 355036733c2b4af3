------------------------------ MODULE ApprovalProofs ------------------------------
(***************************************************************************)
(* What a card shows is what an approval of it pays: with one run per      *)
(* thread at a time and until a fault, the stored proposal of a thread     *)
(* changes only for a ticket, so the one a snapshot found while none was   *)
(* running is still there when the decision made on its card is carried    *)
(* out, however long the answer, the click and the call took.              *)
(***************************************************************************)
EXTENDS ConsoleProofs, RefundProofs

(* The request runs a ticket of thread t.                                   *)
TicketOf(r, t) == InRun(r) /\ r.thread = t /\ r.decision = None

(* A decision starts from a state that may not reach billing with an amount *)
(* and leaves the proposal alone.                                           *)
Calm(r, stored) ==
  r.step \in {"put", "run", "save"} /\ r.decision # None =>
    ~MayRefund(r.cp) /\ r.cp.proposed = stored.proposed

(* Only while a ticket's own run lasts is its state stored half-way.        *)
HalfWayInRuns ==
  faults = 0 =>
    /\ \A t \in Threads : MayRefund(checkpoint[t]) => TicketRuns(t)
    /\ \A w \in Workers : Calm(request[w], checkpoint[request[w].thread])

(* Until a fault or a ticket, the action of an item is the proposal stored  *)
(* on its thread.                                                           *)
Current(t, item) == checkpoint[t].proposed = item.shown /\ ~TicketRuns(t)

(* A thread whose latest verdict has been carried out: another decision     *)
(* takes the auditor's edge again and finds nothing to resume.              *)
Done(cp) == cp.next = "end" /\ cp.last = "auditor"

Closing(r) ==
  /\ r.decision # None /\ r.step \in {"update", "put", "resume"}
  /\ r.step = "put" => Done(r.cp)

Closed(t) == Done(checkpoint[t]) /\ \A w \in Workers : RunsOn(w, t) => Closing(request[w])

(* Until a ticket, no verdict has come since an item, or none can any more. *)
Unsettled(t, n) == Settled(t) = n \/ Closed(t)

CurrentAt(t, item) ==
  /\ item.seen <= tickets[t]
  /\ faults = 0 /\ item.seen = tickets[t] /\ ~item.busy => Current(t, item)

ShownAt(t, item) ==
  CurrentAt(t, item) /\ (item.seen = tickets[t] => Unsettled(t, item.settled))

ItemsShown == \A c \in Calls, t \in Threads :
                \A item \in {call[c].items[t]} \ {None} : ShownAt(t, item)

CardsShown == \A t \in Threads : cards[t] # None => ShownAt(t, cards[t].item)

DecisionsShown == \A c \in Calls : call[c].kind = "decide" => ShownAt(call[c].thread, call[c].item)

(* The request of a decision works on the thread of its card.               *)
OnItsThread ==
  \A w \in Workers : serving[w] # None /\ call[serving[w]].kind = "decide" =>
    (InRun(request[w]) => request[w].thread = call[serving[w]].thread)

(* A request has in hand as many verdicts as are stored, and one more only  *)
(* between the auditor and its save.                                        *)
SameVerdicts(cp, stored) == VerdictsIn(cp.messages) = VerdictsIn(stored.messages)

CountsAs(r, stored) ==
  /\ r.step \in {"put", "run"} => SameVerdicts(r.cp, stored)
  /\ r.step = "save" => (SameVerdicts(r.cp, stored) \/ Done(r.cp))

CountsInStep == \A w \in Workers : CountsAs(request[w], checkpoint[request[w].thread])

ShownInv == CountsInStep /\ HalfWayInRuns /\ ItemsShown /\ CardsShown /\ DecisionsShown /\ OnItsThread

--------------------------------------------------------------------------------
(* Nodes.                                                                   *)

(* A node that works on a state which may not reach billing with an amount  *)
(* leaves such a state, and its proposal.                                   *)
SettledStep(w, cp) ==
  /\ Ran(w, cp) /\ cp.proposed = request[w].cp.proposed /\ ~MayRefund(cp)
  /\ UNCHANGED <<checkpoint, tickets, faults>>

LEMMA AnswersSettled ==
  ASSUME NEW cp \in Checkpoints, NEW reply
  PROVE  /\ BillingReplies(cp, reply).proposed = cp.proposed
         /\ BillingReplies(cp, reply).next \in {"auditor", "end"}
         /\ Support(cp).proposed = cp.proposed /\ Support(cp).next = "end"
BY DEF BillingReplies, Support, Advance, Route, RouteFromBilling, Checkpoints

LEMMA SupervisorSettled ==
  ASSUME NEW cp \in Checkpoints, NEW intent, NEW id
  PROVE  /\ Supervisor(cp, intent, id).proposed = cp.proposed
         /\ Supervisor(cp, intent, id).messages = cp.messages
         /\ Supervisor(cp, intent, id).next # "start"
BY DEF Supervisor, Advance, Route, RouteFromSupervisor, Checkpoints

LEMMA AuditorSettled ==
  ASSUME NEW cp \in Checkpoints
  PROVE  /\ Auditor(cp).proposed = cp.proposed
         /\ Auditor(cp).next = "end" /\ Auditor(cp).last = "auditor"
<1>1. CASE AuditorPays(cp)
  BY <1>1 DEF Auditor, Advance, Route, Checkpoints
<1>2. CASE ~AuditorPays(cp) /\ cp.decision = "denied"
  BY <1>2 DEF Auditor, Advance, Route, Checkpoints
<1>3. CASE ~AuditorPays(cp) /\ cp.decision # "denied"
  BY <1>3 DEF Auditor, Advance, Route, Checkpoints
<1> QED
  BY <1>1, <1>2, <1>3

LEMMA SettledNode ==
  ASSUME IInv, NEW w \in Workers, Proceed(w), request[w].step = "run",
         ~MayRefund(request[w].cp)
  PROVE  \E cp : SettledStep(w, cp)
<1> DEFINE q == request[w]
<1>1. q.cp \in Checkpoints
  BY DEF IInv, TypeOK, Requests
<1>2. CASE RunSupervisor(w)
  <2>1. PICK intent \in Intents, id \in RouterIds : Ran(w, Supervisor(q.cp, intent, id))
    BY <1>2 DEF RunSupervisor
  <2> DEFINE cp == Supervisor(q.cp, intent, id)
  <2>2. BillingAmount(q.cp) = None
    BY <1>2 DEF RunSupervisor, Runs, MayRefund
  <2>3. cp.proposed = q.cp.proposed /\ cp.messages = q.cp.messages /\ cp.next # "start"
    BY <1>1, SupervisorSettled
  <2>4. BillingAmount(cp) = None
    BY <2>2, <2>3 DEF BillingAmount
  <2>5. SettledStep(w, cp)
    BY <1>2, <2>1, <2>3, <2>4 DEF SettledStep, MayRefund, RunSupervisor, histories
  <2> QED
    BY <2>5
<1>3. CASE RunBillingAsks(w)
  <2>1. PICK reply : Ran(w, BillingReplies(q.cp, reply))
    BY <1>3 DEF RunBillingAsks, BillingAsks
  <2>2. SettledStep(w, BillingReplies(q.cp, reply))
    BY <1>1, <1>3, <2>1, AnswersSettled DEF SettledStep, MayRefund, RunBillingAsks, histories
  <2> QED
    BY <2>2
<1>4. CASE RunSupport(w)
  <2>1. SettledStep(w, Support(q.cp))
    BY <1>1, <1>4, AnswersSettled DEF SettledStep, MayRefund, RunSupport, histories
  <2> QED
    BY <2>1
<1>5. CASE RunAuditor(w)
  <2>1. SettledStep(w, Auditor(q.cp))
    BY <1>1, <1>5, AuditorSettled DEF SettledStep, MayRefund, RunAuditor
  <2> QED
    BY <2>1
<1>6. ~RunStart(w) /\ ~RunBillingRefuses(w) /\ ~RunBillingEscalates(w) /\ ~RunBillingRefunds(w)
  BY DEF RunStart, RunBillingRefuses, RunBillingEscalates, RunBillingRefunds, Runs, MayRefund,
     BillingIncomplete
<1> QED
  BY <1>2, <1>3, <1>4, <1>5, <1>6
     DEF Proceed, SubmitLoad, UpdateRead, UpdatePut, ResumeLoad, Save, Snapshot, Mark

(* Writing a decision brings no served ticket back.                         *)
LEMMA UpdateStateSettled ==
  ASSUME NEW cp \in Checkpoints, Routed(cp), NEW decision \in Verdicts
  PROVE  /\ MayRefund(UpdateState(cp, decision)) => MayRefund(cp)
         /\ UpdateState(cp, decision).proposed = cp.proposed
<1>1. /\ UpdateState(cp, decision).requiresApproval = cp.requiresApproval
      /\ UpdateState(cp, decision).proposed = cp.proposed
  BY DEF UpdateState, Checkpoints
<1>2. Owed(UpdateState(cp, decision)) <= Owed(cp)
  BY UpdateStateCounts
<1> QED
  BY <1>1, <1>2 DEF Owed, Unit

--------------------------------------------------------------------------------
(* The service.                                                             *)

LEMMA TicketRunsBy ==
  ASSUME NEW t
  PROVE  TicketRuns(t) <=> \E w \in Workers : TicketOf(request[w], t)
BY DEF TicketRuns, TicketOf, RunsOn

(* What the invariants of SerialProofs and RefundProofs say of the request. *)
LEMMA RequestFacts ==
  ASSUME IInv, SerialInv, TallyInv, NEW w \in Workers, request[w].step # "idle"
  PROVE  LET q == request[w]
             stored == checkpoint[q.thread]
         IN  /\ q \in Requests /\ q.thread \in Threads /\ q.cp \in Checkpoints
             /\ stored \in Checkpoints /\ Routed(stored)
             /\ q.step = "load" => q.decision = None
             /\ q.step \in {"update", "put", "resume"} =>
                  q.decision \in Verdicts /\ q.decision # None
             /\ q.step = "run" /\ q.cp.next = "auditor" => q.decision # None
<1>1. /\ request[w] \in Requests /\ request[w].thread \in Threads
      /\ request[w].cp \in Checkpoints /\ checkpoint[request[w].thread] \in Checkpoints
      /\ None \notin Verdicts
  BY NoneIsNothing DEF IInv, TypeOK, Requests
<1>2. Routed(checkpoint[request[w].thread])
  BY <1>1 DEF TallyInv, TallyAt, Balanced
<1>3. request[w].step = "update" => request[w].decision \in Verdicts
  BY DEF IInv, RequestGoverned
<1> QED
  BY <1>1, <1>2, <1>3 DEF SerialInv, InStep, DecisionKept

LEMMA FaultCounts ==
  ASSUME IInv, FaultStep
  PROVE  \/ UNCHANGED <<request, faults>>
         \/ faults' # 0
<1>1. faults \in Nat
  BY ServiceAssumption DEF IInv, TypeOK
<1> QED
  BY <1>1 DEF FaultStep, Restart, Crash, Fail,
       RouterFails, AnswererFails, DatabaseFails, Aborts, Fault

(* One worker moves, and stores at most on the thread it runs on.           *)
LEMMA SettledMoves ==
  ASSUME IInv, OneRunPerThread, HalfWayInRuns, faults = 0, NEW w \in Workers, StoresAtMost(w),
         NEW r, request' = [request EXCEPT ![w] = r], Calm(r, checkpoint'[r.thread]),
         \A t \in Threads : MayRefund(checkpoint'[t]) =>
           TicketOf(r, t) \/ (MayRefund(checkpoint[t]) /\ ~TicketOf(request[w], t))
  PROVE  HalfWayInRuns'
<1>1. request'[w] = r /\ \A v \in Workers \ {w} : request'[v] = request[v]
  BY DEF IInv, TypeOK
<1>2. ASSUME NEW t \in Threads, MayRefund(checkpoint'[t])
      PROVE  \E v \in Workers : TicketOf(request'[v], t)
  <2>1. CASE TicketOf(r, t)
    BY <1>1, <2>1
  <2>2. CASE MayRefund(checkpoint[t]) /\ ~TicketOf(request[w], t)
    <3>1. PICK v \in Workers : TicketOf(request[v], t)
      BY <2>2, TicketRunsBy DEF HalfWayInRuns
    <3>2. v # w
      BY <2>2, <3>1
    <3> QED
      BY <1>1, <3>1, <3>2
  <2> QED
    BY <1>2, <2>1, <2>2
<1>3. ASSUME NEW v \in Workers
      PROVE  Calm(request'[v], checkpoint'[request'[v].thread])
  <2>1. CASE v = w
    BY <1>1, <2>1
  <2>2. CASE v # w /\ InRun(request[v])
    <3>1. checkpoint'[request[v].thread] = checkpoint[request[v].thread]
      BY <2>2, OthersStay
    <3> QED
      BY <1>1, <2>2, <3>1 DEF HalfWayInRuns
  <2>3. CASE v # w /\ ~InRun(request[v])
    BY <1>1, <2>3 DEF Calm, InRun
  <2> QED
    BY <2>1, <2>2, <2>3
<1> QED
  BY <1>2, <1>3 DEF HalfWayInRuns, TicketRuns, TicketOf, RunsOn, Calm

LEMMA SettledProceed ==
  ASSUME OneRunPerThread, IInv, SerialInv, TallyInv, HalfWayInRuns, faults = 0,
         NEW w \in Workers, Proceed(w)
  PROVE  HalfWayInRuns'
<1> DEFINE q == request[w]
           stored == checkpoint[q.thread]
<1>a. q.step # "idle"
  BY DEF Proceed, SubmitLoad, UpdateRead, UpdatePut, ResumeLoad, Save, RunStart,
     RunSupervisor, RunBillingAsks, RunBillingRefuses, RunBillingEscalates,
     RunBillingRefunds, RunSupport, RunAuditor, Runs, Snapshot, Mark
<1>b. /\ q \in Requests /\ q.thread \in Threads /\ stored \in Checkpoints /\ Routed(stored)
      /\ q.step = "load" => q.decision = None
      /\ q.step \in {"update", "put", "resume"} => q.decision \in Verdicts /\ q.decision # None
      /\ checkpoint \in [Threads -> Checkpoints]
  BY <1>a, RequestFacts DEF IInv, TypeOK
<1>c. Calm(q, stored)
  BY DEF HalfWayInRuns
<1>d. InRun(q) /\ q.decision # None => ~MayRefund(stored) \/ q.step \in {"load", "save"}
  <2> SUFFICES ASSUME InRun(q), q.decision # None, MayRefund(stored) PROVE FALSE
    OBVIOUS
  <2>1. PICK v \in Workers : TicketOf(request[v], q.thread)
    BY <1>b, TicketRunsBy DEF HalfWayInRuns
  <2>2. v = w
    BY <1>b, <2>1 DEF OneRunPerThread, RunsOn, TicketOf
  <2> QED
    BY <2>1, <2>2 DEF TicketOf
<1>1. CASE q.step = "run"
  <2>1. PICK cp : Ran(w, cp) /\ checkpoint' = checkpoint
                  /\ (q.decision # None => ~MayRefund(cp) /\ cp.proposed = q.cp.proposed)
    <3>1. CASE MayRefund(q.cp)
      BY <1>1, <1>c, <3>1, NodeCounts DEF NodeStep, Calm
    <3>2. CASE ~MayRefund(q.cp)
      BY <1>1, <3>2, SettledNode DEF SettledStep
    <3> QED
      BY <3>1, <3>2
  <2> DEFINE r == ToSave(w, cp)
  <2>2. /\ request' = [request EXCEPT ![w] = r]
        /\ r.step = "save" /\ r.thread = q.thread /\ r.decision = q.decision /\ r.cp = cp
    BY <1>b, <2>1 DEF Ran, ToSave, IInv, TypeOK, Requests
  <2> HIDE DEF r
  <2>3. Calm(r, checkpoint'[r.thread])
    BY <1>1, <1>c, <2>1, <2>2 DEF Calm
  <2>4. \A t \in Threads : TicketOf(r, t) <=> TicketOf(q, t)
    BY <1>1, <2>2 DEF TicketOf, InRun
  <2> QED
    BY <2>1, <2>2, <2>3, <2>4, SettledMoves DEF StoresAtMost
<1>2. ASSUME NEW r, request' = [request EXCEPT ![w] = r], checkpoint' = checkpoint,
             Moves(q, r, stored)
      PROVE  HalfWayInRuns'
  <2>1. Calm(r, checkpoint'[r.thread])
    <3>1. q.step = "update" => ~MayRefund(r.cp) /\ r.cp.proposed = stored.proposed
      BY <1>2, <1>b, <1>d, UpdateStateSettled DEF Moves, InRun
    <3>2. q.step = "resume" => ~MayRefund(r.cp) /\ r.cp.proposed = stored.proposed
      BY <1>2, <1>b, <1>d DEF Moves, InRun
    <3> QED
      BY <1>2, <1>b, <3>1, <3>2 DEF Moves, Calm
  <2>2. \A t \in Threads : TicketOf(q, t) => TicketOf(r, t)
    BY <1>2, <1>b DEF TicketOf, InRun, Moves
  <2> QED
    BY <1>2, <2>1, <2>2, SettledMoves DEF StoresAtMost
<1>3. ASSUME NEW r, request' = [request EXCEPT ![w] = r],
             checkpoint' = [checkpoint EXCEPT ![q.thread] = q.cp], Stores(q, r)
      PROVE  HalfWayInRuns'
  <2>1. checkpoint'[q.thread] = q.cp
        /\ \A t \in Threads : t # q.thread => checkpoint'[t] = checkpoint[t]
    BY <1>3, <1>b
  <2>2. StoresAtMost(w)
    BY <1>3, <2>1 DEF StoresAtMost, Stores, InRun
  <2>3. Calm(r, checkpoint'[r.thread])
    BY <1>3, <1>c, <2>1 DEF Stores, Calm
  <2>4. ASSUME NEW t \in Threads, MayRefund(checkpoint'[t])
        PROVE  TicketOf(r, t) \/ (MayRefund(checkpoint[t]) /\ ~TicketOf(q, t))
    <3>1. CASE t # q.thread
      BY <2>1, <2>4, <3>1 DEF TicketOf
    <3>2. CASE t = q.thread
      <4>1. MayRefund(q.cp)
        BY <2>1, <2>4, <3>2
      <4>2. q.decision = None /\ q.step = "save"
        BY <1>3, <1>b, <1>c, <4>1 DEF Calm, Stores
      <4>3. r.step = "run"
        BY <1>3, <4>1, <4>2 DEF Stores, MayRefund
      <4> QED
        BY <1>3, <3>2, <4>2, <4>3 DEF TicketOf, InRun, Stores
    <3> QED
      BY <3>1, <3>2
  <2> QED
    BY <1>3, <2>2, <2>3, <2>4, SettledMoves
<1>4. ASSUME NEW r, request' = [request EXCEPT ![w] = r], checkpoint' = checkpoint,
             q.step \in {"snapshot", "mark"}, r.step \in {"mark", "idle", "snapshot"}
      PROVE  HalfWayInRuns'
  <2>1. Calm(r, checkpoint'[r.thread]) /\ \A t \in Threads : ~TicketOf(q, t)
    BY <1>4 DEF Calm, TicketOf, InRun
  <2> QED
    BY <1>4, <2>1, SettledMoves DEF StoresAtMost
<1> QED
  BY <1>1, <1>2, <1>3, <1>4, ProceedOnly

LEMMA SettledNext ==
  ASSUME OneRunPerThread, IInv, SerialInv, TallyInv, HalfWayInRuns, [Next]_vars
  PROVE  HalfWayInRuns'
<1>1. ASSUME NEW w \in Workers, Arrive(w)
      PROVE  HalfWayInRuns'
  <2>1. request[w].step = "idle"
    BY <1>1 DEF Arrive, Submit, Review, Get, ListDetails
  <2>2. PICK r : /\ request' = [request EXCEPT ![w] = r]
                 /\ r.step \in {"load", "update", "snapshot"}
                 /\ UNCHANGED <<checkpoint, ledger, faults>>
    BY <1>1, ArriveOnly
  <2>3. Calm(r, checkpoint'[r.thread]) /\ \A t \in Threads : ~TicketOf(request[w], t)
    BY <2>1, <2>2 DEF Calm, TicketOf, InRun
  <2>4. CASE faults = 0
    BY <2>2, <2>3, <2>4, SettledMoves DEF StoresAtMost
  <2>5. CASE faults # 0
    BY <2>2, <2>5 DEF HalfWayInRuns
  <2> QED
    BY <2>4, <2>5
<1>2. ASSUME NEW w \in Workers, Proceed(w)
      PROVE  HalfWayInRuns'
  <2>1. faults' = faults
    BY <1>2 DEF Proceed, SubmitLoad, UpdateRead, UpdatePut, ResumeLoad, Save, RunStart,
       RunSupervisor, RunBillingAsks, RunBillingRefuses, RunBillingEscalates,
       RunBillingRefunds, RunSupport, RunAuditor, Snapshot, Mark
  <2>2. CASE faults = 0
    BY <1>2, <2>2, SettledProceed
  <2>3. CASE faults # 0
    BY <2>1, <2>3 DEF HalfWayInRuns
  <2> QED
    BY <2>2, <2>3
<1>3. CASE FaultStep
  <2>1. checkpoint' = checkpoint
    BY <1>3, FaultOnlyIdles
  <2> QED
    BY <1>3, <2>1, FaultCounts DEF HalfWayInRuns, TicketRuns, RunsOn
<1>4. CASE UNCHANGED vars
  BY <1>4 DEF vars, HalfWayInRuns, TicketRuns, RunsOn
<1> QED
  BY <1>1, <1>2, <1>3, <1>4 DEF Next, FaultStep

(* A run goes on, on its thread and with its decision, or is over.          *)
LEMMA RunGoesOn ==
  ASSUME IInv, NEW w \in Workers, Proceed(w), InRun(request'[w])
  PROVE  /\ InRun(request[w]) /\ request'[w].thread = request[w].thread
         /\ request'[w].decision = request[w].decision
<1> DEFINE q == request[w]
<1>a. request \in [Workers -> Requests]
  BY DEF IInv, TypeOK
<1>1. CASE q.step = "run"
  <2>1. PICK cp : Ran(w, cp)
    BY <1>1, NodeCounts DEF NodeStep
  <2>2. ToSave(w, cp).thread = q.thread /\ ToSave(w, cp).decision = q.decision
    BY <1>a DEF ToSave, Requests
  <2>3. request' = [request EXCEPT ![w] = ToSave(w, cp)]
    BY <2>1 DEF Ran, ToSave
  <2> QED
    BY <1>1, <1>a, <2>2, <2>3 DEF InRun
<1>2. CASE q.step # "run"
  <2>1. PICK r : /\ request' = [request EXCEPT ![w] = r]
                 /\ \/ Moves(q, r, checkpoint[q.thread])
                    \/ Stores(q, r)
                    \/ r.step \in {"mark", "idle", "snapshot"}
    BY <1>2, ProceedOnly
  <2>2. request'[w] = r
    BY <1>a, <2>1
  <2>3. Moves(q, r, checkpoint[q.thread]) \/ Stores(q, r)
    BY <2>1, <2>2 DEF InRun
  <2> QED
    BY <2>2, <2>3 DEF Moves, Stores, InRun
<1> QED
  BY <1>1, <1>2

(* An item is current as long as its thread has no other ticket.            *)
LEMMA CurrentProceeds ==
  ASSUME IInv, HalfWayInRuns, NEW w \in Workers, Proceed(w), faults = 0, NEW t \in Threads,
         NEW item, Current(t, item)
  PROVE  Current(t, item)'
<1> DEFINE q == request[w]
<1>1. \A v \in Workers : ~TicketOf(request[v], t)
  BY TicketRunsBy DEF Current
<1>2. \A v \in Workers : ~TicketOf(request'[v], t)
  <2> TAKE v \in Workers
  <2>1. CASE v = w
    BY <1>1, <2>1, RunGoesOn DEF TicketOf
  <2>2. CASE v # w
    BY <1>1, <2>2, OnlyItsOwn
  <2> QED
    BY <2>1, <2>2
<1>3. checkpoint'[t].proposed = item.shown
  <2>1. CASE checkpoint'[t] = checkpoint[t]
    BY <2>1 DEF Current
  <2>2. ASSUME NEW r, checkpoint' = [checkpoint EXCEPT ![q.thread] = q.cp], Stores(q, r),
               q.thread = t
        PROVE  checkpoint'[t].proposed = item.shown
    <3>1. checkpoint'[t] = q.cp
      BY <2>2 DEF IInv, TypeOK
    <3>2. q.decision # None /\ q.step \in {"put", "save"}
      BY <1>1, <2>2 DEF TicketOf, InRun, Stores
    <3>3. q.cp.proposed = checkpoint[t].proposed
      BY <2>2, <3>2 DEF HalfWayInRuns, Calm
    <3> QED
      BY <3>1, <3>3 DEF Current
  <2>3. q.step = "run" => checkpoint' = checkpoint
    BY NodeCounts DEF NodeStep
  <2>4. q.step # "run" => \/ checkpoint' = checkpoint
                         \/ \E r : /\ checkpoint' = [checkpoint EXCEPT ![q.thread] = q.cp]
                                   /\ Stores(q, r)
    BY ProceedOnly
  <2> QED
    BY <2>1, <2>2, <2>3, <2>4 DEF IInv, TypeOK
<1> QED
  BY <1>2, <1>3 DEF Current, TicketRuns, TicketOf, RunsOn

--------------------------------------------------------------------------------
(* Verdicts.                                                                *)

LEMMA VerdictsAppend ==
  ASSUME NEW messages \in Seq(Entries), NEW entry \in Entries,
         entry # AI("approved"), entry # AI("declined")
  PROVE  VerdictsIn(Append(messages, entry)) = VerdictsIn(messages)
<1> DEFINE longer == Append(messages, entry)
<1>1. /\ Len(longer) = Len(messages) + 1 /\ longer[Len(messages) + 1] = entry
      /\ \A i \in 1 .. Len(messages) : longer[i] = messages[i]
      /\ DOMAIN longer = 1 .. Len(messages) + 1 /\ DOMAIN messages = 1 .. Len(messages)
  OBVIOUS
<1> HIDE DEF longer
<1>2. /\ RepliesOf(longer, "approved") = RepliesOf(messages, "approved")
      /\ RepliesOf(longer, "declined") = RepliesOf(messages, "declined")
  BY <1>1 DEF RepliesOf
<1> QED
  BY <1>2 DEF VerdictsIn, longer

(* Only the auditor adds a verdict.                                         *)
LEMMA NodeVerdicts ==
  ASSUME IInv, NEW w \in Workers, Proceed(w), request[w].step = "run"
  PROVE  \E cp : /\ Ran(w, cp) /\ checkpoint' = checkpoint
                /\ (SameVerdicts(cp, request[w].cp) \/ Done(cp))
<1> DEFINE q == request[w]
<1>1. /\ q.cp \in Checkpoints /\ q.cp.messages \in Seq(Entries)
      /\ Governed(q.thread, q.cp, escalated, reviews)
  BY DEF IInv, TypeOK, Requests, Checkpoints, RequestGoverned
<1>2. \A reply \in Replies : AI(reply) \in Entries
  BY DEF AI, Entries
<1>3. \A reply \in Replies \ {"approved", "declined"} :
        SameVerdicts([q.cp EXCEPT !.messages = Reply(q.cp, reply)], q.cp)
  <2> TAKE reply \in Replies \ {"approved", "declined"}
  <2>1. VerdictsIn(Append(q.cp.messages, AI(reply))) = VerdictsIn(q.cp.messages)
    <3>1. AI(reply) # AI("approved") /\ AI(reply) # AI("declined")
      BY DEF AI
    <3> QED
      BY <1>1, <1>2, <3>1, VerdictsAppend
  <2>2. [q.cp EXCEPT !.messages = Reply(q.cp, reply)].messages = Append(q.cp.messages, AI(reply))
    BY <1>1 DEF Reply, Checkpoints
  <2> QED
    BY <2>1, <2>2 DEF SameVerdicts
<1>4. CASE RunStart(w)
  <2>1. Human(q.cp.input) \in Entries
    BY <1>1, <1>4 DEF RunStart, Runs, Governed, Human, Entries, Checkpoints
  <2>2. Human(q.cp.input) # AI("approved") /\ Human(q.cp.input) # AI("declined")
    BY DEF Human, AI
  <2>3. SameVerdicts(Start(q.cp), q.cp)
    <3>1. Start(q.cp).messages = Append(q.cp.messages, Human(q.cp.input))
      BY <1>1 DEF Start, Advance, Checkpoints
    <3> QED
      BY <1>1, <2>1, <2>2, <3>1, VerdictsAppend DEF SameVerdicts
  <2> QED
    BY <1>4, <2>3 DEF RunStart
<1>5. CASE RunSupervisor(w)
  <2>1. PICK intent, id : Ran(w, Supervisor(q.cp, intent, id)) /\ checkpoint' = checkpoint
    BY <1>5 DEF RunSupervisor
  <2>2. Supervisor(q.cp, intent, id).messages = q.cp.messages
    BY <1>1, SupervisorSettled
  <2> QED
    BY <2>1, <2>2 DEF SameVerdicts
<1>6. \A reply \in Replies \ {"approved", "declined"} :
        SameVerdicts(BillingReplies(q.cp, reply), q.cp)
  <2> TAKE reply \in Replies \ {"approved", "declined"}
  <2>1. BillingReplies(q.cp, reply).messages = [q.cp EXCEPT !.messages = Reply(q.cp, reply)].messages
    BY <1>1 DEF BillingReplies, Advance, Checkpoints
  <2> QED
    BY <1>3, <2>1 DEF SameVerdicts
<1>7. CASE RunBillingAsks(w) \/ RunBillingRefuses(w) \/ RunBillingRefunds(w)
  <2>1. PICK reply \in Replies \ {"approved", "declined"} :
          Ran(w, BillingReplies(q.cp, reply)) /\ checkpoint' = checkpoint
    <3>1. {"which_account", "how_much", "invalid_amount", "user_not_found", "refunded"}
            \subseteq Replies \ {"approved", "declined"}
      BY DEF Replies
    <3> QED
      BY <1>7, <3>1 DEF RunBillingAsks, BillingAsks, RunBillingRefuses, BillingRefuses,
         RunBillingRefunds, BillingRefunds
  <2> QED
    BY <1>6, <2>1
<1>8. CASE RunBillingEscalates(w)
  <2>1. BillingEscalates(q.cp).messages =
          [q.cp EXCEPT !.messages = Reply(q.cp, "escalated")].messages
    BY <1>1 DEF BillingEscalates, Advance, Checkpoints
  <2>2. SameVerdicts(BillingEscalates(q.cp), q.cp)
    BY <1>3, <2>1 DEF SameVerdicts, Replies
  <2> QED
    BY <1>8, <2>2 DEF RunBillingEscalates
<1>9. CASE RunSupport(w)
  <2>1. Support(q.cp).messages = [q.cp EXCEPT !.messages = Reply(q.cp, "answered")].messages
    BY <1>1 DEF Support, Advance, Checkpoints
  <2>2. SameVerdicts(Support(q.cp), q.cp)
    BY <1>3, <2>1 DEF SameVerdicts, Replies
  <2> QED
    BY <1>9, <2>2 DEF RunSupport
<1>10. CASE RunAuditor(w)
  <2>1. Done(Auditor(q.cp))
    BY <1>1, AuditorSettled DEF Done
  <2> QED
    BY <1>10, <2>1 DEF RunAuditor
<1> QED
  BY <1>4, <1>5, <1>7, <1>8, <1>9, <1>10
     DEF Proceed, SubmitLoad, UpdateRead, UpdatePut, ResumeLoad, Save, Snapshot, Mark

(* What a request has in hand, and how it goes on from a closed thread.     *)
LEMMA CountsMoves ==
  ASSUME IInv, OneRunPerThread, CountsInStep, NEW w \in Workers, StoresAtMost(w),
         NEW r, request' = [request EXCEPT ![w] = r], CountsAs(r, checkpoint'[r.thread])
  PROVE  CountsInStep'
<1> SUFFICES ASSUME NEW v \in Workers
             PROVE  CountsAs(request'[v], checkpoint'[request'[v].thread])
  BY DEF CountsInStep, CountsAs, SameVerdicts, Done, VerdictsIn, RepliesOf
<1>1. CASE v = w
  BY <1>1 DEF IInv, TypeOK
<1>2. CASE v # w
  <2>1. request'[v] = request[v] /\ CountsAs(request[v], checkpoint[request[v].thread])
    BY <1>2 DEF IInv, TypeOK, CountsInStep
  <2>2. CASE InRun(request[v])
    <3>1. checkpoint'[request[v].thread] = checkpoint[request[v].thread]
      BY <1>2, <2>2, OthersStay
    <3> QED
      BY <2>1, <3>1
  <2>3. CASE ~InRun(request[v])
    BY <2>1, <2>3 DEF InRun, CountsAs
  <2> QED
    BY <2>2, <2>3
<1> QED
  BY <1>1, <1>2

LEMMA LoadsCount ==
  ASSUME NEW cp \in Checkpoints
  PROVE  /\ \A text : SameVerdicts(SubmitInput(cp, text), cp)
         /\ \A decision : /\ SameVerdicts(UpdateState(cp, decision), cp)
                          /\ Done(cp) => Done(UpdateState(cp, decision))
<1>1. \A text : SubmitInput(cp, text).messages = cp.messages
  BY DEF SubmitInput, Checkpoints
<1>2. \A decision : UpdateState(cp, decision).messages = cp.messages
  BY DEF UpdateState, Checkpoints
<1>3. \A decision : Done(cp) => Done(UpdateState(cp, decision))
  BY NoneIsNothing DEF UpdateState, Checkpoints, Done, Route, Nodes
<1> QED
  BY <1>1, <1>2, <1>3 DEF SameVerdicts

LEMMA CountsProceed ==
  ASSUME IInv, OneRunPerThread, CountsInStep, NEW w \in Workers, Proceed(w)
  PROVE  CountsInStep'
<1> DEFINE q == request[w]
           stored == checkpoint[q.thread]
<1>a. /\ q \in Requests /\ CountsAs(q, stored) /\ request \in [Workers -> Requests]
      /\ InRun(q) => q.thread \in Threads /\ stored \in Checkpoints
  BY DEF IInv, TypeOK, InRun, CountsInStep
<1>1. CASE q.step = "run"
  <2>1. PICK cp : Ran(w, cp) /\ checkpoint' = checkpoint /\ (SameVerdicts(cp, q.cp) \/ Done(cp))
    BY <1>1, NodeVerdicts
  <2> DEFINE r == ToSave(w, cp)
  <2>2. /\ request' = [request EXCEPT ![w] = r]
        /\ r.step = "save" /\ r.thread = q.thread /\ r.cp = cp
    BY <1>a, <2>1 DEF Ran, ToSave, Requests
  <2> HIDE DEF r
  <2>3. CountsAs(r, stored)
    BY <1>a, <1>1, <2>1, <2>2 DEF CountsAs, SameVerdicts
  <2> QED
    BY <2>1, <2>2, <2>3, CountsMoves DEF StoresAtMost
<1>2. ASSUME NEW r, request' = [request EXCEPT ![w] = r], checkpoint' = checkpoint,
             Moves(q, r, stored)
      PROVE  CountsInStep'
  <2>1. CountsAs(r, stored)
    BY <1>a, <1>2, LoadsCount DEF Moves, CountsAs, SameVerdicts, InRun
  <2>2. r.thread = q.thread
    BY <1>2 DEF Moves
  <2> QED
    BY <1>2, <2>1, <2>2, CountsMoves DEF StoresAtMost
<1>3. ASSUME NEW r, request' = [request EXCEPT ![w] = r],
             checkpoint' = [checkpoint EXCEPT ![q.thread] = q.cp], Stores(q, r)
      PROVE  CountsInStep'
  <2>1. InRun(q) /\ r.thread = q.thread
    BY <1>3 DEF Stores, InRun
  <2>2. checkpoint'[q.thread] = q.cp
        /\ \A t \in Threads : t # q.thread => checkpoint'[t] = checkpoint[t]
    BY <1>3, <1>a, <2>1 DEF IInv, TypeOK
  <2>3. CountsAs(r, q.cp)
    BY <1>3 DEF Stores, CountsAs, SameVerdicts
  <2> QED
    BY <1>3, <2>1, <2>2, <2>3, CountsMoves DEF StoresAtMost
<1>4. ASSUME NEW r, request' = [request EXCEPT ![w] = r], checkpoint' = checkpoint,
             r.step \in {"mark", "idle", "snapshot"}
      PROVE  CountsInStep'
  <2>1. CountsAs(r, checkpoint'[r.thread])
    BY <1>4 DEF CountsAs
  <2> QED
    BY <1>4, <2>1, CountsMoves DEF StoresAtMost
<1> QED
  BY <1>1, <1>2, <1>3, <1>4, ProceedOnly

LEMMA CountsNext ==
  ASSUME IInv, OneRunPerThread, CountsInStep, [Next]_vars
  PROVE  CountsInStep'
<1>1. ASSUME NEW w \in Workers, Arrive(w)
      PROVE  CountsInStep'
  <2>1. PICK r : /\ request' = [request EXCEPT ![w] = r]
                 /\ r.step \in {"load", "update", "snapshot"}
                 /\ UNCHANGED <<checkpoint, ledger, faults>>
    BY <1>1, ArriveOnly
  <2>2. CountsAs(r, checkpoint'[r.thread])
    BY <2>1 DEF CountsAs
  <2> QED
    BY <2>1, <2>2, CountsMoves DEF StoresAtMost
<1>2. CASE FaultStep
  <2>1. \A v \in Workers : CountsAs(request'[v], checkpoint[request'[v].thread])
    BY <1>2, FaultOnlyIdles DEF CountsInStep, CountsAs, Idle
  <2>2. checkpoint' = checkpoint
    BY <1>2, FaultOnlyIdles
  <2> QED
    BY <2>1, <2>2 DEF CountsInStep, CountsAs, SameVerdicts, VerdictsIn, RepliesOf, Done
<1>3. CASE UNCHANGED vars
  BY <1>3 DEF vars, CountsInStep, CountsAs, SameVerdicts, VerdictsIn, RepliesOf, Done
<1> QED
  BY <1>1, <1>2, <1>3, CountsProceed DEF Next, FaultStep

(* An ended run is over.                                                    *)
LEMMA EndsThere ==
  ASSUME IInv, NEW w \in Workers, Proceed(w),
         \/ request[w].step = "resume" /\ checkpoint[request[w].thread].next = "end"
         \/ request[w].step = "save" /\ request[w].cp.next = "end"
  PROVE  request'[w].step = "snapshot"
<1>1. request[w] \in Requests /\ request \in [Workers -> Requests]
  BY DEF IInv, TypeOK
<1>2. ResumeLoad(w) \/ Save(w)
  BY DEF Proceed, SubmitLoad, UpdateRead, UpdatePut, RunStart, RunSupervisor, RunBillingAsks,
     RunBillingRefuses, RunBillingEscalates, RunBillingRefunds, RunSupport, RunAuditor, Runs,
     Snapshot, Mark
<1>3. CASE ResumeLoad(w)
  <2>1. request' = [request EXCEPT ![w] = [request[w] EXCEPT
                      !.cp = checkpoint[request[w].thread], !.step = "snapshot"]]
    BY <1>1, <1>3 DEF ResumeLoad
  <2> QED
    BY <1>1, <2>1 DEF Requests
<1>4. CASE Save(w)
  <2>1. request' = [request EXCEPT ![w].step = "snapshot"]
    BY <1>4 DEF Save
  <2> QED
    BY <1>1, <2>1 DEF Requests
<1> QED
  BY <1>2, <1>3, <1>4

(* One worker moves; the others only close what is closed.                  *)
LEMMA ClosedMoves ==
  ASSUME IInv, NEW w \in Workers, NEW r, request' = [request EXCEPT ![w] = r],
         NEW t \in Threads, Done(checkpoint'[t]),
         \A v \in Workers \ {w} : RunsOn(v, t) => Closing(request[v]),
         InRun(r) /\ r.thread = t => Closing(r)
  PROVE  Closed(t)'
<1>1. request'[w] = r /\ \A v \in Workers \ {w} : request'[v] = request[v]
  BY DEF IInv, TypeOK
<1> QED
  BY <1>1 DEF Closed, RunsOn, InRun, Closing, Done

LEMMA UnsettledProceeds ==
  ASSUME IInv, OneRunPerThread, CountsInStep, NEW w \in Workers, Proceed(w),
         NEW t \in Threads, NEW n, Unsettled(t, n)
  PROVE  Unsettled(t, n)'
<1> DEFINE q == request[w]
           stored == checkpoint[q.thread]
<1>a. /\ q \in Requests /\ CountsAs(q, stored) /\ request \in [Workers -> Requests]
      /\ InRun(q) => q.thread \in Threads /\ stored \in Checkpoints
  BY DEF IInv, TypeOK, InRun, CountsInStep
<1>b. checkpoint' = checkpoint /\ Settled(t) = n => Unsettled(t, n)'
  BY DEF Unsettled, Settled, VerdictsIn, RepliesOf
<1>c. Closed(t) /\ InRun(q) /\ q.thread = t => Closing(q)
  BY DEF Closed, RunsOn
<1>1. CASE q.step = "run"
  <2>1. PICK cp : Ran(w, cp) /\ checkpoint' = checkpoint
    BY <1>1, NodeVerdicts
  <2> DEFINE r == ToSave(w, cp)
  <2>2. request' = [request EXCEPT ![w] = r] /\ r.step = "save" /\ r.thread = q.thread
    BY <1>a, <2>1 DEF Ran, ToSave, Requests
  <2> HIDE DEF r
  <2>3. CASE Closed(t)
    <3>1. q.thread # t
      BY <1>1, <1>c, <2>3 DEF InRun, Closing
    <3> QED
      BY <2>1, <2>2, <2>3, <3>1, ClosedMoves DEF Closed, Unsettled
  <2> QED
    BY <1>b, <2>1, <2>3 DEF Unsettled
<1>2. ASSUME NEW r, request' = [request EXCEPT ![w] = r], checkpoint' = checkpoint,
             Moves(q, r, stored)
      PROVE  Unsettled(t, n)'
  <2>1. CASE Closed(t)
    <3>1. ASSUME InRun(r), r.thread = t PROVE Closing(r)
      <4>1. InRun(q) /\ q.thread = t /\ r.decision = q.decision
        BY <1>2, <3>1 DEF Moves, InRun
      <4>2. Closing(q) /\ Done(stored) /\ stored \in Checkpoints
        BY <1>a, <1>c, <2>1, <4>1 DEF Closed
      <4>3. q.step # "resume"
        <5>1. request'[w] = r
          BY <1>a, <1>2
        <5> QED
          BY <3>1, <4>2, <5>1, EndsThere DEF InRun, Done
      <4>4. r.step = "put" /\ r.cp = UpdateState(stored, q.decision)
        BY <1>2, <4>2, <4>3 DEF Moves, Closing
      <4> QED
        BY <4>1, <4>2, <4>4, LoadsCount DEF Closing
    <3> QED
      BY <1>2, <2>1, <3>1, ClosedMoves DEF Closed, Unsettled
  <2> QED
    BY <1>b, <1>2, <2>1 DEF Unsettled
<1>3. ASSUME NEW r, request' = [request EXCEPT ![w] = r],
             checkpoint' = [checkpoint EXCEPT ![q.thread] = q.cp], Stores(q, r)
      PROVE  Unsettled(t, n)'
  <2>1. InRun(q) /\ r.thread = q.thread /\ r.decision = q.decision /\ q.thread \in Threads
    BY <1>3, <1>a DEF Stores, InRun
  <2>2. checkpoint'[q.thread] = q.cp /\ (q.thread # t => checkpoint'[t] = checkpoint[t])
    BY <1>3, <2>1 DEF IInv, TypeOK
  <2>3. CASE q.thread # t
    <3>1. Settled(t) = n => Settled(t)' = n
      BY <2>2, <2>3 DEF Settled, VerdictsIn, RepliesOf
    <3>2. Closed(t) => Closed(t)'
      BY <1>3, <2>1, <2>2, <2>3, ClosedMoves DEF Closed
    <3> QED
      BY <3>1, <3>2 DEF Unsettled
  <2>4. CASE q.thread = t /\ Closed(t)
    <3>1. q.step = "put" /\ Done(q.cp) /\ q.decision # None
      BY <1>3, <1>c, <2>1, <2>4 DEF Closing, Stores
    <3>2. r.step = "resume" /\ Closing(r)
      BY <1>3, <2>1, <3>1 DEF Stores, Closing
    <3> QED
      BY <1>3, <2>2, <2>4, <3>1, <3>2, ClosedMoves DEF Closed, Unsettled
  <2>5. CASE q.thread = t /\ Settled(t) = n /\ SameVerdicts(q.cp, stored)
    <3>1. Settled(t)' = n
      BY <2>2, <2>5 DEF Settled, SameVerdicts, VerdictsIn, RepliesOf
    <3> QED
      BY <3>1 DEF Unsettled
  <2>6. CASE q.thread = t /\ q.step = "save" /\ Done(q.cp)
    <3>1. r.step = "snapshot"
      BY <1>a, <1>3, <2>6, EndsThere DEF Done
    <3>2. \A v \in Workers \ {w} : ~RunsOn(v, t)
      BY <2>1, <2>6 DEF OneRunPerThread, RunsOn
    <3> QED
      BY <1>3, <2>2, <2>6, <3>1, <3>2, ClosedMoves DEF InRun, Unsettled
  <2>7. q.thread = t => SameVerdicts(q.cp, stored) \/ (q.step = "save" /\ Done(q.cp))
    BY <1>3, <1>a DEF Stores, CountsAs
  <2> QED
    BY <2>3, <2>4, <2>5, <2>6, <2>7 DEF Unsettled
<1>4. ASSUME NEW r, request' = [request EXCEPT ![w] = r], checkpoint' = checkpoint,
             r.step \in {"mark", "idle", "snapshot"}
      PROVE  Unsettled(t, n)'
  <2>1. CASE Closed(t)
    BY <1>4, <2>1, ClosedMoves DEF Closed, InRun, Unsettled
  <2> QED
    BY <1>b, <1>4, <2>1 DEF Unsettled
<1> QED
  BY <1>1, <1>2, <1>3, <1>4, ProceedOnly

LEMMA UnsettledStays ==
  ASSUME IInv, IInv', OneRunPerThread, CountsInStep, [Next]_vars, NEW t \in Threads,
         tickets'[t] = tickets[t], NEW n, Unsettled(t, n)
  PROVE  Unsettled(t, n)'
<1>1. ASSUME NEW w \in Workers, Arrive(w)
      PROVE  Unsettled(t, n)'
  <2>1. PICK r : /\ request' = [request EXCEPT ![w] = r]
                 /\ r.step \in {"load", "update", "snapshot"}
                 /\ UNCHANGED <<checkpoint, ledger, faults>>
                 /\ tickets' = IF r.step = "load"
                                THEN [tickets EXCEPT ![r.thread] = @ + 1] ELSE tickets
    BY <1>1, ArriveOnly
  <2>2. CASE Settled(t) = n
    BY <2>1, <2>2 DEF Unsettled, Settled, VerdictsIn, RepliesOf
  <2>3. CASE Closed(t)
    <3>1. ~(r.step = "load" /\ r.thread = t)
      BY <2>1, ServiceAssumption DEF IInv, TypeOK
    <3>2. r.step = "update" => r.decision # None
      BY <2>1, NoneIsNothing DEF IInv, TypeOK, RequestGoverned
    <3>3. InRun(r) /\ r.thread = t => Closing(r)
      BY <2>1, <3>1, <3>2 DEF InRun, Closing
    <3> QED
      BY <2>1, <2>3, <3>3, ClosedMoves DEF Closed, Unsettled
  <2> QED
    BY <2>2, <2>3 DEF Unsettled
<1>2. CASE FaultStep
  <2>1. /\ checkpoint' = checkpoint
        /\ \A v \in Workers : request'[v] = request[v] \/ ~InRun(request'[v])
    BY <1>2, FaultOnlyIdles DEF Idle, InRun
  <2>2. Closed(t) => Closed(t)'
    BY <2>1 DEF Closed, RunsOn, InRun, Closing, Done
  <2>3. Settled(t) = n => Settled(t)' = n
    BY <2>1 DEF Settled, VerdictsIn, RepliesOf
  <2> QED
    BY <2>2, <2>3 DEF Unsettled
<1>3. CASE UNCHANGED vars
  BY <1>3 DEF vars, Unsettled, Settled, VerdictsIn, RepliesOf, Closed, RunsOn, InRun, Closing, Done
<1> QED
  BY <1>1, <1>2, <1>3, UnsettledProceeds DEF Next, FaultStep

--------------------------------------------------------------------------------
(* What an item says lasts until a ticket.                                  *)

LEMMA CurrentStays ==
  ASSUME IInv, IInv', HalfWayInRuns, [Next]_vars, NEW t \in Threads, NEW item,
         item.seen \in Nat, CurrentAt(t, item)
  PROVE  CurrentAt(t, item)'
<1>a. tickets[t] \in Nat /\ tickets \in [Threads -> Nat]
  BY ServiceAssumption DEF IInv, TypeOK
<1>1. ASSUME NEW w \in Workers, Arrive(w)
      PROVE  CurrentAt(t, item)'
  <2>1. PICK r : /\ request' = [request EXCEPT ![w] = r]
                 /\ r.step \in {"load", "update", "snapshot"}
                 /\ UNCHANGED <<checkpoint, ledger, faults>>
                 /\ tickets' = IF r.step = "load"
                                THEN [tickets EXCEPT ![r.thread] = @ + 1] ELSE tickets
    BY <1>1, ArriveOnly
  <2>2. CASE r.step = "load" /\ r.thread = t
    <3>1. tickets'[t] = tickets[t] + 1
      BY <1>a, <2>1, <2>2
    <3> QED
      BY <1>a, <3>1 DEF CurrentAt
  <2>3. CASE ~(r.step = "load" /\ r.thread = t)
    <3>1. tickets'[t] = tickets[t]
      BY <1>a, <2>1, <2>3
    <3>2. Current(t, item) => Current(t, item)'
      <4>1. request'[w] = r /\ \A v \in Workers \ {w} : request'[v] = request[v]
        BY <2>1 DEF IInv, TypeOK
      <4>2. r.step = "update" => r.decision # None
        BY <4>1, NoneIsNothing DEF IInv, RequestGoverned
      <4>3. ~TicketOf(r, t)
        BY <2>1, <2>3, <4>2 DEF TicketOf, InRun
      <4> QED
        BY <2>1, <4>1, <4>3 DEF Current, TicketRuns, TicketOf, RunsOn
    <3> QED
      BY <2>1, <3>1, <3>2 DEF CurrentAt
  <2> QED
    BY <2>2, <2>3
<1>2. ASSUME NEW w \in Workers, Proceed(w)
      PROVE  CurrentAt(t, item)'
  <2>1. tickets' = tickets /\ faults' = faults
    BY <1>2 DEF Proceed, SubmitLoad, UpdateRead, UpdatePut, ResumeLoad, Save, RunStart,
       RunSupervisor, RunBillingAsks, RunBillingRefuses, RunBillingEscalates,
       RunBillingRefunds, RunSupport, RunAuditor, Snapshot, Mark, histories
  <2> QED
    BY <1>2, <2>1, CurrentProceeds DEF CurrentAt
<1>3. CASE FaultStep
  <2>1. checkpoint' = checkpoint /\ tickets' = tickets
    BY <1>3, FaultOnlyIdles DEF histories
  <2>2. CASE UNCHANGED <<request, faults>>
    BY <2>1, <2>2 DEF CurrentAt, Current, TicketRuns, RunsOn
  <2>3. CASE faults' # 0
    BY <2>1, <2>3 DEF CurrentAt
  <2> QED
    BY <1>3, <2>2, <2>3, FaultCounts
<1>4. CASE UNCHANGED vars
  BY <1>4 DEF vars, CurrentAt, Current, TicketRuns, RunsOn
<1> QED
  BY <1>1, <1>2, <1>3, <1>4 DEF Next, FaultStep

LEMMA TicketsGrow ==
  ASSUME IInv, [Next]_vars, NEW t \in Threads
  PROVE  tickets[t] \in Nat /\ tickets'[t] \in Nat /\ tickets[t] <= tickets'[t]
<1>a. tickets[t] \in Nat /\ tickets \in [Threads -> Nat]
  BY ServiceAssumption DEF IInv, TypeOK
<1>1. ASSUME NEW w \in Workers, Arrive(w)
      PROVE  tickets'[t] \in {tickets[t], tickets[t] + 1}
  <2>1. PICK r : tickets' = IF r.step = "load" THEN [tickets EXCEPT ![r.thread] = @ + 1]
                            ELSE tickets
    BY <1>1, ArriveOnly
  <2> QED
    BY <1>a, <2>1
<1>2. ASSUME NEW w \in Workers, Proceed(w)
      PROVE  tickets' = tickets
  BY <1>2 DEF Proceed, SubmitLoad, UpdateRead, UpdatePut, ResumeLoad, Save, RunStart,
     RunSupervisor, RunBillingAsks, RunBillingRefuses, RunBillingEscalates,
     RunBillingRefunds, RunSupport, RunAuditor, Snapshot, Mark, histories
<1>3. FaultStep => tickets' = tickets
  BY FaultOnlyIdles DEF histories
<1>4. UNCHANGED vars => tickets' = tickets
  BY DEF vars
<1>5. tickets'[t] \in {tickets[t], tickets[t] + 1}
  BY <1>1, <1>2, <1>3, <1>4 DEF Next, FaultStep
<1> QED
  BY <1>a, <1>5

LEMMA ShownStays ==
  ASSUME IInv, IInv', OneRunPerThread, CountsInStep, HalfWayInRuns, [Next]_vars,
         NEW t \in Threads, NEW item, item.seen \in Nat, ShownAt(t, item)
  PROVE  ShownAt(t, item)'
<1>1. CurrentAt(t, item)'
  BY CurrentStays DEF ShownAt
<1>2. ASSUME item.seen = tickets'[t]
      PROVE  Unsettled(t, item.settled)'
  <2>1. tickets'[t] = tickets[t]
    BY <1>2, TicketsGrow DEF ShownAt, CurrentAt
  <2> QED
    BY <1>2, <2>1, UnsettledStays DEF ShownAt
<1> QED
  BY <1>1, <1>2 DEF ShownAt

--------------------------------------------------------------------------------
(* The console.                                                             *)

(* A decision is made on an item of a card and keeps it; what is posted     *)
(* names its thread.                                                        *)
LEMMA DecisionsFrom ==
  ASSUME ConsoleInv, [ConsoleNext]_allVars, NEW c \in Calls, call'[c].kind = "decide"
  PROVE  \/ /\ call[c].kind = "decide"
            /\ call'[c].thread = call[c].thread /\ call'[c].item = call[c].item
         \/ /\ call[c].kind = "free"
            /\ \E t \in Threads : /\ cards[t] # None /\ call'[c].thread = t
                                 /\ call'[c].item = cards[t].item
<1>a. /\ call \in [Calls -> CallRecords] /\ CallsOK /\ ServingOK /\ AttachedOK
      /\ serving \in [Workers -> Calls \cup {None}]
  BY DEF ConsoleInv, CallsOK, ServingOK
<1>b. /\ FreeCall.kind = "free" /\ LoadCall.kind = "load"
  BY FreeCallType
<1> DEFINE Same == /\ call[c].kind = "decide"
                   /\ call'[c].thread = call[c].thread /\ call'[c].item = call[c].item
<1>1. ASSUME NEW d \in Calls, Load(d) \/ LoadFailed(d) \/ Decided(d) \/ DecideFailed(d)
      PROVE  Same
  BY <1>a, <1>b, <1>1 DEF Load, LoadFailed, Decided, DecideFailed
<1>2. ASSUME NEW d \in Calls, Loaded(d)
      PROVE  Same
  <2>1. c # d
    BY <1>a, <1>b, <1>2 DEF Loaded
  <2>2. call'[c] = [call[c] EXCEPT !.attached = FALSE]
    BY <1>2, <2>1 DEF Loaded
  <2> QED
    BY <1>a, <2>2 DEF CallRecords
<1>3. ASSUME NEW d \in Calls, Lose(d) PROVE Same
  BY <1>a, <1>3, FailedType DEF Lose
<1>4. ASSUME NEW d \in Calls, NEW t \in Threads, NEW decision \in Verdicts,
             Decide(d, t, decision)
      PROVE  \/ Same
             \/ /\ call[c].kind = "free" /\ cards[t] # None /\ call'[c].thread = t
                /\ call'[c].item = cards[t].item
  <2> DEFINE r == [FreeCall EXCEPT !.kind = "decide", !.stage = "sent", !.thread = t,
                                   !.decision = decision, !.item = cards[t].item,
                                   !.attached = TRUE]
  <2>1. cards[t] # None /\ call[d].kind = "free" /\ call' = [call EXCEPT ![d] = r]
    BY <1>4 DEF Decide
  <2>2. r.thread = t /\ r.item = cards[t].item
    BY DEF FreeCall
  <2> HIDE DEF r
  <2> QED
    BY <1>a, <2>1, <2>2
<1>5. ASSUME NEW w \in Workers, NEW d \in Calls, Take(w, d) PROVE Same
  BY <1>a, <1>5 DEF Take, CallRecords
<1>6. ASSUME NEW w \in Workers, NEW d \in Calls, TakeEmpty(w, d) PROVE Same
  <2> DEFINE r == [call[d] EXCEPT !.stage = "answered", !.ok = TRUE]
  <2>1. call' = [call EXCEPT ![d] = r]
    BY <1>a, <1>6 DEF TakeEmpty
  <2>2. r.kind = call[d].kind /\ r.thread = call[d].thread /\ r.item = call[d].item
    BY <1>a DEF CallRecords
  <2> HIDE DEF r
  <2> QED
    BY <1>a, <2>1, <2>2
<1>7. ASSUME NEW w \in Workers, Serve(w) PROVE Same
  <2>1. CASE call' = call
    BY <2>1
  <2>2. ASSUME serving[w] # None,
               \/ call' = [call EXCEPT ![serving[w]].stage = "answered",
                                       ![serving[w]].ok = TRUE]
               \/ call' = [call EXCEPT ![serving[w]].items = Gathered(w)]
        PROVE  Same
    BY <1>a, <2>2 DEF CallRecords
  <2> QED
    BY <1>7, <2>1, <2>2 DEF Serve
<1>8. ASSUME ServerDies \/ \E w \in Workers : ServerFails(w) PROVE Same
  BY <1>a, <1>8, FailedType DEF ServerDies, ServerFails
<1>9. CASE call' = call
  BY <1>9
<1> QED
  BY <1>1, <1>2, <1>3, <1>4, <1>5, <1>6, <1>7, <1>8, <1>9
     DEF ConsoleNext, Receive, OthersSubmit, OthersReview, OthersGet, ServerRestarts,
         console, allVars

LEMMA ShownNext ==
  ASSUME ConsoleInv, OneRunPerThread, CountsInStep, HalfWayInRuns, [ConsoleNext]_allVars,
         ItemsShown, CardsShown, DecisionsShown
  PROVE  ItemsShown' /\ CardsShown' /\ DecisionsShown'
<1>a. /\ [Next]_vars /\ IInv /\ IInv' /\ CallsOK /\ call \in [Calls -> CallRecords]
      /\ cards \in [Threads -> Cards \cup {None}]
  BY ConsoleStep, ConsoleNextInvariant DEF ConsoleInv, CallsOK
<1>b. \A item \in Items : item.seen \in Nat
  BY ServiceAssumption DEF Items
<1>c. ASSUME NEW t \in Threads, NEW item \in Items, ShownAt(t, item)
      PROVE  ShownAt(t, item)'
  BY <1>a, <1>b, <1>c, ShownStays
<1>d. \A c \in Calls, t \in Threads :
        call[c].items[t] # None => call[c].items[t] \in Items /\ ShownAt(t, call[c].items[t])
  BY <1>a DEF CallRecords, ItemsShown
<1>e. \A t \in Threads : cards[t] # None => cards[t].item \in Items /\ ShownAt(t, cards[t].item)
  BY <1>a DEF Cards, CardsShown
<1>f. \A c \in Calls : call[c].kind = "decide" =>
        /\ call[c].item \in Items /\ call[c].thread \in Threads
        /\ ShownAt(call[c].thread, call[c].item)
  BY <1>a DEF CallsOK, DecisionsShown
<1>1. ASSUME NEW c \in Calls, NEW t \in Threads, NEW item, call'[c].items[t] = item,
             item # None
      PROVE  ShownAt(t, item)'
  <2>1. CASE call[c].items[t] = item
    BY <1>c, <1>d, <1>1, <2>1
  <2>2. ASSUME NEW w \in Workers, GathersItem(w, c, t, item)
        PROVE  ShownAt(t, item)'
    <3>1. /\ request[w].step = "snapshot" /\ Proceed(w)
          /\ item.shown = checkpoint[t].proposed /\ item.seen = tickets[t]
          /\ item.busy = TicketRuns(t) /\ item.settled = Settled(t)
      BY <2>2 DEF GathersItem, Serve
    <3>2. UNCHANGED <<histories, faults>> /\ checkpoint' = checkpoint
      BY <1>a, <3>1, ProceedOnly DEF Moves, Stores
    <3>3. TicketRuns(t)' => TicketRuns(t)
      <4>1. \A v \in Workers : TicketOf(request'[v], t) => TicketOf(request[v], t)
        BY <1>a, <3>1, RunGoesOn, OnlyItsOwn DEF TicketOf
      <4> QED
        BY <4>1 DEF TicketRuns, TicketOf, RunsOn
    <3>4. tickets'[t] = tickets[t] /\ tickets[t] \in Nat
      BY <1>a, <3>2, ServiceAssumption DEF histories, IInv, TypeOK
    <3>5. Settled(t)' = item.settled
      BY <3>1, <3>2 DEF Settled, VerdictsIn, RepliesOf
    <3> QED
      BY <3>1, <3>2, <3>3, <3>4, <3>5 DEF ShownAt, CurrentAt, Current, Unsettled
  <2> QED
    BY <1>1, <2>1, <2>2, ItemsFrom
<1>2. ASSUME NEW t \in Threads, NEW item, cards'[t] # None, cards'[t].item = item
      PROVE  ShownAt(t, item)'
  BY <1>c, <1>d, <1>e, <1>2, CardsFrom
<1>3. ASSUME NEW c \in Calls, call'[c].kind = "decide",
             NEW t, NEW item, call'[c].thread = t, call'[c].item = item
      PROVE  ShownAt(t, item)'
  <2>1. t \in Threads /\ item \in Items /\ ShownAt(t, item)
    BY <1>e, <1>f, <1>3, DecisionsFrom
  <2> QED
    BY <1>c, <2>1
<1>4. ItemsShown'
  BY <1>1 DEF ItemsShown, ShownAt, CurrentAt, Current, TicketRuns, RunsOn, Unsettled, Settled,
     VerdictsIn, RepliesOf, Closed, Closing, Done
<1>5. CardsShown'
  BY <1>2 DEF CardsShown, ShownAt, CurrentAt, Current, TicketRuns, RunsOn, Unsettled, Settled,
     VerdictsIn, RepliesOf, Closed, Closing, Done
<1>6. DecisionsShown'
  BY <1>3 DEF DecisionsShown, ShownAt, CurrentAt, Current, TicketRuns, RunsOn, Unsettled, Settled,
     VerdictsIn, RepliesOf, Closed, Closing, Done
<1> QED
  BY <1>4, <1>5, <1>6

LEMMA OnItsThreadNext ==
  ASSUME ConsoleInv, OnItsThread, [ConsoleNext]_allVars
  PROVE  OnItsThread'
<1> SUFFICES ASSUME NEW w \in Workers, serving'[w] # None, call'[serving'[w]].kind = "decide",
                    InRun(request'[w])
             PROVE  request'[w].thread = call'[serving'[w]].thread
  BY DEF OnItsThread, InRun
<1>a. /\ IInv /\ request \in [Workers -> Requests] /\ call \in [Calls -> CallRecords]
      /\ serving \in [Workers -> Calls \cup {None}] /\ ServingOK
  BY DEF ConsoleInv, IInv, TypeOK, CallsOK, ServingOK
<1>1. ASSUME NEW c \in Calls, Take(w, c), serving'[w] = c
      PROVE  request'[w].thread = call'[serving'[w]].thread
  <2>1. call'[c].kind = call[c].kind /\ call'[c].thread = call[c].thread
    BY <1>a, <1>1 DEF Take, CallRecords
  <2>2. Review(w, call[c].thread, call[c].decision)
    BY <1>1, <2>1 DEF Take
  <2>3. request'[w].thread = call[c].thread
    BY <1>a, <2>2 DEF Review, Idle
  <2> QED
    BY <1>1, <2>1, <2>3
<1>2. ASSUME serving[w] = serving'[w], request'[w] = request[w] \/ Proceed(w)
      PROVE  request'[w].thread = call'[serving'[w]].thread
  <2>1. PICK c \in Calls : serving[w] = c
    BY <1>a, <1>2
  <2>2. call[c].kind = "decide" /\ call[c].kind # "free"
    BY <1>2, <2>1, ServedKind
  <2>3. call'[c].thread = call[c].thread
    BY <1>2, <2>1, <2>2, DecisionsFrom
  <2>4. InRun(request[w]) /\ request'[w].thread = request[w].thread
    BY <1>a, <1>2, RunGoesOn
  <2> QED
    BY <1>2, <2>1, <2>2, <2>3, <2>4 DEF OnItsThread
<1> QED
  BY <1>1, <1>2, ServingFrom

LEMMA ShownInvariant ==
  ConsolePerThreadSpec => [](ConsoleInv /\ OfferInv /\ ShownInv)
<1>1. ConsoleInit => ShownInv
  <2> SUFFICES ASSUME ConsoleInit PROVE ShownInv
    OBVIOUS
  <2>1. /\ \A t \in Threads : checkpoint[t].next = "end" /\ cards[t] = None
        /\ \A w \in Workers : request[w].step = "idle" /\ serving[w] = None
    BY DEF ConsoleInit, Init, EmptyCheckpoint, Idle, NoItems
  <2>2. \A c \in Calls : call[c].kind = "free" /\ \A t \in Threads : call[c].items[t] = None
    BY DEF ConsoleInit, FreeCall, NoItems
  <2> QED
    BY <2>1, <2>2 DEF ShownInv, CountsInStep, CountsAs, HalfWayInRuns, MayRefund, Calm, ItemsShown, CardsShown,
       DecisionsShown, OnItsThread
<1>2. ASSUME ConsoleInv, OneRunPerThread, SerialInv, TallyInv, ShownInv,
             [ConsoleNext]_allVars
      PROVE  ShownInv'
  BY <1>2, ConsoleStep, CountsNext, SettledNext, ShownNext, OnItsThreadNext DEF ShownInv, ConsoleInv
<1>3. ConsoleInv /\ OneRunPerThread /\ SerialInv /\ TallyInv /\ ShownInv
        /\ [ConsoleNext]_allVars => ShownInv'
  BY <1>2
<1>4. ConsolePerThreadSpec => []TallyInv
  BY ConsolePerThread, TallyInvariant, PTL
<1> QED
  BY <1>1, <1>3, <1>4, ConsolePerThread, OfferInvariant, PTL DEF ConsoleSpec

(* The request that runs the auditor for a call is on the thread of the     *)
(* call's card, whose item is what ShownAt says.                            *)
LEMMA CardOfRun ==
  ASSUME ConsoleInv, OfferInv, ShownInv, NEW w \in Workers, serving[w] # None, RunAuditor(w)
  PROVE  LET c == serving[w]
             t == call[c].thread
             item == call[c].item
         IN  /\ c \in Calls /\ t \in Threads /\ item \in Items /\ ShownAt(t, item)
             /\ request[w].step = "run" /\ request[w].thread = t
             /\ tickets[t] \in Nat /\ item.seen \in Nat
<1> DEFINE c == serving[w]
<1>1. /\ c \in Calls /\ request[w].step = "run" /\ call[c].kind = "decide"
      /\ call[c] \in CallRecords
  BY DEF ConsoleInv, ServingOK, CallsOK, CallRecords, RunAuditor, Runs, OfferInv, LoadsOffer
<1>2. /\ call[c].thread \in Threads /\ call[c].item \in Items
      /\ request[w].thread = call[c].thread
  BY <1>1 DEF ConsoleInv, CallsOK, ShownInv, OnItsThread, InRun
<1>3. tickets[call[c].thread] \in Nat /\ call[c].item.seen \in Nat
  BY <1>2, ServiceAssumption DEF ConsoleInv, IInv, TypeOK, Items
<1> QED
  BY <1>1, <1>2, <1>3 DEF ShownInv, DecisionsShown

(* With one run per thread at a time and until a fault, an approval pays    *)
(* the action that the card of the click was showing, unless a ticket of    *)
(* the thread was running at the snapshot or came after it (decide of       *)
(* app.js, submit_decision, auditor_node), for any number of workers,       *)
(* calls, threads and lost answers.                                         *)
THEOREM ApprovalsPayTheirCard == ConsolePerThreadSpec => ApprovalPaysWhatWasShown
<1> DEFINE AsShown(w) ==
      LET c == serving[w]
          paid == ActionOf(ledger'[Len(ledger')])
      IN  (Len(ledger') > Len(ledger) /\ c # None /\ RunAuditor(w)) =>
            \/ paid = call[c].item.shown
            \/ tickets[call[c].thread] > call[c].item.seen \/ call[c].item.busy
            \/ faults > 0
<1>1. ASSUME ConsoleInv, OfferInv, ShownInv, [ConsoleNext]_allVars, NEW w \in Workers
      PROVE  AsShown(w)
  <2> DEFINE c == serving[w]
             q == request[w]
  <2> SUFFICES ASSUME Len(ledger') > Len(ledger), c # None, RunAuditor(w), faults = 0,
                      ~(tickets[call[c].thread] > call[c].item.seen),
                      ~call[c].item.busy
               PROVE  ActionOf(ledger'[Len(ledger')]) = call[c].item.shown
    BY <1>1, ServiceAssumption DEF ConsoleInv, IInv, TypeOK
  <2>1. /\ q.step = "run" /\ q.thread = call[c].thread /\ q.thread \in Threads
        /\ ShownAt(call[c].thread, call[c].item)
        /\ tickets[call[c].thread] \in Nat /\ call[c].item.seen \in Nat
    BY <1>1, CardOfRun
  <2>4. Current(call[c].thread, call[c].item)
    BY <2>1 DEF ShownAt, CurrentAt
  <2>5. q.cp.proposed = call[c].item.shown
    <3>1. q.decision # None
      BY <2>1, <2>4 DEF Current, TicketRuns, RunsOn, InRun
    <3> QED
      BY <1>1, <2>1, <2>4, <3>1 DEF ShownInv, HalfWayInRuns, Calm, Current
  <2>6. ledger \in Seq(Refunds)
    BY <1>1 DEF ConsoleInv, IInv, TypeOK
  <2>7. AuditorPays(q.cp)
    BY <2>6 DEF RunAuditor
  <2>8. PICK r : PaysFor(w, r)
    BY <1>1, <2>7, AuditorPaysFor DEF ConsoleInv
  <2>9. ledger'[Len(ledger')] = r
    BY <2>6, <2>8 DEF PaysFor
  <2> QED
    BY <2>5, <2>8, <2>9 DEF PaysFor
<1> HIDE DEF AsShown
<1>2. ConsoleInv /\ OfferInv /\ ShownInv /\ [ConsoleNext]_allVars =>
        [\A w \in Workers : AsShown(w)]_allVars
  BY <1>1
<1>3. ConsolePerThreadSpec => [][\A w \in Workers : AsShown(w)]_allVars
  BY <1>2, ShownInvariant, ConsolePerThread, PTL DEF ConsoleSpec
<1> QED
  BY <1>3 DEF ApprovalPaysWhatWasShown, AsShown

(* With one run per thread at a time, whatever was lost, failed, crashed or *)
(* answered late, and however often and by whomever decisions are posted,   *)
(* the auditor acts for a card only while the conversation holds no verdict *)
(* newer than the card's snapshot, unless a ticket came after it (decide of *)
(* app.js, submit_decision, auditor_node).                                  *)
THEOREM DecisionsSettleOnce == ConsolePerThreadSpec => CardsSettleOnce
<1> DEFINE Once(w) ==
      LET c == serving[w]
          t == call[c].thread
      IN  (c # None /\ RunAuditor(w)) =>
            \/ Settled(t) = call[c].item.settled
            \/ tickets[t] > call[c].item.seen
<1>1. ASSUME ConsoleInv, OfferInv, ShownInv, NEW w \in Workers
      PROVE  Once(w)
  <2> DEFINE c == serving[w]
             t == call[c].thread
  <2> SUFFICES ASSUME c # None, RunAuditor(w), ~(tickets[t] > call[c].item.seen)
               PROVE  Settled(t) = call[c].item.settled
    OBVIOUS
  <2>1. /\ request[w].step = "run" /\ request[w].thread = t /\ ShownAt(t, call[c].item)
        /\ tickets[t] \in Nat /\ call[c].item.seen \in Nat
    BY <1>1, CardOfRun
  <2>2. Unsettled(t, call[c].item.settled)
    BY <2>1 DEF ShownAt, CurrentAt
  <2>3. ~Closed(t)
    BY <2>1 DEF Closed, RunsOn, InRun, Closing
  <2> QED
    BY <2>2, <2>3 DEF Unsettled
<1> HIDE DEF Once
<1>2. ConsoleInv /\ OfferInv /\ ShownInv => \A w \in Workers : Once(w)
  BY <1>1
<1>3. ConsolePerThreadSpec => [][\A w \in Workers : Once(w)]_allVars
  BY <1>2, ShownInvariant, PTL
<1> QED
  BY <1>3 DEF CardsSettleOnce, Once
================================================================================
