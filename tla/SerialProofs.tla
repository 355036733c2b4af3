------------------------------ MODULE SerialProofs ------------------------------
(***************************************************************************)
(* What ServiceProperties claims of one run per thread at a time, proved   *)
(* for any number of workers and of threads and any fault.  Nothing is     *)
(* stored on a thread between the steps of a run but by the run itself, so *)
(* its copy of the checkpoint stays in step with the stored one; the       *)
(* invariants here say how far.  A service of one worker is such a one.    *)
(***************************************************************************)
EXTENDS ServiceProofs, FiniteSetTheorems

OneAtATime == \A v, w \in Workers : v = w

(* One worker runs the requests of all threads one after the other, and so  *)
(* those of each thread: what is proved of PerThreadSpec holds of it.       *)
LEMMA OneIsPerThread ==
  ASSUME OneAtATime
  PROVE  OneRunPerThread /\ OneRunPerThread'
BY DEF OneAtATime, OneRunPerThread

THEOREM OneWorkerIsPerThread ==
  ASSUME OneAtATime
  PROVE  Spec => PerThreadSpec
<1>1. [Next]_vars => [Next /\ OneRunPerThread']_vars
  BY OneIsPerThread
<1> QED
  BY <1>1, PTL DEF Spec, PerThreadSpec

(* The conversation new continues old.                                      *)
Extends(old, new) == Len(old) <= Len(new) /\ \A i \in 1 .. Len(old) : new[i] = old[i]

(* A request that carries a decision has it in the state it works on, from  *)
(* update_state on, and only such a request runs the auditor.               *)
DecisionKept(r, stored) ==
  /\ r.step = "load" => r.decision = None
  /\ r.step = "put" => r.decision \in Verdicts /\ r.cp.decision = r.decision
  /\ r.step = "resume" => r.decision \in Verdicts /\ stored.decision = r.decision
  /\ r.step \in {"run", "save"} /\ r.decision # None => r.cp.decision = r.decision
  /\ r.step = "run" /\ r.cp.next = "auditor" => r.decision # None

(* Its copy continues the stored conversation, has a proposal when there is *)
(* one, and until a node has run holds the stored escalation.               *)
CopyInStep(r, stored) ==
  /\ r.step \in {"put", "run", "save"} =>
       /\ Extends(stored.messages, r.cp.messages)
       /\ stored.proposed # None => r.cp.proposed # None
  /\ r.step \in {"put", "run"} => Undecided(r.cp) = Undecided(stored)

InStep(r, stored) == r.step # "idle" => DecisionKept(r, stored) /\ CopyInStep(r, stored)

SerialInv == \A w \in Workers : InStep(request[w], checkpoint[request[w].thread])

--------------------------------------------------------------------------------
(* Conversations.                                                           *)

LEMMA ExtendsSelf == ASSUME NEW s \in Seq(Entries) PROVE Extends(s, s)
BY DEF Extends

LEMMA ExtendsAppend ==
  ASSUME NEW old \in Seq(Entries), NEW s \in Seq(Entries), NEW e, Extends(old, s)
  PROVE  Extends(old, Append(s, e))
<1>1. Len(Append(s, e)) = Len(s) + 1 /\ \A i \in 1 .. Len(s) : Append(s, e)[i] = s[i]
  OBVIOUS
<1> QED
  BY <1>1 DEF Extends

LEMMA ExtendsIsPrefix ==
  ASSUME NEW old \in Seq(Entries), NEW new \in Seq(Entries), Extends(old, new)
  PROVE  Len(old) <= Len(new) /\ SubSeq(new, 1, Len(old)) = old
<1>1. SubSeq(new, 1, Len(old)) = [i \in 1 .. Len(old) |-> new[i]]
  BY DEF Extends
<1>2. old = [i \in 1 .. Len(old) |-> old[i]]
  OBVIOUS
<1> QED
  BY <1>1, <1>2 DEF Extends

--------------------------------------------------------------------------------
(* What the nodes keep of a checkpoint.                                     *)

Keeps(old, new) ==
  /\ new.decision = old.decision
  /\ old.proposed # None => new.proposed # None
  /\ \A m \in Seq(Entries) : Extends(m, old.messages) => Extends(m, new.messages)

LEMMA StartKeeps ==
  ASSUME NEW cp \in Checkpoints
  PROVE  Keeps(cp, Start(cp)) /\ Undecided(Start(cp)) = Undecided(cp)
BY ExtendsAppend DEF Start, Advance, Keeps, Undecided, Checkpoints

LEMMA SupervisorKeeps ==
  ASSUME NEW cp \in Checkpoints, NEW intent, NEW id
  PROVE  /\ Keeps(cp, Supervisor(cp, intent, id))
         /\ Undecided(Supervisor(cp, intent, id)) = Undecided(cp)
BY DEF Supervisor, Advance, Keeps, Undecided, Checkpoints

LEMMA BillingRepliesKeeps ==
  ASSUME NEW cp \in Checkpoints, NEW reply
  PROVE  /\ Keeps(cp, BillingReplies(cp, reply))
         /\ Undecided(BillingReplies(cp, reply)) = Undecided(cp)
BY ExtendsAppend DEF BillingReplies, Reply, Advance, Keeps, Undecided, Checkpoints

LEMMA BillingEscalatesKeeps ==
  ASSUME NEW cp \in Checkpoints, ~BillingIncomplete(cp)
  PROVE  /\ Keeps(cp, BillingEscalates(cp))
         /\ Undecided(BillingEscalates(cp)) = [user |-> cp.user, amount |-> BillingAmount(cp)]
<1>1. [user |-> cp.user, amount |-> BillingAmount(cp)] # None
  BY BillingActionType, NoneIsNothing
<1> QED
  BY <1>1, ExtendsAppend DEF BillingEscalates, Reply, Advance, Keeps, Undecided, Checkpoints

LEMMA SupportKeeps ==
  ASSUME NEW cp \in Checkpoints
  PROVE  Keeps(cp, Support(cp)) /\ Undecided(Support(cp)) = Undecided(cp)
BY ExtendsAppend DEF Support, Reply, Advance, Keeps, Undecided, Checkpoints

LEMMA AuditorKeeps ==
  ASSUME NEW cp \in Checkpoints
  PROVE  /\ Keeps(cp, Auditor(cp))
         /\ Auditor(cp).next = "end"
         /\ cp.decision \in Verdicts => Undecided(Auditor(cp)) = None
<1>1. CASE AuditorPays(cp)
  BY <1>1, ExtendsAppend DEF Auditor, Reply, Advance, Route, Keeps, Undecided, Checkpoints
<1>2. CASE ~AuditorPays(cp) /\ cp.decision = "denied"
  BY <1>2, ExtendsAppend DEF Auditor, Reply, Advance, Route, Keeps, Undecided, Checkpoints
<1>3. CASE ~AuditorPays(cp) /\ cp.decision # "denied"
  BY <1>3 DEF Auditor, AuditorPays, Advance, Route, Keeps, Undecided, Checkpoints, Verdicts
<1> QED
  BY <1>1, <1>2, <1>3

--------------------------------------------------------------------------------
(* A step of one worker.                                                    *)

(* It stores nothing, or stores on the thread it alone runs on.             *)
StoresAtMost(w) ==
  \/ checkpoint' = checkpoint
  \/ /\ InRun(request[w])
     /\ \A u \in Threads \ {request[w].thread} : checkpoint'[u] = checkpoint[u]

LEMMA OthersStay ==
  ASSUME IInv, OneRunPerThread, NEW w \in Workers, StoresAtMost(w),
         NEW v \in Workers \ {w}, InRun(request[v])
  PROVE  checkpoint'[request[v].thread] = checkpoint[request[v].thread]
<1>1. request[v].thread \in Threads
  BY DEF IInv, TypeOK, InRun
<1>2. InRun(request[w]) => request[w].thread # request[v].thread
  BY <1>1 DEF OneRunPerThread, RunsOn
<1> QED
  BY <1>1, <1>2 DEF StoresAtMost

LEMMA OneMoves ==
  ASSUME IInv, SerialInv, OneRunPerThread, NEW w \in Workers, StoresAtMost(w),
         NEW r, request' = [request EXCEPT ![w] = r],
         r.step # "idle" => InStep(r, checkpoint'[r.thread])
  PROVE  SerialInv'
<1> SUFFICES ASSUME NEW v \in Workers
             PROVE  InStep(request'[v], checkpoint'[request'[v].thread])
  BY DEF SerialInv, InStep, DecisionKept, CopyInStep, Extends, Undecided
<1>1. CASE v = w
  <2>1. request'[v] = r
    BY <1>1 DEF IInv, TypeOK
  <2> QED
    BY <2>1 DEF InStep
<1>2. CASE v # w
  <2>1. request'[v] = request[v] /\ InStep(request[v], checkpoint[request[v].thread])
    BY <1>2 DEF IInv, TypeOK, SerialInv
  <2>2. CASE InRun(request[v])
    <3>1. checkpoint'[request[v].thread] = checkpoint[request[v].thread]
      BY <1>2, <2>2, OthersStay
    <3> QED
      BY <2>1, <3>1
  <2>3. CASE ~InRun(request[v])
    BY <2>1, <2>3 DEF InRun, InStep, DecisionKept, CopyInStep
  <2> QED
    BY <2>2, <2>3
<1> QED
  BY <1>1, <1>2

LEMMA OneRuns ==
  ASSUME IInv, SerialInv, OneRunPerThread, NEW w \in Workers, request[w].step = "run",
         NEW cp \in Checkpoints, Keeps(request[w].cp, cp), Ran(w, cp),
         checkpoint' = checkpoint
  PROVE  SerialInv'
<1> DEFINE q == request[w]
<1>1. /\ q \in Requests /\ q.thread \in Threads
      /\ DecisionKept(q, checkpoint[q.thread]) /\ CopyInStep(q, checkpoint[q.thread])
      /\ checkpoint[q.thread].messages \in Seq(Entries)
  BY DEF IInv, TypeOK, SerialInv, InStep, Checkpoints
<1>2. request' = [request EXCEPT ![w] = ToSave(w, cp)]
  BY <1>1 DEF ToSave, Ran, IInv, TypeOK
<1>3. /\ ToSave(w, cp).step = "save" /\ ToSave(w, cp).thread = q.thread
      /\ ToSave(w, cp).decision = q.decision /\ ToSave(w, cp).cp = cp
  BY <1>1 DEF ToSave, Requests
<1>4. DecisionKept(ToSave(w, cp), checkpoint[q.thread])
  BY <1>1, <1>3 DEF DecisionKept, Keeps
<1>5. CopyInStep(ToSave(w, cp), checkpoint[q.thread])
  BY <1>1, <1>3 DEF CopyInStep, Keeps
<1> QED
  BY <1>2, <1>3, <1>4, <1>5, OneMoves DEF InStep, StoresAtMost

(* The checkpoint a step stores becomes the stored one.                     *)
LEMMA Stored ==
  ASSUME IInv, NEW w \in Workers, request[w].step # "idle",
         checkpoint' = [checkpoint EXCEPT ![request[w].thread] = request[w].cp]
  PROVE  checkpoint'[request[w].thread] = request[w].cp
BY DEF IInv, TypeOK

(* A worker's step is not the step of another.                              *)
LEMMA OnlyItsOwn ==
  ASSUME IInv, NEW w \in Workers, Arrive(w) \/ Proceed(w), NEW v \in Workers \ {w}
  PROVE  request'[v] = request[v]
<1>1. \A r : request' = [request EXCEPT ![w] = r] => request'[v] = request[v]
  BY DEF IInv, TypeOK
<1>2. request' = [request EXCEPT ![w] = request'[w]]
  BY DEF IInv, TypeOK, Arrive, Proceed, Submit, Review, Get,
     ListDetails, SubmitLoad, UpdateRead, UpdatePut, ResumeLoad, Save, RunStart,
     RunSupervisor, RunBillingAsks, RunBillingRefuses, RunBillingEscalates, RunBillingRefunds,
     RunSupport, RunAuditor, Ran, Snapshot, Mark
<1> QED
  BY <1>1, <1>2

LEMMA StoredBy ==
  ASSUME IInv, [Next]_vars, NEW t \in Threads
  PROVE  \/ checkpoint'[t] = checkpoint[t]
         \/ \E w \in Workers : (UpdatePut(w) \/ Save(w)) /\ request[w].thread = t
BY DEF IInv, TypeOK, Next, Restart, Crash, Arrive, Proceed, Fail, Submit, Review, Get,
   ListDetails, SubmitLoad, UpdateRead, UpdatePut, ResumeLoad, Save, RunStart,
   RunSupervisor, RunBillingAsks, RunBillingRefuses, RunBillingEscalates, RunBillingRefunds,
   RunSupport, RunAuditor, Snapshot, Mark,
   RouterFails, AnswererFails, DatabaseFails, Aborts, vars

LEMMA NodeKeeps ==
  ASSUME IInv, NEW w \in Workers, Proceed(w), request[w].step = "run"
  PROVE  \E cp \in Checkpoints :
           Keeps(request[w].cp, cp) /\ Ran(w, cp) /\ checkpoint' = checkpoint
<1> DEFINE q == request[w]
<1>1. /\ q \in Requests /\ q.cp \in Checkpoints /\ q.thread \in Threads
      /\ Governed(q.thread, q.cp, escalated, reviews)
  BY DEF IInv, TypeOK, Requests, RequestGoverned
<1>2. CASE RunStart(w)
  <2>1. q.cp.input # None
    BY <1>1, <1>2 DEF RunStart, Runs, Governed
  <2> QED
    BY <1>1, <1>2, <2>1, StartType, StartKeeps DEF RunStart
<1>3. CASE RunSupervisor(w)
  BY <1>1, <1>3, SupervisorType, SupervisorKeeps, ServiceAssumption DEF RunSupervisor
<1>4. CASE RunBillingAsks(w) \/ RunBillingRefuses(w) \/ RunBillingRefunds(w)
  <2>1. /\ BillingResult(q.cp) \in {"invalid_amount", "user_not_found"} =>
              BillingResult(q.cp) \in Replies
        /\ {"which_account", "how_much", "refunded"} \subseteq Replies
    BY DEF Replies
  <2>2. \E reply \in Replies : Ran(w, BillingReplies(q.cp, reply)) /\ checkpoint' = checkpoint
    BY <1>4, <2>1 DEF RunBillingAsks, BillingAsks, RunBillingRefuses, BillingRefuses,
                      RunBillingRefunds, BillingRefunds
  <2> QED
    BY <1>1, <2>2, BillingRepliesType, BillingRepliesKeeps
<1>5. CASE RunBillingEscalates(w)
  BY <1>1, <1>5, BillingActionType, BillingEscalatesType, BillingEscalatesKeeps
     DEF RunBillingEscalates
<1>6. CASE RunSupport(w)
  BY <1>1, <1>6, SupportType, SupportKeeps DEF RunSupport
<1>7. CASE RunAuditor(w)
  BY <1>1, <1>7, AuditorType, AuditorKeeps DEF RunAuditor
<1> QED
  BY <1>2, <1>3, <1>4, <1>5, <1>6, <1>7
     DEF Proceed, SubmitLoad, UpdateRead, UpdatePut, ResumeLoad, Save, Snapshot, Mark

LEMMA SerialArrive ==
  ASSUME IInv, SerialInv, OneRunPerThread, NEW w \in Workers, Arrive(w)
  PROVE  SerialInv'
<1>1. PICK r : /\ request' = [request EXCEPT ![w] = r]
               /\ r.step \in {"load", "update", "snapshot"}
               /\ r.step = "load" => r.decision = None
  <2> DEFINE Arrives(r) == /\ request' = [request EXCEPT ![w] = r]
                           /\ r.step \in {"load", "update", "snapshot"}
                           /\ r.step = "load" => r.decision = None
  <2>1. ASSUME NEW t \in Threads, NEW text \in Texts, Submit(w, t, text)
        PROVE  \E r : Arrives(r)
    <3>1. Arrives([Idle EXCEPT !.step = "load", !.thread = t, !.text = text])
      BY <2>1 DEF Submit, Idle
    <3> QED
      BY <3>1
  <2>2. ASSUME NEW t \in Threads, NEW d \in Verdicts, Review(w, t, d)
        PROVE  \E r : Arrives(r)
    <3>1. Arrives([Idle EXCEPT !.step = "update", !.thread = t, !.decision = d])
      BY <2>2 DEF Review, Idle
    <3> QED
      BY <3>1
  <2>3. ASSUME NEW t \in Threads, Get(w, t) PROVE \E r : Arrives(r)
    <3>1. Arrives([Idle EXCEPT !.step = "snapshot", !.thread = t])
      BY <2>3 DEF Get, Idle
    <3> QED
      BY <3>1
  <2>4. ASSUME NEW t \in pending,
               request' = [request EXCEPT ![w] =
                 [Idle EXCEPT !.step = "snapshot", !.thread = t, !.todo = pending \ {t}]]
        PROVE  \E r : Arrives(r)
    <3>1. Arrives([Idle EXCEPT !.step = "snapshot", !.thread = t, !.todo = pending \ {t}])
      BY <2>4 DEF Idle
    <3> QED
      BY <3>1
  <2> QED
    BY <2>1, <2>2, <2>3, <2>4 DEF Arrive, ListDetails
<1>2. InStep(r, checkpoint'[r.thread])
  BY <1>1 DEF InStep, DecisionKept, CopyInStep
<1>3. StoresAtMost(w)
  BY DEF StoresAtMost, Arrive, Submit, Review, Get, ListDetails
<1> QED
  BY <1>1, <1>2, <1>3, OneMoves

LEMMA SerialProceed ==
  ASSUME IInv, SerialInv, OneRunPerThread, NEW w \in Workers, Proceed(w)
  PROVE  SerialInv'
<1> DEFINE q == request[w]
           stored == checkpoint[q.thread]
<1>a. q \in Requests
  BY DEF IInv, TypeOK
<1>b. q.step # "idle" => /\ q.thread \in Threads /\ stored \in Checkpoints
                         /\ stored.messages \in Seq(Entries)
                         /\ DecisionKept(q, stored) /\ CopyInStep(q, stored)
  BY DEF IInv, TypeOK, SerialInv, InStep, Checkpoints
<1>1. CASE SubmitLoad(w)
  <2> DEFINE cp == SubmitInput(stored, q.text)
             r == [q EXCEPT !.step = "save", !.cp = cp]
  <2>1. /\ q.step = "load" /\ checkpoint' = checkpoint
        /\ request' = [request EXCEPT ![w] = r]
    BY <1>1 DEF SubmitLoad, IInv, TypeOK
  <2>2. cp.messages = stored.messages /\ cp.proposed = stored.proposed
    BY <1>b, <2>1 DEF SubmitInput, Checkpoints
  <2> HIDE DEF cp
  <2>3. InStep(r, checkpoint'[r.thread])
    BY <1>a, <1>b, <2>1, <2>2, ExtendsSelf DEF InStep, DecisionKept, CopyInStep, Requests
  <2> QED
    BY <2>1, <2>3, OneMoves DEF StoresAtMost
<1>2. CASE UpdateRead(w)
  <2> DEFINE cp == UpdateState(stored, q.decision)
             r == [q EXCEPT !.step = "put", !.cp = cp]
  <2>1. /\ q.step = "update" /\ checkpoint' = checkpoint
        /\ request' = [request EXCEPT ![w] = r]
    BY <1>2 DEF UpdateRead, IInv, TypeOK
  <2>2. /\ cp.messages = stored.messages /\ cp.decision = q.decision
        /\ cp.proposed = stored.proposed /\ Undecided(cp) = Undecided(stored)
    BY <1>b, <2>1 DEF UpdateState, Undecided, Checkpoints
  <2>3. q.decision \in Verdicts
    BY <2>1 DEF IInv, RequestGoverned
  <2> HIDE DEF cp
  <2>4. InStep(r, checkpoint'[r.thread])
    BY <1>a, <1>b, <2>1, <2>2, <2>3, ExtendsSelf
       DEF InStep, DecisionKept, CopyInStep, Requests
  <2> QED
    BY <2>1, <2>4, OneMoves DEF StoresAtMost
<1>3. CASE UpdatePut(w)
  <2> DEFINE r == [q EXCEPT !.step = "resume"]
  <2>1. /\ q.step = "put" /\ checkpoint'[q.thread] = q.cp
        /\ request' = [request EXCEPT ![w] = r] /\ StoresAtMost(w)
    BY <1>3, Stored DEF UpdatePut, IInv, TypeOK, StoresAtMost, InRun
  <2>2. InStep(r, checkpoint'[r.thread])
    BY <1>a, <1>b, <2>1 DEF InStep, DecisionKept, CopyInStep, Requests
  <2> QED
    BY <2>1, <2>2, OneMoves DEF StoresAtMost
<1>4. CASE ResumeLoad(w)
  <2> DEFINE r == [q EXCEPT !.cp = stored,
                            !.step = IF stored.next = "end" THEN "snapshot" ELSE "run"]
  <2>1. /\ q.step = "resume" /\ checkpoint' = checkpoint
        /\ request' = [request EXCEPT ![w] = r]
    BY <1>4 DEF ResumeLoad, IInv, TypeOK
  <2>2. InStep(r, checkpoint'[r.thread])
    BY <1>a, <1>b, <2>1, ExtendsSelf, NoneIsNothing
       DEF InStep, DecisionKept, CopyInStep, Requests
  <2> QED
    BY <2>1, <2>2, OneMoves DEF StoresAtMost
<1>5. CASE Save(w)
  <2> DEFINE r == [q EXCEPT !.step = IF q.cp.next \in {"end", "auditor"}
                                     THEN "snapshot" ELSE "run"]
  <2>1. /\ q.step = "save" /\ checkpoint'[q.thread] = q.cp
        /\ request' = [request EXCEPT ![w] = r] /\ StoresAtMost(w)
    BY <1>5, Stored DEF Save, IInv, TypeOK, StoresAtMost, InRun
  <2>2. q.cp.messages \in Seq(Entries)
    BY <1>a DEF Requests, Checkpoints
  <2>3. InStep(r, checkpoint'[r.thread])
    BY <1>a, <1>b, <2>1, <2>2, ExtendsSelf DEF InStep, DecisionKept, CopyInStep, Requests
  <2> QED
    BY <2>1, <2>3, OneMoves DEF StoresAtMost
<1>6. CASE q.step = "run"
  <2>1. PICK cp \in Checkpoints : Keeps(q.cp, cp) /\ Ran(w, cp) /\ checkpoint' = checkpoint
    BY <1>6, NodeKeeps
  <2> QED
    BY <1>6, <2>1, OneRuns
<1>7. CASE Snapshot(w) \/ Mark(w)
  <2>1. PICK r : /\ request' = [request EXCEPT ![w] = r]
                 /\ r.step \in {"mark", "idle", "snapshot"}
    <3>1. CASE Snapshot(w)
      <4> DEFINE r == [q EXCEPT !.step = "mark", !.cp = EmptyCheckpoint,
                                !.awaiting = stored.next = "auditor"]
      <4>1. request' = [request EXCEPT ![w] = r]
        BY <3>1 DEF Snapshot, IInv, TypeOK
      <4>2. r.step = "mark"
        BY <1>a DEF Requests
      <4> QED
        BY <4>1, <4>2
    <3>2. CASE request' = [request EXCEPT ![w] = Idle]
      <4>1. Idle.step = "idle"
        BY DEF Idle
      <4> QED
        BY <3>2, <4>1
    <3>3. ASSUME NEW u, NEW todo,
                 request' = [request EXCEPT ![w] =
                   [Idle EXCEPT !.step = "snapshot", !.thread = u, !.todo = todo]]
          PROVE  \E r : /\ request' = [request EXCEPT ![w] = r]
                        /\ r.step \in {"mark", "idle", "snapshot"}
      <4> DEFINE r == [Idle EXCEPT !.step = "snapshot", !.thread = u, !.todo = todo]
      <4>1. request' = [request EXCEPT ![w] = r] /\ r.step = "snapshot"
        BY <3>3 DEF Idle
      <4> QED
        BY <4>1
    <3> QED
      BY <1>7, <3>1, <3>2, <3>3 DEF Mark
  <2>2. StoresAtMost(w)
    BY <1>7 DEF StoresAtMost, Snapshot, Mark
  <2> QED
    BY <2>1, <2>2, OneMoves DEF InStep, DecisionKept, CopyInStep
<1> QED
  BY <1>1, <1>2, <1>3, <1>4, <1>5, <1>6, <1>7
     DEF Proceed, RunStart, RunSupervisor, RunBillingAsks, RunBillingRefuses,
         RunBillingEscalates, RunBillingRefunds, RunSupport, RunAuditor, Runs

(* A failure leaves the worker idle or as it was, and stores nothing.       *)
FaultStep == Restart \/ Crash \/ \E w \in Workers : Fail(w)

LEMMA FaultOnlyIdles ==
  ASSUME IInv, FaultStep
  PROVE  /\ UNCHANGED <<checkpoint, histories>>
         /\ \A w \in Workers : request'[w] \in {request[w], Idle}
BY DEF FaultStep, Restart, Crash, Fail,
     RouterFails, AnswererFails, DatabaseFails, Aborts, IInv, TypeOK

LEMMA SerialNext == OneRunPerThread /\ IInv /\ SerialInv /\ [Next]_vars => SerialInv'
<1> SUFFICES ASSUME OneRunPerThread, IInv, SerialInv, [Next]_vars PROVE SerialInv'
  OBVIOUS
<1>1. CASE \E w \in Workers : Arrive(w)
  BY <1>1, SerialArrive
<1>2. CASE \E w \in Workers : Proceed(w)
  BY <1>2, SerialProceed
<1>3. CASE FaultStep
  BY <1>3, FaultOnlyIdles DEF SerialInv, InStep, Idle
<1>4. CASE UNCHANGED vars
  BY <1>4 DEF vars, SerialInv
<1> QED
  BY <1>1, <1>2, <1>3, <1>4 DEF Next, FaultStep

(* A behaviour with one run per thread is one of the service.               *)
LEMMA PerThreadIsSpec == PerThreadSpec => Spec /\ []OneRunPerThread
<1>1. Init => OneRunPerThread
  BY DEF Init, OneRunPerThread, RunsOn, InRun, Idle
<1>2. OneRunPerThread /\ [Next /\ OneRunPerThread']_vars => OneRunPerThread'
  BY DEF OneRunPerThread, RunsOn, InRun, vars
<1>3. [Next /\ OneRunPerThread']_vars => [Next]_vars
  OBVIOUS
<1> QED
  BY <1>1, <1>2, <1>3, PTL DEF Spec, PerThreadSpec

LEMMA SerialInvariant ==
  PerThreadSpec => [][Next]_vars /\ [](OneRunPerThread /\ IInv /\ SerialInv)
<1>1. Init => SerialInv
  BY DEF Init, SerialInv, InStep, Idle
<1>2. OneRunPerThread /\ IInv /\ SerialInv /\ [Next]_vars => SerialInv'
  BY SerialNext
<1> QED
  BY <1>1, <1>2, PerThreadIsSpec, SpecInvariant, PTL DEF Spec

--------------------------------------------------------------------------------
(* The theorems.                                                            *)

(* With one run per thread no request touches a stored message              *)
(* (add_messages): each stored state continues the one it replaces, also    *)
(* after a crash and whatever the runs of other threads do.                 *)
THEOREM StoredConversationGrows == PerThreadSpec => ConversationGrows
<1> DEFINE Kept(t) ==
      /\ Len(checkpoint[t].messages) <= Len(checkpoint'[t].messages)
      /\ SubSeq(checkpoint'[t].messages, 1, Len(checkpoint[t].messages))
           = checkpoint[t].messages
<1>1. ASSUME IInv, SerialInv, [Next]_vars, NEW t \in Threads
      PROVE  Kept(t)
  <2>1. checkpoint[t].messages \in Seq(Entries)
    BY <1>1 DEF IInv, TypeOK, Checkpoints
  <2>2. CASE checkpoint'[t] = checkpoint[t]
    BY <2>1, <2>2, ExtendsSelf, ExtendsIsPrefix
  <2>3. ASSUME NEW w \in Workers, UpdatePut(w) \/ Save(w), request[w].thread = t
        PROVE  Kept(t)
    <3>1. /\ checkpoint'[t] = request[w].cp
          /\ request[w].cp.messages \in Seq(Entries)
          /\ Extends(checkpoint[t].messages, request[w].cp.messages)
      BY <1>1, <2>3, Stored
         DEF UpdatePut, Save, IInv, TypeOK, Requests, Checkpoints, SerialInv, InStep, CopyInStep
    <3> QED
      BY <2>1, <3>1, ExtendsIsPrefix
  <2>4. \/ checkpoint'[t] = checkpoint[t]
        \/ \E w \in Workers : (UpdatePut(w) \/ Save(w)) /\ request[w].thread = t
    BY <1>1, StoredBy
  <2> QED
    BY <2>2, <2>3, <2>4
<1>2. IInv /\ SerialInv /\ [Next]_vars =>
        [\A t \in Threads :
           LET old == checkpoint[t].messages
               new == checkpoint'[t].messages
           IN  Len(old) <= Len(new) /\ SubSeq(new, 1, Len(old)) = old]_vars
  BY <1>1
<1> QED
  BY <1>2, SerialInvariant, PTL DEF ConversationGrows

(* How the ledger grows in one step: the auditor pays, under the decision   *)
(* its request carries, or the money is not the auditor's.                  *)
LedgerSteps ==
  \/ ledger' = ledger
  \/ \E r \in Refunds : r.by = "billing" /\ ledger' = Append(ledger, r)

PaysFor(w, r) ==
  /\ RunAuditor(w) /\ AuditorPays(request[w].cp)
  /\ r \in Refunds /\ r.by = "auditor" /\ r.thread = request[w].thread
  /\ r.review = request[w].decision /\ ActionOf(r) = request[w].cp.proposed
  /\ ledger' = Append(ledger, r)

LEMMA AuditorPaysFor ==
  ASSUME IInv, NEW w \in Workers, RunAuditor(w), AuditorPays(request[w].cp)
  PROVE  \E r : PaysFor(w, r)
<1> DEFINE action == request[w].cp.proposed
           r == [thread |-> request[w].thread, by |-> "auditor", user |-> action.user,
                 amount |-> action.amount, review |-> request[w].decision]
<1>1. /\ request[w] \in Requests /\ request[w].thread \in Threads
      /\ request[w].cp \in Checkpoints
      /\ ledger' = Append(ledger, r)
  BY DEF RunAuditor, Runs, Refunded, IInv, TypeOK, Requests
<1>2. action \in Actions
  BY <1>1 DEF AuditorPays, Checkpoints
<1>3. /\ action.user \in Ids /\ action.amount \in Nat
      /\ action = [user |-> action.user, amount |-> action.amount]
  BY <1>2 DEF Actions
<1> HIDE DEF action
<1>4. /\ r \in Refunds /\ r.by = "auditor" /\ r.thread = request[w].thread
      /\ r.review = request[w].decision /\ ActionOf(r) = action
  BY <1>1, <1>3 DEF Refunds, Requests, ActionOf
<1> HIDE DEF r
<1> QED
  BY <1>1, <1>4 DEF PaysFor, action

LEMMA LedgerNext ==
  ASSUME IInv, [Next]_vars
  PROVE  LedgerSteps \/ \E w \in Workers : \E r : PaysFor(w, r)
<1>1. ASSUME NEW w \in Workers, RunBillingRefunds(w)
      PROVE  LedgerSteps
  <2> DEFINE action == [user |-> request[w].cp.user, amount |-> BillingAmount(request[w].cp)]
             r == [thread |-> request[w].thread, by |-> "billing", user |-> action.user,
                   amount |-> action.amount, review |-> None]
  <2>1. /\ request[w].thread \in Threads /\ request[w].cp \in Checkpoints
        /\ ~BillingIncomplete(request[w].cp)
        /\ ledger' = Append(ledger, r)
    BY <1>1 DEF RunBillingRefunds, Runs, Refunded, IInv, TypeOK, Requests
  <2>2. action.user \in Ids /\ action.amount \in Nat
    BY <2>1, BillingActionType DEF Actions
  <2> HIDE DEF action
  <2>3. r \in Refunds /\ r.by = "billing"
    BY <2>1, <2>2 DEF Refunds
  <2> QED
    BY <2>1, <2>3 DEF LedgerSteps
<1>2. ASSUME NEW w \in Workers, RunAuditor(w), AuditorPays(request[w].cp)
      PROVE  \E r : PaysFor(w, r)
  BY <1>2, AuditorPaysFor
<1>3. \/ ledger' = ledger
      \/ \E w \in Workers :
           RunBillingRefunds(w) \/ (RunAuditor(w) /\ AuditorPays(request[w].cp))
  BY DEF Next, Restart, Crash, Arrive, Proceed, Fail, Submit, Review, Get,
     ListDetails, SubmitLoad, UpdateRead, UpdatePut, ResumeLoad, Save, RunStart,
     RunSupervisor, RunBillingAsks, RunBillingRefuses, RunBillingEscalates,
     RunSupport, RunAuditor, Snapshot, Mark, RouterFails, AnswererFails, DatabaseFails,
     Aborts, histories, vars
<1> QED
  BY <1>1, <1>2, <1>3 DEF LedgerSteps

(* The auditor acts on the decision of its own request.                     *)
LEMMA PaidWasApproved ==
  ASSUME IInv, SerialInv, NEW w \in Workers, NEW r, PaysFor(w, r)
  PROVE  request[w].decision = "approved" /\ r.review = "approved"
<1>1. /\ request[w].step = "run" /\ request[w].cp.next = "auditor"
      /\ request[w].cp.decision = "approved" /\ r.review = request[w].decision
  BY DEF PaysFor, RunAuditor, Runs, AuditorPays
<1> QED
  BY <1>1 DEF SerialInv, InStep, DecisionKept

(* With one run per thread money moved by the auditor moved in a request    *)
(* that carried an approval (update_state then invoke(None)): a denial, and *)
(* a decision left over in the state, move none.                            *)
THEOREM OnlyApprovalsPay == PerThreadSpec => []DenialMovesNoMoney
<1>1. Init => DenialMovesNoMoney
  BY DEF Init, DenialMovesNoMoney
<1>2. ASSUME IInv, SerialInv, DenialMovesNoMoney, [Next]_vars
      PROVE  DenialMovesNoMoney'
  <2>1. ledger \in Seq(Refunds)
    BY <1>2 DEF IInv, TypeOK
  <2>2. CASE LedgerSteps
    BY <1>2, <2>1, <2>2 DEF LedgerSteps, DenialMovesNoMoney
  <2>3. ASSUME NEW w \in Workers, NEW r, PaysFor(w, r)
        PROVE  DenialMovesNoMoney'
    <3>1. r \in Refunds /\ r.review = "approved" /\ ledger' = Append(ledger, r)
      BY <1>2, <2>3, PaidWasApproved DEF PaysFor
    <3> QED
      BY <1>2, <2>1, <3>1 DEF DenialMovesNoMoney
  <2> QED
    BY <1>2, <2>2, <2>3, LedgerNext
<1> QED
  BY <1>1, <1>2, SerialInvariant, PerThreadIsSpec, PTL DEF Spec

--------------------------------------------------------------------------------
(* An approval that has not paid yet keeps one approval in hand.            *)
Owes(r) ==
  /\ r.decision = "approved"
  /\ \/ r.step \in {"update", "put", "resume", "run"}
     \/ r.step = "save" /\ r.cp.next \notin {"end", "auditor"}

PaidBy(t) == Cardinality(RefundsBy(t, "auditor"))

CountInv ==
  \A t \in Threads :
    /\ PaidBy(t) <= reviews[t]["approved"]
    /\ \A w \in Workers :
         Owes(request[w]) /\ request[w].thread = t => PaidBy(t) < reviews[t]["approved"]

LEMMA RefundsFinite ==
  ASSUME ledger \in Seq(Refunds), NEW t
  PROVE  IsFiniteSet(RefundsBy(t, "auditor")) /\ PaidBy(t) \in Nat
<1>1. RefundsBy(t, "auditor") \subseteq 1 .. Len(ledger)
  BY DEF RefundsBy
<1>2. IsFiniteSet(1 .. Len(ledger))
  BY FS_Interval
<1>3. IsFiniteSet(RefundsBy(t, "auditor"))
  BY <1>1, <1>2, FS_Subset
<1> QED
  BY <1>3, FS_CardinalityType DEF PaidBy

LEMMA RefundsOfOthers ==
  ASSUME ledger \in Seq(Refunds), LedgerSteps, NEW t
  PROVE  PaidBy(t)' = PaidBy(t)
<1>1. RefundsBy(t, "auditor")' = RefundsBy(t, "auditor")
  BY DEF LedgerSteps, RefundsBy
<1> QED
  BY <1>1 DEF PaidBy

LEMMA OneMoreRefund ==
  ASSUME ledger \in Seq(Refunds), NEW w \in Workers, NEW r, PaysFor(w, r), NEW t
  PROVE  PaidBy(t)' = IF t = request[w].thread THEN PaidBy(t) + 1 ELSE PaidBy(t)
<1>1. /\ r \in Refunds /\ r.by = "auditor" /\ r.thread = request[w].thread
      /\ ledger' = Append(ledger, r)
  BY DEF PaysFor
<1>2. CASE t = request[w].thread
  <2>1. RefundsBy(t, "auditor")' = RefundsBy(t, "auditor") \cup {Len(ledger) + 1}
    BY <1>1, <1>2 DEF RefundsBy
  <2>2. Len(ledger) + 1 \notin RefundsBy(t, "auditor")
    BY DEF RefundsBy
  <2> QED
    BY <1>2, <2>1, <2>2, RefundsFinite, FS_AddElement DEF PaidBy
<1>3. CASE t # request[w].thread
  <2>1. RefundsBy(t, "auditor")' = RefundsBy(t, "auditor")
    BY <1>1, <1>3 DEF RefundsBy
  <2> QED
    BY <1>3, <2>1 DEF PaidBy
<1> QED
  BY <1>2, <1>3

(* An approval comes to owe a payment when it is posted, and a payment      *)
(* discharges it.                                                           *)
LEMMA OwesSince ==
  ASSUME IInv, SerialInv, NEW w \in Workers, Proceed(w), Owes(request'[w])
  PROVE  Owes(request[w]) /\ request'[w].thread = request[w].thread /\ ~RunAuditor(w)
<1> DEFINE q == request[w]
<1>1. q \in Requests /\ (q.step # "idle" => DecisionKept(q, checkpoint[q.thread]))
  BY DEF IInv, TypeOK, SerialInv, InStep
<1>2. CASE SubmitLoad(w)
  <2>1. q.decision = None /\ request'[w].decision = q.decision
    BY <1>1, <1>2 DEF SubmitLoad, DecisionKept, IInv, TypeOK, Requests
  <2> QED
    BY <2>1, NoneIsNothing DEF Owes, Verdicts
<1>3. CASE UpdateRead(w) \/ UpdatePut(w) \/ ResumeLoad(w) \/ Save(w)
  <2>1. /\ request'[w].decision = q.decision /\ request'[w].thread = q.thread
        /\ \/ q.step \in {"update", "put", "resume"}
           \/ q.step = "save" /\ (request'[w].step = "run" => q.cp.next \notin {"end", "auditor"})
        /\ q.step = "save" => request'[w].step \in {"run", "snapshot"}
    BY <1>1, <1>3 DEF UpdateRead, UpdatePut, ResumeLoad, Save, IInv, TypeOK, Requests
  <2> QED
    BY <2>1 DEF Owes, RunAuditor, Runs
<1>4. CASE q.step = "run"
  <2>1. PICK cp : Ran(w, cp)
    BY <1>4, NodeKeeps
  <2>2. /\ request'[w].decision = q.decision /\ request'[w].thread = q.thread
        /\ request'[w].step = "save" /\ request'[w].cp = cp
    BY <1>1, <2>1 DEF Ran, IInv, TypeOK, Requests
  <2>3. ~RunAuditor(w)
    <3>1. SUFFICES ASSUME RunAuditor(w) PROVE FALSE
      OBVIOUS
    <3>2. request'[w].cp = Auditor(q.cp)
      BY <1>1, <3>1 DEF RunAuditor, Ran, IInv, TypeOK, Requests
    <3>3. Auditor(q.cp).next = "end"
      BY <1>1, AuditorKeeps DEF Requests
    <3> QED
      BY <2>2, <3>2, <3>3 DEF Owes
  <2> QED
    BY <1>4, <2>2, <2>3 DEF Owes
<1>5. CASE Snapshot(w) \/ Mark(w)
  <2>1. request'[w].step \in {"mark", "idle", "snapshot"}
    <3>1. CASE Snapshot(w)
      BY <1>1, <3>1 DEF Snapshot, IInv, TypeOK, Requests
    <3>2. CASE Mark(w)
      <4>1. CASE request' = [request EXCEPT ![w] = Idle]
        BY <4>1 DEF Idle, IInv, TypeOK
      <4>2. ASSUME NEW u, NEW todo,
                   request' = [request EXCEPT ![w] =
                     [Idle EXCEPT !.step = "snapshot", !.thread = u, !.todo = todo]]
            PROVE  request'[w].step = "snapshot"
        BY <4>2 DEF Idle, IInv, TypeOK
      <4> QED
        BY <3>2, <4>1, <4>2 DEF Mark
    <3> QED
      BY <1>5, <3>1, <3>2
  <2> QED
    BY <2>1 DEF Owes
<1> QED
  BY <1>2, <1>3, <1>4, <1>5
     DEF Proceed, RunStart, RunSupervisor, RunBillingAsks, RunBillingRefuses,
         RunBillingEscalates, RunBillingRefunds, RunSupport, RunAuditor, Runs

(* Posting an approval counts it.                                           *)
LEMMA ReviewCounts ==
  ASSUME IInv, [Next]_vars, NEW t \in Threads
  PROVE  /\ reviews'[t]["approved"] \in Nat /\ reviews[t]["approved"] \in Nat
         /\ reviews[t]["approved"] <= reviews'[t]["approved"]
         /\ \A w \in Workers : Review(w, t, "approved") =>
              reviews'[t]["approved"] = reviews[t]["approved"] + 1
<1>1. /\ reviews \in [Threads -> [Verdicts -> 0 .. MaxReviews]] /\ MaxReviews \in Nat
      /\ "approved" \in Verdicts
  BY ServiceAssumption DEF IInv, TypeOK, Verdicts
<1>2. reviews[t]["approved"] \in Nat
  BY <1>1
<1>3. CASE reviews' = reviews
  <2>1. ASSUME NEW w \in Workers, Review(w, t, "approved") PROVE FALSE
    <3>1. reviews'[t]["approved"] = reviews[t]["approved"] + 1
      BY <1>1, <2>1 DEF Review
    <3> QED
      BY <1>2, <1>3, <3>1
  <2> QED
    BY <1>2, <1>3, <2>1
<1>4. ASSUME NEW v \in Workers, NEW u \in Threads, NEW d \in Verdicts, Review(v, u, d)
      PROVE  /\ reviews'[t]["approved"] \in Nat
             /\ reviews[t]["approved"] <= reviews'[t]["approved"]
             /\ \A w \in Workers : Review(w, t, "approved") =>
                  reviews'[t]["approved"] = reviews[t]["approved"] + 1
  BY <1>1, <1>2, <1>4 DEF Review
<1>5. \/ reviews' = reviews
      \/ \E v \in Workers, u \in Threads, d \in Verdicts : Review(v, u, d)
  BY DEF Next, Restart, Crash, Arrive, Proceed, Fail, Submit, Get,
     ListDetails, SubmitLoad, UpdateRead, UpdatePut, ResumeLoad, Save, RunStart,
     RunSupervisor, RunBillingAsks, RunBillingRefuses, RunBillingEscalates,
     RunBillingRefunds, RunSupport, RunAuditor, Snapshot, Mark,
     RouterFails, AnswererFails, DatabaseFails,
     Aborts, histories, vars
<1> QED
  BY <1>2, <1>3, <1>4, <1>5

(* Who owes after a step owed before it and was not paid, or is new.        *)
LEMMA OwesNext ==
  ASSUME IInv, SerialInv, [Next]_vars, NEW v \in Workers, Owes(request'[v])
  PROVE  \/ /\ Owes(request[v]) /\ request'[v].thread = request[v].thread
            /\ ~RunAuditor(v)
         \/ Review(v, request'[v].thread, "approved") /\ ledger' = ledger
<1>a. CASE request'[v] = request[v]
  <2>1. ~RunAuditor(v)
    <3>1. SUFFICES ASSUME RunAuditor(v) PROVE FALSE
      OBVIOUS
    <3>2. request'[v].step = "save" /\ request[v].step = "run"
      BY <3>1 DEF RunAuditor, Runs, Ran, IInv, TypeOK, Requests
    <3> QED
      BY <1>a, <3>2
  <2> QED
    BY <1>a, <2>1
<1>1. ASSUME NEW w \in Workers, Proceed(w)
      PROVE  \/ request'[v] = request[v]
             \/ /\ Owes(request[v]) /\ request'[v].thread = request[v].thread
                /\ ~RunAuditor(v)
  <2>1. CASE v = w
    BY <1>1, <2>1, OwesSince
  <2>2. CASE v # w
    BY <1>1, <2>2, OnlyItsOwn
  <2> QED
    BY <2>1, <2>2
<1>2. CASE FaultStep
  <2>1. request'[v] = request[v] \/ request'[v] = Idle
    BY <1>2, FaultOnlyIdles
  <2>2. request'[v] = request[v]
    BY <2>1, NoneIsNothing DEF Owes, Idle
  <2> QED
    BY <1>a, <2>2
<1>3. ASSUME NEW w \in Workers, Arrive(w), request'[v] # request[v]
      PROVE  Review(v, request'[v].thread, "approved") /\ ledger' = ledger
  <2>1. Arrive(v)
    BY <1>3, OnlyItsOwn
  <2>2. \E t \in Threads, d \in Verdicts : Review(v, t, d)
    <3>1. request'[v].decision = "approved"
      BY DEF Owes
    <3>2. ASSUME NEW t \in Threads, NEW text \in Texts, Submit(v, t, text) PROVE FALSE
      BY <3>1, <3>2, NoneIsNothing DEF Submit, Idle, IInv, TypeOK, Verdicts
    <3>3. ASSUME NEW t \in Threads, Get(v, t) PROVE FALSE
      BY <3>1, <3>3, NoneIsNothing DEF Get, Idle, IInv, TypeOK, Verdicts
    <3>4. ASSUME ListDetails(v) PROVE FALSE
      BY <3>1, <3>4, NoneIsNothing DEF ListDetails, Idle, IInv, TypeOK, Verdicts
    <3> QED
      BY <2>1, <3>2, <3>3, <3>4 DEF Arrive
  <2>3. PICK t \in Threads, d \in Verdicts : Review(v, t, d)
    BY <2>2
  <2>4. request'[v].decision = d /\ request'[v].thread = t /\ ledger' = ledger
    BY <2>3 DEF Review, Idle, IInv, TypeOK
  <2> QED
    BY <2>3, <2>4 DEF Owes
<1>4. CASE UNCHANGED vars
  BY <1>a, <1>4 DEF vars
<1> QED
  BY <1>a, <1>1, <1>2, <1>3, <1>4 DEF Next, FaultStep

LEMMA CountNext == OneRunPerThread /\ IInv /\ SerialInv /\ CountInv /\ [Next]_vars => CountInv'
<1> SUFFICES ASSUME OneRunPerThread, IInv, SerialInv, CountInv, [Next]_vars, NEW t \in Threads
             PROVE  /\ PaidBy(t)' <= reviews'[t]["approved"]
                    /\ \A v \in Workers :
                         Owes(request'[v]) /\ request'[v].thread = t =>
                           PaidBy(t)' < reviews'[t]["approved"]
  BY DEF CountInv, Owes
<1>1. /\ reviews'[t]["approved"] \in Nat /\ reviews[t]["approved"] \in Nat
      /\ reviews[t]["approved"] <= reviews'[t]["approved"]
      /\ \A w \in Workers : Review(w, t, "approved") =>
           reviews'[t]["approved"] = reviews[t]["approved"] + 1
  BY ReviewCounts
<1>2. /\ ledger \in Seq(Refunds)
      /\ PaidBy(t) \in Nat /\ PaidBy(t) <= reviews[t]["approved"]
      /\ \A w \in Workers :
           Owes(request[w]) /\ request[w].thread = t => PaidBy(t) < reviews[t]["approved"]
  BY RefundsFinite DEF IInv, TypeOK, CountInv
<1>3. CASE LedgerSteps
  <2>1. PaidBy(t)' = PaidBy(t)
    BY <1>2, <1>3, RefundsOfOthers
  <2>2. ASSUME NEW v \in Workers, Owes(request'[v]), request'[v].thread = t
        PROVE  PaidBy(t) < reviews'[t]["approved"]
    BY <1>1, <1>2, <2>2, OwesNext
  <2> QED
    BY <1>1, <1>2, <2>1, <2>2
<1>4. ASSUME NEW w \in Workers, NEW r, PaysFor(w, r)
      PROVE  /\ PaidBy(t)' <= reviews'[t]["approved"]
             /\ \A v \in Workers :
                  Owes(request'[v]) /\ request'[v].thread = t =>
                    PaidBy(t)' < reviews'[t]["approved"]
  <2>1. PaidBy(t)' = IF t = request[w].thread THEN PaidBy(t) + 1 ELSE PaidBy(t)
    BY <1>2, <1>4, OneMoreRefund
  <2>2. Owes(request[w]) /\ RunAuditor(w)
    BY <1>4, PaidWasApproved DEF Owes, PaysFor, RunAuditor, Runs
  <2>3. ASSUME NEW v \in Workers, Owes(request'[v]), request'[v].thread = t
        PROVE  /\ t # request[w].thread
               /\ Owes(request[v]) /\ request[v].thread = t
    <3>1. ledger' # ledger /\ t \in Threads
      BY <1>2, <1>4 DEF PaysFor
    <3>2. Owes(request[v]) /\ request[v].thread = t /\ ~RunAuditor(v)
      BY <2>3, <3>1, OwesNext
    <3>3. v # w
      BY <2>2, <3>2
    <3>4. InRun(request[v]) /\ InRun(request[w])
      BY <2>2, <3>2 DEF Owes, InRun
    <3> QED
      BY <3>1, <3>2, <3>3, <3>4 DEF OneRunPerThread, RunsOn
  <2>4. t = request[w].thread => PaidBy(t) < reviews[t]["approved"]
    BY <1>2, <2>2
  <2>5. ASSUME NEW v \in Workers, Owes(request'[v]), request'[v].thread = t
        PROVE  PaidBy(t)' < reviews'[t]["approved"]
    <3>1. PaidBy(t)' = PaidBy(t) /\ PaidBy(t) < reviews[t]["approved"]
      BY <1>2, <2>1, <2>3, <2>5
    <3> QED
      BY <1>1, <1>2, <3>1
  <2>6. PaidBy(t)' <= reviews'[t]["approved"]
    BY <1>1, <1>2, <2>1, <2>4
  <2> QED
    BY <2>5, <2>6
<1> QED
  BY <1>3, <1>4, LedgerNext

(* With one run per thread the auditor's refunds on a thread never          *)
(* outnumber the approvals posted for it, whatever fails: an approval pays  *)
(* at most once (auditor_node has no guard of its own).                     *)
THEOREM ApprovalPaysOnce == PerThreadSpec => []ApprovalsCoverRefunds
<1>1. Init => CountInv
  <2> SUFFICES ASSUME Init PROVE CountInv
    OBVIOUS
  <2>1. \A t : PaidBy(t) = 0
    BY FS_EmptySet DEF Init, PaidBy, RefundsBy
  <2>2. \A t \in Threads : reviews[t]["approved"] = 0
    BY DEF Init, Verdicts
  <2>3. \A w \in Workers : ~Owes(request[w])
    BY NoneIsNothing DEF Init, Owes, Idle
  <2> QED
    BY <2>1, <2>2, <2>3 DEF CountInv
<1>2. CountInv => ApprovalsCoverRefunds
  BY DEF CountInv, PaidBy, ApprovalsCoverRefunds
<1>3. OneRunPerThread /\ IInv /\ SerialInv /\ CountInv /\ [Next]_vars => CountInv'
  BY CountNext
<1> QED
  BY <1>1, <1>2, <1>3, SerialInvariant, PerThreadIsSpec, PTL DEF Spec

--------------------------------------------------------------------------------
(* The gate.  What the run of a thread has done but not saved is what sets  *)
(* the thread's open gate apart from the saved one.                         *)
OpenGate(r, stored, t) ==
  IF r.step = "save" /\ r.thread = t THEN Undecided(r.cp) ELSE Undecided(stored[t])

SavesOn(r, t) == r.step = "save" /\ r.thread = t

OnlyMoves(w) == \A v \in Workers \ {w} : request'[v] = request[v]

LEMMA EffectiveOfSaver ==
  ASSUME NEW t, NEW w \in Workers
  PROVE  /\ SavesOn(request[w], t) /\ (\A v \in Workers : SavesOn(request[v], t) => v = w) =>
              Effective(t) = request[w].cp
         /\ SavesOn(request'[w], t) /\ (\A v \in Workers : SavesOn(request'[v], t) => v = w) =>
              Effective(t)' = request'[w].cp
BY DEF Effective, SavesOn

LEMMA EffectiveOfStored ==
  ASSUME NEW t
  PROVE  /\ (\A v \in Workers : ~SavesOn(request[v], t)) => Effective(t) = checkpoint[t]
         /\ (\A v \in Workers : ~SavesOn(request'[v], t)) => Effective(t)' = checkpoint'[t]
BY DEF Effective, SavesOn

(* The gate of the thread that w runs on is w's, before and after its step. *)
LEMMA GateHere ==
  ASSUME OneRunPerThread, NEW w \in Workers, NEW t \in Threads, RunsOn(w, t), OnlyMoves(w)
  PROVE  /\ Undecided(Effective(t)) = OpenGate(request[w], checkpoint, t)
         /\ Undecided(Effective(t))' = OpenGate(request'[w], checkpoint', t)
<1>1. \A v \in Workers \ {w} : ~SavesOn(request[v], t) /\ ~SavesOn(request'[v], t)
  BY DEF OneRunPerThread, RunsOn, InRun, SavesOn, OnlyMoves
<1>2. Undecided(Effective(t)) = OpenGate(request[w], checkpoint, t)
  <2>1. CASE SavesOn(request[w], t)
    BY <1>1, <2>1, EffectiveOfSaver DEF OpenGate, SavesOn
  <2>2. CASE ~SavesOn(request[w], t)
    BY <1>1, <2>2, EffectiveOfStored DEF OpenGate, SavesOn
  <2> QED
    BY <2>1, <2>2
<1>3. Undecided(Effective(t))' = OpenGate(request'[w], checkpoint', t)
  <2>1. Undecided(Effective(t))' = Undecided(Effective(t)')
    BY DEF Undecided
  <2>2. CASE SavesOn(request'[w], t)
    BY <1>1, <2>1, <2>2, EffectiveOfSaver DEF OpenGate, SavesOn
  <2>3. CASE ~SavesOn(request'[w], t)
    BY <1>1, <2>1, <2>3, EffectiveOfStored DEF OpenGate, SavesOn
  <2> QED
    BY <2>2, <2>3
<1> QED
  BY <1>2, <1>3

(* The gate of a thread that w does not save on stays what it is.           *)
LEMMA GateElsewhere ==
  ASSUME OneRunPerThread, NEW w \in Workers, NEW t \in Threads, OnlyMoves(w),
         ~SavesOn(request[w], t), ~SavesOn(request'[w], t), checkpoint'[t] = checkpoint[t]
  PROVE  Undecided(Effective(t))' = Undecided(Effective(t))
<1>1. \A v \in Workers : SavesOn(request'[v], t) <=> SavesOn(request[v], t)
  BY DEF OnlyMoves
<1>2. Effective(t)' = Effective(t)
  <2>1. ASSUME NEW v \in Workers, SavesOn(request[v], t)
        PROVE  Effective(t)' = Effective(t)
    <3>1. \A u \in Workers : SavesOn(request[u], t) => u = v
      BY <2>1 DEF OneRunPerThread, RunsOn, InRun, SavesOn
    <3>2. v # w /\ request'[v] = request[v]
      BY <2>1 DEF OnlyMoves
    <3> QED
      BY <1>1, <2>1, <3>1, <3>2, EffectiveOfSaver
  <2>2. CASE \A v \in Workers : ~SavesOn(request[v], t)
    BY <1>1, <2>2, EffectiveOfStored
  <2> QED
    BY <2>1, <2>2
<1> QED
  BY <1>2 DEF Undecided

(* A step that stores nothing and has nothing run and unsaved before it.    *)
LEMMA GateStays ==
  ASSUME OneRunPerThread, NEW w \in Workers, OnlyMoves(w), request[w].step # "save",
         checkpoint' = checkpoint
  PROVE  /\ SavedGates' = SavedGates
         /\ request'[w].step # "save" => OpenGates' = OpenGates
         /\ \A t \in Threads :
              RunsOn(w, t) /\ SavesOn(request'[w], t) =>
                OpenGates' = [OpenGates EXCEPT ![t] = Undecided(request'[w].cp)]
<1>1. SavedGates' = SavedGates
  BY DEF SavedGates
<1>2. \A t \in Threads : ~SavesOn(request'[w], t) =>
        Undecided(Effective(t))' = Undecided(Effective(t))
  BY GateElsewhere DEF SavesOn
<1>3. ASSUME request'[w].step # "save"
      PROVE  OpenGates' = OpenGates
  BY <1>2, <1>3 DEF OpenGates, SavesOn
<1>4. ASSUME NEW t \in Threads, RunsOn(w, t), SavesOn(request'[w], t)
      PROVE  OpenGates' = [OpenGates EXCEPT ![t] = Undecided(request'[w].cp)]
  <2>1. Undecided(Effective(t))' = Undecided(request'[w].cp)
    BY <1>4, GateHere DEF OpenGate, SavesOn
  <2>2. \A u \in Threads \ {t} : Undecided(Effective(u))' = Undecided(Effective(u))
    BY <1>2, <1>4 DEF SavesOn
  <2> QED
    BY <2>1, <2>2 DEF OpenGates
<1> QED
  BY <1>1, <1>3, <1>4

(* The ledger as the gate sees it.                                          *)
Payment(r) == [thread |-> r.thread, action |-> ActionOf(r)]

LEMMA PaymentAppends ==
  ASSUME ledger \in Seq(Refunds), NEW r \in Refunds, ledger' = Append(ledger, r)
  PROVE  Payments' = Append(Payments, Payment(r))
<1> DEFINE P == {Payment(x) : x \in Refunds}
<1>1. /\ Payments = [i \in 1 .. Len(ledger) |-> Payment(ledger[i])]
      /\ Payments' = [i \in 1 .. Len(ledger') |-> Payment(ledger'[i])]
  BY DEF Payments, Payment
<1>2. /\ Len(ledger') = Len(ledger) + 1
      /\ \A i \in 1 .. Len(ledger) + 1 :
           ledger'[i] = IF i = Len(ledger) + 1 THEN r ELSE ledger[i]
  OBVIOUS
<1>3. /\ Payments \in Seq(P) /\ Len(Payments) = Len(ledger)
      /\ Payment(r) \in P
  <2>1. \A i \in 1 .. Len(ledger) : ledger[i] \in Refunds
    OBVIOUS
  <2>2. \A i \in 1 .. Len(ledger) : Payment(ledger[i]) \in P
    BY <2>1
  <2> HIDE DEF P
  <2>3. Payments \in [1 .. Len(ledger) -> P]
    BY <1>1, <2>2
  <2>4. Len(ledger) \in Nat
    OBVIOUS
  <2>5. Payments \in Seq(P) /\ Len(Payments) = Len(ledger)
    BY <2>3, <2>4
  <2> QED
    BY <2>5 DEF P
<1> HIDE DEF P
<1>4. /\ Append(Payments, Payment(r)) \in Seq(P)
      /\ Len(Append(Payments, Payment(r))) = Len(ledger) + 1
      /\ \A i \in 1 .. Len(ledger) + 1 : Append(Payments, Payment(r))[i] =
           IF i = Len(ledger) + 1 THEN Payment(r) ELSE Payments[i]
  BY <1>3
<1>5. \A s \in Seq(P) : s = [i \in 1 .. Len(s) |-> s[i]]
  OBVIOUS
<1>6. /\ Append(Payments, Payment(r)) =
           [i \in 1 .. Len(ledger) + 1 |-> Append(Payments, Payment(r))[i]]
      /\ Len(ledger) \in Nat
  <2> DEFINE new == Append(Payments, Payment(r))
  <2>1. new \in Seq(P) /\ Len(new) = Len(ledger) + 1
    BY <1>4
  <2> HIDE DEF new
  <2>2. new = [i \in 1 .. Len(ledger) + 1 |-> new[i]]
    BY <1>5, <2>1
  <2> QED
    BY <2>2 DEF new
<1>7. /\ Payments' = [i \in 1 .. Len(ledger) + 1 |-> Payment(ledger'[i])]
      /\ \A i \in 1 .. Len(ledger) + 1 :
           Payment(ledger'[i]) = Append(Payments, Payment(r))[i]
  BY <1>1, <1>2, <1>4, <1>6
<1> QED
  BY <1>6, <1>7

gates == <<OpenGates, SavedGates, Payments>>

(* The gate consults the same tool.                                         *)
LEMMA SameTool ==
  \A user, amount : Gate!ExecuteRefund(user, amount) = ExecuteRefund(user, amount)
BY DEF Gate!ExecuteRefund, ExecuteRefund, Gate!KnownUser, KnownUser,
       Gate!RefundRequiresApproval, RefundRequiresApproval

LEMMA RequestedAmount ==
  ASSUME NEW cp \in Checkpoints, BillingAmount(cp) # None
  PROVE  BillingAmount(cp) \in Requested
<1>1. LatestText(cp.messages) \in Texts \cup {NoText}
  BY LatestTextType DEF Checkpoints
<1> QED
  BY <1>1, GraphAssumption DEF BillingAmount, Requested

(* A node that ran sets the open gate of its thread to what it left.        *)
LEMMA GateRan ==
  ASSUME OneRunPerThread, IInv, SerialInv, NEW w \in Workers, request[w].step = "run",
         NEW cp, Ran(w, cp), checkpoint' = checkpoint
  PROVE  /\ request[w].thread \in Threads
         /\ SavedGates' = SavedGates
         /\ OpenGates[request[w].thread] = Undecided(request[w].cp)
         /\ OpenGates' = [OpenGates EXCEPT ![request[w].thread] = Undecided(cp)]
         /\ Undecided(cp) = Undecided(request[w].cp) => OpenGates' = OpenGates
<1> DEFINE q == request[w]
<1>1. /\ q.thread \in Threads /\ q \in Requests
      /\ Undecided(q.cp) = Undecided(checkpoint[q.thread])
  BY DEF IInv, TypeOK, SerialInv, InStep, CopyInStep
<1>2. /\ request'[w].step = "save" /\ request'[w].thread = q.thread
      /\ request'[w].cp = cp /\ OnlyMoves(w) /\ RunsOn(w, q.thread)
  BY <1>1 DEF Ran, IInv, TypeOK, Requests, OnlyMoves, RunsOn, InRun
<1>3. OpenGates = [t \in Threads |-> Undecided(Effective(t))]
  BY DEF OpenGates
<1>4. OpenGates[q.thread] = Undecided(q.cp)
  BY <1>1, <1>2, <1>3, GateHere DEF OpenGate
<1>5. /\ SavedGates' = SavedGates
      /\ OpenGates' = [OpenGates EXCEPT ![q.thread] = Undecided(cp)]
  BY <1>1, <1>2, GateStays DEF SavesOn
<1>6. [OpenGates EXCEPT ![q.thread] = OpenGates[q.thread]] = OpenGates
  BY <1>3
<1> QED
  BY <1>1, <1>4, <1>5, <1>6

LEMMA GateRuns ==
  ASSUME OneRunPerThread, IInv, SerialInv, NEW w \in Workers, Proceed(w),
         request[w].step = "run"
  PROVE  Gate!Next \/ UNCHANGED gates
<1> DEFINE q == request[w]
<1>1. /\ q \in Requests /\ q.cp \in Checkpoints /\ q.thread \in Threads
      /\ Governed(q.thread, q.cp, escalated, reviews)
      /\ ledger \in Seq(Refunds)
  BY DEF IInv, TypeOK, Requests, RequestGoverned
<1>2. ASSUME NEW cp, Ran(w, cp), checkpoint' = checkpoint, ledger' = ledger,
             Undecided(cp) = Undecided(q.cp)
      PROVE  UNCHANGED gates
  BY <1>2, GateRan DEF gates, Payments
<1>3. CASE RunStart(w) \/ RunSupervisor(w) \/ RunSupport(w)
  BY <1>1, <1>2, <1>3, StartKeeps, SupervisorKeeps, SupportKeeps
     DEF RunStart, RunSupervisor, RunSupport, histories
<1>4. CASE RunBillingAsks(w) \/ RunBillingRefuses(w)
  BY <1>1, <1>2, <1>4, BillingRepliesKeeps
     DEF RunBillingAsks, BillingAsks, RunBillingRefuses, BillingRefuses, histories
<1> DEFINE action == [user |-> q.cp.user, amount |-> BillingAmount(q.cp)]
<1>5. CASE RunBillingRefunds(w)
  <2> DEFINE r == [thread |-> q.thread, by |-> "billing", user |-> action.user,
                   amount |-> action.amount, review |-> None]
  <2>1. /\ ~BillingIncomplete(q.cp) /\ BillingResult(q.cp) = "success"
        /\ Ran(w, BillingRefunds(q.cp)) /\ checkpoint' = checkpoint
        /\ ledger' = Append(ledger, r)
    BY <1>5 DEF RunBillingRefunds, Refunded
  <2>2. UNCHANGED <<OpenGates, SavedGates>>
    BY <1>1, <2>1, GateRan, BillingRepliesKeeps DEF BillingRefunds
  <2>3. action.user \in Ids /\ action.amount \in Nat
    BY <1>1, <2>1, BillingActionType DEF Actions
  <2>4. r \in Refunds
    BY <1>1, <2>3 DEF Refunds
  <2>5. Payment(r) = [thread |-> q.thread, action |-> action]
    BY DEF Payment, ActionOf
  <2>6. action \in Gate!Actions
    BY <1>1, <2>1, <2>3, RequestedAmount DEF Gate!Actions, BillingIncomplete
  <2>7. ExecuteRefund(action.user, action.amount) = "success"
    BY <2>1 DEF BillingResult
  <2> HIDE DEF action, r
  <2>8. Payments' = Append(Payments, [thread |-> q.thread, action |-> action])
    BY <1>1, <2>1, <2>4, <2>5, PaymentAppends
  <2>9. Gate!AutoRefund(q.thread, action)
    BY <2>2, <2>7, <2>8, SameTool DEF Gate!AutoRefund, Gate!Pay
  <2> QED
    BY <1>1, <2>6, <2>9 DEF Gate!Next
<1>6. CASE RunBillingEscalates(w)
  <2>1. /\ ~BillingIncomplete(q.cp) /\ BillingResult(q.cp) = "requires_human_auditor"
        /\ Ran(w, BillingEscalates(q.cp)) /\ checkpoint' = checkpoint /\ ledger' = ledger
    BY <1>6 DEF RunBillingEscalates
  <2>2. /\ SavedGates' = SavedGates
        /\ OpenGates' = [OpenGates EXCEPT ![q.thread] = action]
    BY <1>1, <2>1, GateRan, BillingEscalatesKeeps
  <2>3. Payments' = Payments
    BY <2>1 DEF Payments
  <2>4. action \in Gate!Actions
    BY <1>1, <2>1, BillingActionType, RequestedAmount
       DEF Gate!Actions, BillingIncomplete, Actions
  <2>5. ExecuteRefund(action.user, action.amount) = "requires_human_auditor"
    BY <2>1 DEF BillingResult
  <2> HIDE DEF action
  <2>6. Gate!Escalate(q.thread, action)
    BY <2>2, <2>3, <2>5, SameTool DEF Gate!Escalate
  <2> QED
    BY <1>1, <2>4, <2>6 DEF Gate!Next
<1>7. CASE RunAuditor(w)
  <2>1. /\ q.cp.next = "auditor" /\ q.cp.decision \in Verdicts
        /\ Ran(w, Auditor(q.cp)) /\ checkpoint' = checkpoint
    <3>1. Runs(w, "auditor") /\ Ran(w, Auditor(q.cp)) /\ checkpoint' = checkpoint
      BY <1>7 DEF RunAuditor
    <3>2. DecisionKept(q, checkpoint[q.thread])
      BY <3>1 DEF SerialInv, InStep, Runs
    <3> QED
      BY <1>1, <3>1, <3>2 DEF DecisionKept, Runs, Checkpoints
  <2>2. q.cp.requiresApproval /\ q.cp.proposed # None /\ Undecided(q.cp) = q.cp.proposed
    BY <1>1, <2>1 DEF Governed, Undecided
  <2>3. /\ SavedGates' = SavedGates
        /\ OpenGates[q.thread] = q.cp.proposed
        /\ OpenGates' = [OpenGates EXCEPT ![q.thread] = None]
    BY <1>1, <1>7, <2>1, <2>2, GateRan, AuditorKeeps DEF RunAuditor, Runs
  <2>4. CASE AuditorPays(q.cp)
    <3>1. PICK r : PaysFor(w, r)
      BY <1>7, <2>4, AuditorPaysFor
    <3>2. r \in Refunds /\ ledger' = Append(ledger, r) /\ r.thread = q.thread
      BY <3>1 DEF PaysFor
    <3>3. ActionOf(r) = q.cp.proposed
      BY <3>1 DEF PaysFor
    <3>4. Payments' = Append(Payments, [thread |-> q.thread, action |-> q.cp.proposed])
      BY <1>1, <3>2, <3>3, PaymentAppends DEF Payment
    <3>5. Gate!Approve(q.thread)
      BY <2>2, <2>3, <3>4 DEF Gate!Approve, Gate!Close, Gate!Pay
    <3> QED
      BY <1>1, <3>5 DEF Gate!Next
  <2>5. CASE ~AuditorPays(q.cp)
    <3>1. Payments' = Payments
      BY <1>7, <2>5 DEF RunAuditor, Payments
    <3>2. Gate!Deny(q.thread)
      BY <2>2, <2>3, <3>1 DEF Gate!Deny, Gate!Close
    <3> QED
      BY <1>1, <3>2 DEF Gate!Next
  <2> QED
    BY <2>4, <2>5
<1> QED
  BY <1>3, <1>4, <1>5, <1>6, <1>7
     DEF Proceed, SubmitLoad, UpdateRead, UpdatePut, ResumeLoad, Save, Snapshot, Mark

LEMMA GateSaves ==
  ASSUME OneRunPerThread, IInv, NEW w \in Workers, Save(w)
  PROVE  Gate!Next
<1> DEFINE q == request[w]
<1>1. /\ q \in Requests /\ q.step = "save" /\ q.thread \in Threads
      /\ checkpoint' = [checkpoint EXCEPT ![q.thread] = q.cp]
      /\ request'[w].step # "save" /\ ledger' = ledger
  BY DEF Save, IInv, TypeOK, Requests, histories
<1>2. PICK x \in Threads : x = q.thread
  BY <1>1
<1>a. OnlyMoves(w) /\ RunsOn(w, x)
  BY <1>1, <1>2, OnlyItsOwn DEF OnlyMoves, Proceed, RunsOn, InRun
<1>3. \A t \in Threads : checkpoint'[t] = IF t = x THEN q.cp ELSE checkpoint[t]
  BY <1>1, <1>2 DEF IInv, TypeOK
<1>4. /\ Undecided(Effective(x)) = Undecided(q.cp)
      /\ Undecided(Effective(x))' = Undecided(q.cp)
  BY <1>1, <1>2, <1>a, <1>3, GateHere DEF OpenGate
<1>5. \A t \in Threads \ {x} : Undecided(Effective(t))' = Undecided(Effective(t))
  BY <1>1, <1>2, <1>a, <1>3, GateElsewhere DEF SavesOn
<1>6. OpenGates' = OpenGates
  BY <1>4, <1>5 DEF OpenGates
<1>7. SavedGates' = [SavedGates EXCEPT ![x] = OpenGates[x]]
  <2>1. /\ SavedGates = [t \in Threads |-> Undecided(checkpoint[t])]
        /\ SavedGates' = [t \in Threads |-> Undecided(checkpoint'[t])]
    BY DEF SavedGates, Undecided
  <2>2. OpenGates[x] = Undecided(q.cp)
    BY <1>1, <1>4 DEF OpenGates
  <2> QED
    BY <1>1, <1>3, <2>1, <2>2
<1>8. Gate!Settle(x)
  BY <1>1, <1>6, <1>7 DEF Gate!Settle, Payments
<1> QED
  BY <1>1, <1>8 DEF Gate!Next

(* Every other step of a request leaves the gates as they are.              *)
LEMMA GateOtherwise ==
  ASSUME OneRunPerThread, IInv, SerialInv, NEW w \in Workers, Arrive(w) \/ Proceed(w),
         request[w].step \notin {"run", "save"}
  PROVE  UNCHANGED gates
<1> DEFINE q == request[w]
<1>1. /\ q \in Requests
      /\ q.step # "idle" => /\ q.thread \in Threads /\ checkpoint[q.thread] \in Checkpoints
                            /\ CopyInStep(q, checkpoint[q.thread])
  BY DEF IInv, TypeOK, SerialInv, InStep
<1>2. Payments' = Payments
  BY DEF Payments, Arrive, Proceed, Submit, Review, Get, ListDetails, SubmitLoad, UpdateRead,
     UpdatePut, ResumeLoad, Save, RunStart, RunSupervisor, RunBillingAsks, RunBillingRefuses,
     RunBillingEscalates, RunBillingRefunds, RunSupport, RunAuditor, Runs, Snapshot, Mark,
     histories
<1>a. OnlyMoves(w)
  BY OnlyItsOwn DEF OnlyMoves
<1>3. CASE SubmitLoad(w)
  <2>1. /\ checkpoint' = checkpoint /\ RunsOn(w, q.thread) /\ q.step = "load"
        /\ request'[w].step = "save" /\ request'[w].thread = q.thread
        /\ request'[w].cp = SubmitInput(checkpoint[q.thread], q.text) /\ q.thread \in Threads
    BY <1>1, <1>3 DEF SubmitLoad, IInv, TypeOK, Requests, RunsOn, InRun
  <2>2. Undecided(request'[w].cp) = Undecided(checkpoint[q.thread])
    <3>1. q.step = "load"
      BY <1>3 DEF SubmitLoad
    <3>2. \A cp \in Checkpoints : \A text : Undecided(SubmitInput(cp, text)) = Undecided(cp)
      BY DEF SubmitInput, Undecided, Checkpoints
    <3> QED
      BY <1>1, <2>1, <3>1, <3>2
  <2>3. OpenGates = [t \in Threads |-> Undecided(Effective(t))]
    BY DEF OpenGates
  <2>4. OpenGates[q.thread] = Undecided(checkpoint[q.thread])
    BY <1>a, <2>1, <2>3, GateHere DEF OpenGate
  <2>5. /\ SavedGates' = SavedGates
        /\ OpenGates' = [OpenGates EXCEPT ![q.thread] = OpenGates[q.thread]]
    BY <1>a, <2>1, <2>2, <2>4, GateStays DEF SavesOn
  <2>6. OpenGates' = OpenGates
    BY <2>3, <2>5
  <2> QED
    BY <1>2, <2>5, <2>6 DEF gates
<1>4. CASE UpdatePut(w)
  <2>1. /\ q.step = "put" /\ q.thread \in Threads
        /\ checkpoint' = [checkpoint EXCEPT ![q.thread] = q.cp]
        /\ request'[w].step # "save" /\ RunsOn(w, q.thread)
    BY <1>1, <1>4 DEF UpdatePut, IInv, TypeOK, RunsOn, InRun
  <2>2. \A t \in Threads : Undecided(checkpoint'[t]) = Undecided(checkpoint[t])
    BY <1>1, <2>1 DEF CopyInStep, IInv, TypeOK
  <2>3. SavedGates' = SavedGates
    <3>1. \A t \in Threads : Undecided(checkpoint[t])' = Undecided(checkpoint[t])
      BY <2>2 DEF Undecided
    <3> QED
      BY <3>1 DEF SavedGates
  <2>4. ASSUME NEW t \in Threads
        PROVE  Undecided(Effective(t))' = Undecided(Effective(t))
    <3>1. CASE t = q.thread
      BY <1>a, <2>1, <2>2, <3>1, GateHere DEF OpenGate
    <3>2. CASE t # q.thread
      <4>1. checkpoint'[t] = checkpoint[t]
        BY <2>1, <3>2 DEF IInv, TypeOK
      <4> QED
        BY <1>a, <2>1, <3>2, <4>1, GateElsewhere DEF SavesOn
    <3> QED
      BY <3>1, <3>2
  <2>5. OpenGates' = OpenGates
    BY <2>4 DEF OpenGates
  <2> QED
    BY <1>2, <2>3, <2>5 DEF gates
<1>5. CASE UpdateRead(w) \/ ResumeLoad(w) \/ Snapshot(w)
  <2>1. checkpoint' = checkpoint /\ request'[w].step # "save"
    BY <1>1, <1>5 DEF UpdateRead, ResumeLoad, Snapshot, IInv, TypeOK, Requests
  <2> QED
    BY <1>2, <1>a, <2>1, GateStays DEF gates
<1>6. CASE Arrive(w)
  <2>1. checkpoint' = checkpoint /\ request'[w].step # "save"
    <3>1. request \in [Workers -> Requests]
      BY DEF IInv, TypeOK
    <3>2. ASSUME NEW t \in Threads, NEW text \in Texts, Submit(w, t, text)
          PROVE  request'[w].step # "save"
      BY <3>1, <3>2 DEF Submit, Idle
    <3>3. ASSUME NEW t \in Threads, NEW d \in Verdicts, Review(w, t, d)
          PROVE  request'[w].step # "save"
      BY <3>1, <3>3 DEF Review, Idle
    <3>4. ASSUME NEW t \in Threads, Get(w, t)
          PROVE  request'[w].step # "save"
      BY <3>1, <3>4 DEF Get, Idle
    <3>5. ASSUME ListDetails(w)
          PROVE  request'[w].step # "save"
      BY <3>1, <3>5 DEF ListDetails, Idle
    <3>6. checkpoint' = checkpoint
      BY <1>6 DEF Arrive, Submit, Review, Get, ListDetails
    <3> QED
      BY <1>6, <3>2, <3>3, <3>4, <3>5, <3>6 DEF Arrive
  <2> QED
    BY <1>2, <1>a, <2>1, GateStays DEF gates
<1>7. CASE Mark(w)
  <2>1. CASE request' = [request EXCEPT ![w] = Idle]
    BY <1>2, <1>7, <1>a, <2>1, GateStays DEF gates, Mark, Idle, IInv, TypeOK
  <2>2. ASSUME NEW u, NEW todo,
               request' = [request EXCEPT ![w] =
                 [Idle EXCEPT !.step = "snapshot", !.thread = u, !.todo = todo]]
        PROVE  UNCHANGED gates
    BY <1>2, <1>7, <1>a, <2>2, GateStays DEF gates, Mark, Idle, IInv, TypeOK
  <2> QED
    BY <1>7, <2>1, <2>2 DEF Mark
<1> QED
  BY <1>3, <1>4, <1>5, <1>6, <1>7
     DEF Proceed, Save, RunStart, RunSupervisor, RunBillingAsks, RunBillingRefuses,
         RunBillingEscalates, RunBillingRefunds, RunSupport, RunAuditor, Runs

(* A failure sets the gates of the threads whose runs it ended back to what *)
(* was saved.                                                               *)
LEMMA GateLapses ==
  ASSUME OneRunPerThread, IInv, FaultStep
  PROVE  Gate!Next
<1> DEFINE failed == {t \in Threads : \A v \in Workers : ~SavesOn(request'[v], t)}
<1>1. /\ UNCHANGED <<checkpoint, ledger>>
      /\ \A w \in Workers : request'[w] \in {request[w], Idle}
  BY FaultOnlyIdles DEF histories
<1>2. ASSUME NEW t \in Threads
      PROVE  Undecided(Effective(t))' =
               IF t \in failed THEN Undecided(checkpoint[t]) ELSE Undecided(Effective(t))
  <2>0. Undecided(Effective(t))' = Undecided(Effective(t)')
    BY DEF Undecided
  <2>1. CASE t \in failed
    BY <1>1, <2>0, <2>1, EffectiveOfStored
  <2>2. ASSUME NEW v \in Workers, SavesOn(request'[v], t)
        PROVE  Effective(t)' = Effective(t)
    <3>1. \A u \in Workers : SavesOn(request'[u], t) => SavesOn(request[u], t)
      BY <1>1 DEF SavesOn, Idle
    <3>2. \A u \in Workers : SavesOn(request[u], t) => u = v
      BY <2>2, <3>1 DEF OneRunPerThread, RunsOn, InRun, SavesOn
    <3>3. request'[v] = request[v]
      BY <1>1, <2>2 DEF SavesOn, Idle
    <3> QED
      BY <2>2, <3>1, <3>2, <3>3, EffectiveOfSaver
  <2> QED
    BY <2>0, <2>1, <2>2
<1> HIDE DEF failed
<1>3. OpenGates' = [t \in Threads |-> IF t \in failed THEN SavedGates[t] ELSE OpenGates[t]]
  BY <1>2 DEF OpenGates, SavedGates
<1>4. failed \in SUBSET Threads
  BY DEF failed
<1>5. SavedGates' = SavedGates /\ Payments' = Payments
  BY <1>1 DEF SavedGates, Payments
<1> QED
  BY <1>3, <1>4, <1>5 DEF Gate!Next, Gate!Lapse

LEMMA GateNext ==
  OneRunPerThread /\ IInv /\ SerialInv /\ [Next]_vars => [Gate!Next]_gates
<1> SUFFICES ASSUME OneRunPerThread, IInv, SerialInv, [Next]_vars
             PROVE  Gate!Next \/ UNCHANGED gates
  OBVIOUS
<1>1. ASSUME NEW w \in Workers, Arrive(w) \/ Proceed(w)
      PROVE  Gate!Next \/ UNCHANGED gates
  <2>1. CASE request[w].step = "run"
    BY <1>1, <2>1, GateRuns DEF Arrive, Submit, Review, Get, ListDetails
  <2>2. CASE request[w].step = "save"
    BY <1>1, <2>2, GateSaves
       DEF Arrive, Submit, Review, Get, ListDetails, Proceed, SubmitLoad, UpdateRead,
           UpdatePut, ResumeLoad, RunStart, RunSupervisor, RunBillingAsks, RunBillingRefuses,
           RunBillingEscalates, RunBillingRefunds, RunSupport, RunAuditor, Runs, Snapshot, Mark
  <2>3. CASE request[w].step \notin {"run", "save"}
    BY <1>1, <2>3, GateOtherwise
  <2> QED
    BY <2>1, <2>2, <2>3
<1>2. CASE FaultStep
  BY <1>2, GateLapses
<1>3. CASE UNCHANGED vars
  BY <1>3 DEF vars, gates, OpenGates, SavedGates, Payments, Effective
<1> QED
  BY <1>1, <1>2, <1>3 DEF Next, FaultStep

LEMMA GateInit == Init => Gate!Init
<1> SUFFICES ASSUME Init PROVE Gate!Init
  OBVIOUS
<1>1. OpenGates = [t \in Threads |-> None] /\ SavedGates = OpenGates
  BY DEF Init, OpenGates, SavedGates, Effective, Undecided, EmptyCheckpoint, Idle
<1>2. Payments = << >>
  BY DEF Init, Payments
<1> QED
  BY <1>1, <1>2 DEF Gate!Init

(* With one run per thread the service is an approval gate (graph.py's      *)
(* edges, the interrupt before the auditor, and the three nodes that touch  *)
(* the governance fields): every step of it, by whichever worker and        *)
(* failures included, is one the gate allows, or none.                      *)
THEOREM ServiceIsAGate == PerThreadSpec => ImplementsApprovalGate
<1>1. OneRunPerThread /\ IInv /\ SerialInv /\ [Next]_vars => [Gate!Next]_<<OpenGates, SavedGates, Payments>>
  BY GateNext DEF gates
<1> QED
  BY <1>1, GateInit, SerialInvariant, PerThreadIsSpec, PTL DEF Spec, ImplementsApprovalGate, Gate!Spec
================================================================================
