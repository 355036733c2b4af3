------------------------------ MODULE ListingProofs -----------------------------
(***************************************************************************)
(* The listing of suspended threads (GET /pending) of a process with one   *)
(* worker, for any number of threads, tickets, decisions and failures.     *)
(* ListingIsExact speaks of the times between requests only; the           *)
(* invariant has to count while one is in progress, whose thread may be    *)
(* listed and not yet suspended, or the other way round, until it is       *)
(* answered.                                                               *)
(***************************************************************************)
EXTENDS DeploymentProofs, RefundProofs

Answering(t) == \E w \in Workers : request[w].step # "idle" /\ request[w].thread = t

(* The threads listed wrongly that no request is about to list again.       *)
Astray == {t \in Threads : ~(t \in pending <=> Suspended(t)) /\ ~Answering(t)}

(* What a snapshot found still holds when the thread is listed.             *)
FoundInv == \A w \in Workers :
  request[w].step = "mark" => (request[w].awaiting <=> Suspended(request[w].thread))

DriftInv ==
  /\ FoundInv
  /\ starts = 0 => phase = "down" /\ Astray = {}
  /\ starts <= 1 /\ phase # "down" => IsFiniteSet(Astray) /\ Cardinality(Astray) <= faults

--------------------------------------------------------------------------------
(* What the steps of a request do to the listing and to the stored states.  *)
LEMMA ArriveLists ==
  ASSUME IInv, NEW w \in Workers, Arrive(w)
  PROVE  /\ UNCHANGED <<checkpoint, pending, faults>>
         /\ request[w].step = "idle" /\ request'[w].step # "mark"
         /\ \A v \in Workers \ {w} : request'[v] = request[v]
<1>1. UNCHANGED <<checkpoint, pending, faults>> /\ request[w].step = "idle"
  BY DEF Arrive, Submit, Review, Get, ListDetails
<1>2. PICK r : request' = [request EXCEPT ![w] = r] /\ r.step \in {"load", "update", "snapshot"}
  BY ArriveOnly
<1> QED
  BY <1>1, <1>2 DEF IInv, TypeOK

LEMMA ProceedLists ==
  ASSUME IInv, NEW w \in Workers, Proceed(w)
  PROVE  /\ request[w].step # "idle" /\ request[w].thread \in Threads
         /\ faults' = faults
         /\ \A x \in Threads \ {request[w].thread} :
              checkpoint'[x] = checkpoint[x] /\ (x \in pending' <=> x \in pending)
         /\ \/ /\ request'[w].step # "idle" /\ request'[w].thread = request[w].thread
               /\ request'[w].step = "mark" => Snapshot(w)
            \/ Mark(w) /\ request'[w].step # "mark"
<1> DEFINE q == request[w]
           stored == checkpoint[q.thread]
<1>1. q \in Requests /\ q.step # "idle" /\ q.thread \in Threads
  BY DEF Proceed, SubmitLoad, UpdateRead, UpdatePut, ResumeLoad, Save, RunStart,
     RunSupervisor, RunBillingAsks, RunBillingRefuses, RunBillingEscalates,
     RunBillingRefunds, RunSupport, RunAuditor, Runs, Snapshot, Mark, IInv, TypeOK
<1>2. CASE Mark(w)
  <2>1. UNCHANGED <<checkpoint, faults>> /\ request'[w].step # "mark"
    <3>1. PICK r : request' = [request EXCEPT ![w] = r] /\ r.step \in {"idle", "snapshot"}
      <4>1. CASE request' = [request EXCEPT ![w] = Idle]
        <5>1. Idle.step = "idle"
          BY DEF Idle
        <5> QED
          BY <4>1, <5>1
      <4>2. ASSUME NEW u, NEW todo,
                   request' = [request EXCEPT ![w] =
                     [Idle EXCEPT !.step = "snapshot", !.thread = u, !.todo = todo]]
            PROVE  \E r : /\ request' = [request EXCEPT ![w] = r]
                          /\ r.step \in {"idle", "snapshot"}
        <5> DEFINE r == [Idle EXCEPT !.step = "snapshot", !.thread = u, !.todo = todo]
        <5>1. r.step = "snapshot"
          BY DEF Idle
        <5> QED
          BY <4>2, <5>1
      <4> QED
        BY <1>2, <4>1, <4>2 DEF Mark
    <3> QED
      BY <1>2, <3>1 DEF Mark, IInv, TypeOK
  <2>2. \A x \in Threads \ {q.thread} : x \in pending' <=> x \in pending
    BY <1>2 DEF Mark
  <2> QED
    BY <1>1, <1>2, <2>1, <2>2
<1>3. CASE Snapshot(w)
  <2>1. UNCHANGED <<checkpoint, pending, faults>>
    BY <1>3 DEF Snapshot
  <2>2. request'[w].step = "mark" /\ request'[w].thread = q.thread
    BY <1>1, <1>3 DEF Snapshot, IInv, TypeOK, Requests
  <2> QED
    BY <1>1, <1>3, <2>1, <2>2
<1> DEFINE Works == request'[w].step \notin {"idle", "mark"} /\ request'[w].thread = q.thread
<1>4. CASE SubmitLoad(w) \/ UpdateRead(w) \/ ResumeLoad(w)
  <2>1. UNCHANGED <<checkpoint, pending, faults>>
    BY <1>4 DEF SubmitLoad, UpdateRead, ResumeLoad
  <2>2. Works
    BY <1>1, <1>4 DEF SubmitLoad, UpdateRead, ResumeLoad, IInv, TypeOK, Requests
  <2> QED
    BY <1>1, <2>1, <2>2
<1>5. CASE UpdatePut(w) \/ Save(w)
  <2>1. /\ checkpoint' = [checkpoint EXCEPT ![q.thread] = q.cp]
        /\ UNCHANGED <<pending, faults>>
    BY <1>5 DEF UpdatePut, Save
  <2>2. \A x \in Threads \ {q.thread} : checkpoint'[x] = checkpoint[x]
    BY <2>1 DEF IInv, TypeOK
  <2>3. Works
    BY <1>1, <1>5 DEF UpdatePut, Save, IInv, TypeOK, Requests
  <2> QED
    BY <1>1, <2>1, <2>2, <2>3
<1>6. CASE request[w].step = "run"
  <2>1. UNCHANGED <<checkpoint, pending, faults>> /\ \E cp : Ran(w, cp)
    BY <1>6 DEF Proceed, SubmitLoad, UpdateRead, UpdatePut, ResumeLoad, Save, RunStart,
       RunSupervisor, RunBillingAsks, RunBillingRefuses, RunBillingEscalates,
       RunBillingRefunds, RunSupport, RunAuditor, Snapshot, Mark
  <2>2. Works
    BY <1>1, <2>1 DEF Ran, IInv, TypeOK, Requests
  <2> QED
    BY <1>1, <2>1, <2>2
<1> QED
  BY <1>2, <1>3, <1>4, <1>5, <1>6
     DEF Proceed, RunStart, RunSupervisor, RunBillingAsks, RunBillingRefuses,
         RunBillingEscalates, RunBillingRefunds, RunSupport, RunAuditor, Runs

LEMMA AstrayArrive ==
  ASSUME IInv, FoundInv, NEW w \in Workers, Arrive(w)
  PROVE  FoundInv' /\ Astray' \subseteq Astray
<1>1. /\ UNCHANGED <<checkpoint, pending, faults>>
      /\ request[w].step = "idle" /\ request'[w].step # "mark"
      /\ \A v \in Workers \ {w} : request'[v] = request[v]
  BY ArriveLists
<1>2. FoundInv'
  BY <1>1 DEF FoundInv, Suspended
<1>3. \A t : Answering(t) => Answering(t)'
  BY <1>1 DEF Answering
<1> QED
  BY <1>1, <1>2, <1>3 DEF Astray, Suspended

LEMMA AstrayProceed ==
  ASSUME OneAtATime, IInv, FoundInv, NEW w \in Workers, Proceed(w)
  PROVE  FoundInv' /\ faults' = faults /\ Astray' \subseteq Astray
<1> DEFINE q == request[w]
<1>1. /\ q.step # "idle" /\ q.thread \in Threads /\ faults' = faults
      /\ \A x \in Threads \ {q.thread} :
           checkpoint'[x] = checkpoint[x] /\ (x \in pending' <=> x \in pending)
      /\ \/ /\ request'[w].step # "idle" /\ request'[w].thread = q.thread
            /\ request'[w].step = "mark" => Snapshot(w)
         \/ Mark(w) /\ request'[w].step # "mark"
  BY ProceedLists
<1>2. FoundInv'
  <2>1. SUFFICES ASSUME request'[w].step = "mark"
                 PROVE  request'[w].awaiting <=> Suspended(request[w].thread)'
    BY <1>1 DEF FoundInv, OneAtATime
  <2>2. Snapshot(w) /\ q \in Requests
    BY <1>1, <2>1 DEF IInv, TypeOK
  <2> QED
    BY <2>2 DEF Snapshot, Suspended, IInv, TypeOK, Requests
<1>3. ASSUME NEW x \in Astray' PROVE x \in Astray
  <2>1. x \in Threads /\ ~(x \in pending' <=> Suspended(x)') /\ ~Answering(x)'
    BY DEF Astray
  <2>2. CASE x # q.thread
    <3>1. ~(x \in pending <=> Suspended(x))
      BY <1>1, <2>1, <2>2 DEF Suspended
    <3>2. ~Answering(x)
      BY <2>2 DEF Answering, OneAtATime
    <3> QED
      BY <2>1, <3>1, <3>2 DEF Astray
  <2>3. CASE x = q.thread
    <3>1. Mark(w)
      BY <1>1, <2>1, <2>3 DEF Answering
    <3>2. q.step = "mark" /\ (x \in pending' <=> q.awaiting) /\ checkpoint' = checkpoint
      BY <2>3, <3>1 DEF Mark
    <3>3. q.awaiting <=> Suspended(x)
      BY <2>3, <3>2 DEF FoundInv
    <3> QED
      BY <2>1, <3>2, <3>3 DEF Suspended
  <2> QED
    BY <2>2, <2>3
<1> QED
  BY <1>1, <1>2, <1>3

(* A request that fails leaves at most its own thread astray.               *)
LEMMA AstrayFails ==
  ASSUME IInv, FoundInv, NEW w \in Workers, Fail(w)
  PROVE  /\ FoundInv' /\ faults' = faults + 1
         /\ Astray' \subseteq Astray \cup {request[w].thread}
<1>1. /\ UNCHANGED <<checkpoint, pending>> /\ faults' = faults + 1
      /\ request' = [request EXCEPT ![w] = Idle]
  BY DEF Fail, RouterFails, AnswererFails, DatabaseFails, Aborts, Fault
<1>2. request'[w].step = "idle" /\ \A v \in Workers \ {w} : request'[v] = request[v]
  BY <1>1 DEF Idle, IInv, TypeOK
<1>3. FoundInv'
  BY <1>1, <1>2 DEF FoundInv, Suspended
<1>4. \A t : Answering(t) => Answering(t)' \/ t = request[w].thread
  BY <1>2 DEF Answering
<1> QED
  BY <1>1, <1>3, <1>4 DEF Astray, Suspended

--------------------------------------------------------------------------------
(* The count.                                                               *)
Bounded(S, n) == IsFiniteSet(S) /\ Cardinality(S) <= n

LEMMA BoundedSubset ==
  ASSUME NEW S, NEW T \in SUBSET S, NEW n \in Nat, Bounded(S, n)
  PROVE  Bounded(T, n)
<1>1. IsFiniteSet(T) /\ Cardinality(T) <= Cardinality(S)
  BY FS_Subset DEF Bounded
<1>2. Cardinality(T) \in Nat /\ Cardinality(S) \in Nat
  BY <1>1, FS_CardinalityType DEF Bounded
<1> QED
  BY <1>1, <1>2 DEF Bounded

LEMMA BoundedOneMore ==
  ASSUME NEW S, NEW x, NEW T \in SUBSET (S \cup {x}), NEW n \in Nat, Bounded(S, n)
  PROVE  Bounded(T, n + 1)
<1>1. /\ IsFiniteSet(S \cup {x})
      /\ Cardinality(S \cup {x}) = Cardinality(S) \/ Cardinality(S \cup {x}) = Cardinality(S) + 1
  BY FS_AddElement DEF Bounded
<1>2. Cardinality(S) \in Nat
  BY FS_CardinalityType DEF Bounded
<1>3. Bounded(S \cup {x}, n + 1)
  BY <1>1, <1>2 DEF Bounded
<1> QED
  BY <1>3, BoundedSubset

LEMMA BoundedEmpty == ASSUME NEW n \in Nat PROVE Bounded({}, n)
<1>1. IsFiniteSet({}) /\ Cardinality({}) = 0
  BY FS_EmptySet, Zenon
<1> QED
  BY <1>1 DEF Bounded

LEMMA DriftInit == DeploymentInit => DriftInv
<1> SUFFICES ASSUME DeploymentInit PROVE DriftInv
  OBVIOUS
<1>1. /\ phase = "down" /\ pending = {}
      /\ \A t \in Threads : ~Suspended(t)
      /\ \A w \in Workers : request[w].step = "idle"
  BY DEF DeploymentInit, Init, Suspended, EmptyCheckpoint, Idle
<1> QED
  BY <1>1 DEF DriftInv, FoundInv, Astray

LEMMA DriftNext ==
  ASSUME OneAtATime, IInv, PoolInv, TraceInv, DriftInv, [DeploymentNext]_allVars
  PROVE  DriftInv'
<1>1. faults \in Nat /\ starts \in Nat
  BY ServiceAssumption DEF IInv, TypeOK, TraceInv
<1>2. CASE StartProcess
  <2>1. phase = "down" /\ starts' = starts + 1 /\ UNCHANGED vars
    BY <1>2 DEF StartProcess
  <2>2. FoundInv' /\ Astray' = Astray /\ faults' = faults
    BY <2>1 DEF vars, DriftInv, FoundInv, Astray, Answering, Suspended
  <2>3. Astray = {} => Bounded(Astray, faults)
    BY <1>1, BoundedEmpty
  <2> QED
    BY <1>1, <2>1, <2>2, <2>3 DEF DriftInv, Bounded
<1>3. ASSUME UNCHANGED <<vars, starts>>, phase' = "down" <=> phase = "down"
      PROVE  DriftInv'
  BY <1>3 DEF vars, DriftInv, FoundInv, Astray, Answering, Suspended
<1>4. CASE SetupSucceeds \/ SetupFails \/ DatabaseComesUp \/ StopAccepting \/ UnsetService
           \/ Refuse \/ UNCHANGED allVars
  BY <1>3, <1>4 DEF SetupSucceeds, SetupFails, DatabaseComesUp, StopAccepting, UnsetService,
     Refuse, allVars, deployment, lifecycle
<1>5. CASE ClosePool \/ Die
  <2>1. starts' = starts /\ phase' = "down" /\ starts # 0
    BY <1>5 DEF ClosePool, Die, Gone, DriftInv
  <2>2. FoundInv'
    <3>1. \A w \in Workers : request'[w].step = "idle"
      BY <1>5 DEF ClosePool, Die, Restart, Crash, Idle
    <3> QED
      BY <3>1 DEF FoundInv
  <2> QED
    BY <2>1, <2>2 DEF DriftInv
<1>6. ASSUME FoundInv', phase' = phase, starts' = starts, phase # "down",
             \/ faults' = faults /\ Astray' \subseteq Astray
             \/ /\ faults' = faults + 1
                /\ \E x : Astray' \subseteq Astray \cup {x}
      PROVE  DriftInv'
  <2>1. starts # 0
    BY <1>6 DEF DriftInv
  <2>2. ASSUME starts <= 1 PROVE Bounded(Astray', faults')
    <3>1. Bounded(Astray, faults)
      BY <1>6, <2>2 DEF DriftInv, Bounded
    <3>2. CASE faults' = faults /\ Astray' \subseteq Astray
      BY <1>1, <3>1, <3>2, BoundedSubset
    <3>3. ASSUME faults' = faults + 1, NEW x, Astray' \subseteq Astray \cup {x}
          PROVE  Bounded(Astray', faults')
      <4>1. Bounded(Astray', faults + 1)
        BY <1>1, <3>1, <3>3, BoundedOneMore
      <4> QED
        BY <3>3, <4>1
    <3> QED
      BY <1>6, <3>2, <3>3
  <2> QED
    BY <1>6, <2>1, <2>2 DEF DriftInv, Bounded
<1>7. ASSUME NEW w \in Workers, Admit(w)
      PROVE  DriftInv'
  <2>1. Arrive(w) /\ UNCHANGED <<phase, starts>> /\ phase # "down"
    BY <1>7 DEF Admit, Accepting, deployment, lifecycle
  <2>2. faults' = faults
    BY <2>1, ArriveLists
  <2> QED
    BY <1>6, <2>1, <2>2, AstrayArrive DEF DriftInv
<1>8. ASSUME NEW w \in Workers, Execute(w) \/ RequestFails(w)
      PROVE  DriftInv'
  <2>1. UNCHANGED <<phase, starts>> /\ (Proceed(w) \/ Fail(w))
    BY <1>8 DEF Execute, RequestFails, deployment, lifecycle
  <2>2. phase # "down"
    BY <2>1, InProgress DEF PoolInv
  <2>3. CASE Proceed(w)
    BY <1>6, <2>1, <2>2, <2>3, AstrayProceed DEF DriftInv
  <2>4. CASE Fail(w)
    <3>1. FoundInv
      BY DEF DriftInv
    <3>2. FoundInv' /\ faults' = faults + 1 /\ Astray' \subseteq Astray \cup {request[w].thread}
      BY <2>4, <3>1, AstrayFails
    <3> QED
      BY <1>6, <2>1, <2>2, <3>2
  <2> QED
    BY <2>1, <2>3, <2>4
<1> QED
  BY <1>2, <1>4, <1>5, <1>7, <1>8 DEF DeploymentNext

(* Between requests GET /pending lists exactly the suspended threads, but   *)
(* for one thread per request that failed (_update_pending runs last), for  *)
(* any number of threads, as long as requests come one at a time.           *)
THEOREM ListingExact ==
  ASSUME OneAtATime
  PROVE  DeploymentSpec => []ListingIsExact
<1>1. IInv /\ TraceInv /\ DriftInv => ListingIsExact
  <2> SUFFICES ASSUME IInv, TraceInv, DriftInv, starts <= 1, phase # "down", Quiet
               PROVE  LET suspended == {t \in Threads : Suspended(t)}
                      IN  Cardinality((pending \ suspended) \cup (suspended \ pending)) <= faults
    BY DEF ListingIsExact
  <2> DEFINE suspended == {t \in Threads : Suspended(t)}
  <2>1. pending \subseteq Threads
    BY DEF IInv, TypeOK
  <2>2. \A t : ~Answering(t)
    BY DEF Answering, Quiet
  <2>3. (pending \ suspended) \cup (suspended \ pending) = Astray
    BY <2>1, <2>2 DEF Astray
  <2> QED
    BY <2>3 DEF DriftInv
<1>2. IInv /\ PoolInv /\ TraceInv /\ DriftInv /\ [DeploymentNext]_allVars => DriftInv'
  BY DriftNext
<1>3. DeploymentSpec => []DriftInv
  BY <1>2, DriftInit, TraceInvariant, PTL DEF DeploymentSpec
<1> QED
  BY <1>1, <1>3, TraceInvariant, PTL
================================================================================
