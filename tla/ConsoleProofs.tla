------------------------------ MODULE ConsoleProofs ------------------------------
(***************************************************************************)
(* The console around the service: it is only a client of it, so whatever  *)
(* is proved of the service holds while consoles are used; and, with one   *)
(* run per thread at a time, the cards of the console offer nothing but    *)
(* escalated actions, for any number of workers, calls, threads, faults    *)
(* and lost answers.                                                       *)
(***************************************************************************)
EXTENDS Console, SerialProofs

(* The parts of the console's type invariant; a call that is being served   *)
(* is served by one worker.                                                 *)
CallsOK ==
  /\ call \in [Calls -> CallRecords]
  /\ \A c \in Calls : call[c].kind = "decide" =>
       /\ call[c].thread \in Threads /\ call[c].decision \in Verdicts
       /\ call[c].item \in Items

ServingOK ==
  /\ serving \in [Workers -> Calls \cup {None}]
  /\ \A w \in Workers : serving[w] # None =>
       /\ request[w].step # "idle"
       /\ call[serving[w]].stage = "served" /\ call[serving[w]].kind # "free"
  /\ \A v, w \in Workers : serving[v] = serving[w] /\ serving[v] # None => v = w

(* The card of a decision whose buttons are in the document is there.       *)
AttachedOK ==
  \A c \in Calls : call[c].kind = "decide" /\ call[c].attached =>
    cards[call[c].thread] \in Cards

ConsoleInv ==
  /\ IInv
  /\ cards \in [Threads -> Cards \cup {None}]
  /\ CallsOK
  /\ ServingOK
  /\ AttachedOK
  /\ lost \in Nat /\ restarts \in Nat

--------------------------------------------------------------------------------
(* The console is a client of the service.                                  *)
LEMMA ConsoleStep == CallsOK /\ [ConsoleNext]_allVars => [Next]_vars
<1> SUFFICES ASSUME CallsOK, [ConsoleNext]_allVars PROVE [Next]_vars
  OBVIOUS
<1>1. CASE ServerDies \/ ServerRestarts
  BY <1>1 DEF ServerDies, ServerRestarts, Next
<1>2. CASE \E c \in Calls : Load(c) \/ Receive(c) \/ Lose(c)
  BY <1>2 DEF Load, Receive, Loaded, LoadFailed, Decided, DecideFailed, Lose
<1>3. CASE \E c \in Calls, t \in Threads, decision \in Verdicts : Decide(c, t, decision)
  BY <1>3 DEF Decide
<1>4. ASSUME NEW w \in Workers, NEW t \in Threads,
             \/ \E text \in Texts : OthersSubmit(w, t, text)
             \/ \E decision \in Verdicts : OthersReview(w, t, decision)
             \/ OthersGet(w, t)
      PROVE  Next
  BY <1>4 DEF OthersSubmit, OthersReview, OthersGet, Next, Arrive
<1>5. ASSUME NEW w \in Workers, Serve(w) \/ ServerFails(w)
      PROVE  Next
  BY <1>5 DEF Serve, ServerFails, Next
<1>6. ASSUME NEW w \in Workers, NEW c \in Calls, Take(w, c)
      PROVE  Next
  <2>1. CASE ListDetails(w)
    BY <2>1 DEF Next, Arrive
  <2>2. CASE call[c].kind = "decide" /\ Review(w, call[c].thread, call[c].decision)
    <3>1. call[c].thread \in Threads /\ call[c].decision \in Verdicts
      BY <2>2 DEF CallsOK
    <3> QED
      BY <2>2, <3>1 DEF Next, Arrive
  <2> QED
    BY <1>6, <2>1, <2>2 DEF Take
<1>7. CASE \E w \in Workers, c \in Calls : TakeEmpty(w, c)
  BY <1>7 DEF TakeEmpty
<1>8. CASE UNCHANGED allVars
  BY <1>8 DEF allVars
<1> QED
  BY <1>1, <1>2, <1>3, <1>4, <1>5, <1>6, <1>7, <1>8 DEF ConsoleNext

--------------------------------------------------------------------------------
(* Records.                                                                 *)

LEMMA NoItemsType == NoItems \in [Threads -> Items \cup {None}]
BY DEF NoItems

LEMMA FreeCallType ==
  /\ FreeCall \in CallRecords /\ FreeCall.kind = "free"
  /\ LoadCall \in CallRecords /\ LoadCall.kind = "load" /\ LoadCall.stage = "sent"
BY NoItemsType DEF FreeCall, LoadCall, CallRecords

LEMMA FailedType ==
  ASSUME CallsOK, NEW c \in Calls
  PROVE  /\ Failed(c) \in CallRecords
         /\ Failed(c).kind = call[c].kind /\ Failed(c).thread = call[c].thread
         /\ Failed(c).decision = call[c].decision /\ Failed(c).item = call[c].item
BY NoItemsType DEF Failed, CallRecords, CallsOK

(* One call changes, and what it is about does not.                         *)
LEMMA CallChanges ==
  ASSUME CallsOK, NEW c \in Calls, NEW r \in CallRecords,
         r.kind = "decide" => /\ r.thread \in Threads /\ r.decision \in Verdicts
                              /\ r.item \in Items,
         call' = [call EXCEPT ![c] = r]
  PROVE  CallsOK'
BY DEF CallsOK

(* One call changes, and no card goes.                                      *)
LEMMA AttachedStays ==
  ASSUME CallsOK, AttachedOK, NEW c \in Calls, NEW r, call' = [call EXCEPT ![c] = r],
         r.kind = "decide" /\ r.attached => cards'[r.thread] \in Cards,
         \A t \in Threads : cards[t] \in Cards => cards'[t] \in Cards
  PROVE  AttachedOK'
BY DEF CallsOK, AttachedOK

(* A call nobody serves changes.                                            *)
LEMMA ServingStays ==
  ASSUME ServingOK, CallsOK, NEW c \in Calls, \A w \in Workers : serving[w] # c,
         UNCHANGED <<request, serving>>,
         \A d \in Calls : d # c =>
           call'[d].stage = call[d].stage /\ call'[d].kind = call[d].kind
  PROVE  ServingOK'
BY ConsoleAssumption DEF ServingOK

--------------------------------------------------------------------------------
LEMMA BrowserInvariant ==
  ASSUME ConsoleInv, NEW c \in Calls,
         \/ Load(c) \/ Receive(c) \/ Lose(c)
         \/ \E t \in Threads, decision \in Verdicts : Decide(c, t, decision)
  PROVE  /\ (cards \in [Threads -> Cards \cup {None}])' /\ CallsOK' /\ ServingOK'
         /\ AttachedOK' /\ (lost \in Nat /\ restarts \in Nat)'
<1>a. /\ call[c] \in CallRecords /\ call \in [Calls -> CallRecords]
      /\ CallsOK /\ ServingOK /\ AttachedOK
      /\ call[c].kind = "free" \/ call[c].stage # "served" =>
           \A w \in Workers : serving[w] # c
  BY ConsoleAssumption DEF ConsoleInv, CallsOK, ServingOK
<1>1. CASE Load(c)
  <2>1. CallsOK'
    BY <1>a, <1>1, FreeCallType, CallChanges DEF Load
  <2>2. ServingOK'
    BY <1>a, <1>1, ServingStays DEF Load, vars
  <2>3. AttachedOK'
    BY <1>a, <1>1, FreeCallType, AttachedStays DEF Load
  <2> QED
    BY <1>1, <2>1, <2>2, <2>3 DEF Load, ConsoleInv
<1>2. ASSUME NEW t \in Threads, NEW decision \in Verdicts, Decide(c, t, decision)
      PROVE  /\ (cards \in [Threads -> Cards \cup {None}])' /\ CallsOK' /\ ServingOK'
             /\ AttachedOK' /\ (lost \in Nat /\ restarts \in Nat)'
  <2> DEFINE r == [FreeCall EXCEPT !.kind = "decide", !.stage = "sent", !.thread = t,
                                   !.decision = decision, !.item = cards[t].item,
                                   !.attached = TRUE]
  <2>1. cards[t] \in Cards /\ cards[t].item \in Items
    BY <1>2 DEF Decide, ConsoleInv, Cards
  <2>2. r \in CallRecords /\ r.thread = t /\ r.decision = decision /\ r.item = cards[t].item
    BY <2>1, NoItemsType DEF FreeCall, CallRecords
  <2>3. call' = [call EXCEPT ![c] = r]
    BY <1>2 DEF Decide
  <2> HIDE DEF r
  <2>4. CallsOK'
    BY <1>a, <2>1, <2>2, <2>3, CallChanges
  <2>5. ServingOK'
    BY <1>a, <1>2, <2>3, ServingStays DEF Decide, vars
  <2>6. (cards \in [Threads -> Cards \cup {None}])'
    BY <1>2, <2>1 DEF Decide, ConsoleInv, Cards
  <2>7. \A u \in Threads : cards[u] \in Cards => cards'[u] \in Cards
    BY <1>2 DEF Decide, ConsoleInv, Cards
  <2>8. AttachedOK'
    BY <1>a, <2>1, <2>2, <2>3, <2>7, AttachedStays
  <2> QED
    BY <1>2, <2>4, <2>5, <2>6, <2>8 DEF Decide, ConsoleInv
<1>3. CASE Loaded(c)
  <2>1. call[c].items \in [Threads -> Items \cup {None}]
    BY <1>a DEF CallRecords
  <2>2. (cards \in [Threads -> Cards \cup {None}])'
    BY <1>3, <2>1 DEF Loaded, Render, Cards
  <2>3. \A d \in Calls : d # c =>
          /\ call'[d] \in CallRecords /\ call'[d].kind = call[d].kind
          /\ call'[d].stage = call[d].stage /\ call'[d].thread = call[d].thread
          /\ call'[d].decision = call[d].decision /\ call'[d].item = call[d].item
    BY <1>a, <1>3 DEF Loaded, CallRecords
  <2>4. call'[c] = FreeCall /\ DOMAIN call' = Calls
    BY <1>3 DEF Loaded
  <2>5. CallsOK'
    <3>1. \A d \in Calls : call'[d] \in CallRecords
      BY <2>3, <2>4, FreeCallType
    <3>2. call' \in [Calls -> CallRecords]
      BY <1>3, <3>1 DEF Loaded
    <3> QED
      BY <1>a, <2>3, <2>4, <3>2, FreeCallType DEF CallsOK
  <2>6. ServingOK'
    BY <1>a, <1>3, <2>3, ServingStays DEF Loaded, Arrived, vars
  <2>7. AttachedOK'
    <3>1. \A d \in Calls : d # c => ~call'[d].attached
      BY <1>a, <1>3 DEF Loaded, CallRecords
    <3> QED
      BY <2>4, <3>1, FreeCallType DEF AttachedOK
  <2> QED
    BY <1>3, <2>2, <2>5, <2>6, <2>7 DEF Loaded, ConsoleInv
<1>4. CASE LoadFailed(c)
  <2>1. CallsOK'
    BY <1>a, <1>4, FreeCallType, CallChanges DEF LoadFailed
  <2>2. ServingOK'
    BY <1>a, <1>4, ServingStays DEF LoadFailed, Arrived, vars
  <2>3. AttachedOK'
    BY <1>a, <1>4, FreeCallType, AttachedStays DEF LoadFailed
  <2> QED
    BY <1>4, <2>1, <2>2, <2>3 DEF LoadFailed, ConsoleInv
<1>5. CASE Decided(c)
  <2>1. CallsOK'
    BY <1>a, <1>5, FreeCallType, CallChanges DEF Decided
  <2>2. ServingOK'
    BY <1>a, <1>5, ServingStays DEF Decided, Arrived, vars
  <2>3. AttachedOK'
    BY <1>a, <1>5, FreeCallType, AttachedStays DEF Decided
  <2> QED
    BY <1>5, <2>1, <2>2, <2>3 DEF Decided, ConsoleInv
<1>6. CASE DecideFailed(c)
  <2>1. CallsOK'
    BY <1>a, <1>6, FreeCallType, CallChanges DEF DecideFailed
  <2>2. ServingOK'
    BY <1>a, <1>6, ServingStays DEF DecideFailed, Arrived, vars
  <2>3. /\ cards' \in [Threads -> Cards \cup {None}]
        /\ \A t \in Threads : cards[t] \in Cards => cards'[t] \in Cards
    <3>1. CASE call[c].attached
      <4>1. /\ cards[call[c].thread] \in Cards /\ call[c].thread \in Threads
            /\ cards' = [cards EXCEPT ![call[c].thread].enabled = TRUE]
        BY <1>a, <1>6, <3>1 DEF DecideFailed, Arrived, AttachedOK, CallsOK
      <4>2. [cards[call[c].thread] EXCEPT !.enabled = TRUE] \in Cards
        BY <4>1 DEF Cards
      <4> QED
        BY <4>1, <4>2 DEF ConsoleInv
    <3>2. CASE ~call[c].attached
      BY <1>6, <3>2 DEF DecideFailed, ConsoleInv
    <3> QED
      BY <3>1, <3>2
  <2>4. AttachedOK'
    BY <1>a, <1>6, <2>3, FreeCallType, AttachedStays DEF DecideFailed
  <2> QED
    BY <1>6, <2>1, <2>2, <2>3, <2>4 DEF DecideFailed, ConsoleInv
<1>7. CASE Lose(c)
  <2>1. call' = [call EXCEPT ![c] = Failed(c)]
    BY <1>7 DEF Lose
  <2>2. CallsOK'
    BY <1>a, <2>1, FailedType, CallChanges DEF CallsOK
  <2>3. ServingOK'
    BY <1>a, <1>7, ConsoleAssumption DEF Lose, ServingOK, vars
  <2>4. AttachedOK'
    <3>1. Failed(c).attached = call[c].attached /\ cards' = cards
      BY <1>a, <1>7 DEF Lose, Failed, CallRecords
    <3> QED
      BY <1>a, <2>1, <3>1, FailedType, AttachedStays DEF AttachedOK
  <2> QED
    BY <1>7, <2>2, <2>3, <2>4 DEF Lose, ConsoleInv
<1> QED
  BY <1>1, <1>2, <1>3, <1>4, <1>5, <1>6, <1>7 DEF Receive

--------------------------------------------------------------------------------
(* A step of a worker concerns its own request only.                        *)
LEMMA OthersKeep ==
  ASSUME IInv, NEW w \in Workers, Arrive(w) \/ Proceed(w) \/ Fail(w)
  PROVE  \A v \in Workers : v # w => request'[v] = request[v]
<1>1. request \in [Workers -> Requests]
  BY DEF IInv, TypeOK
<1>2. CASE Arrive(w)
  BY <1>1, <1>2 DEF Arrive, Submit, Review, Get, ListDetails
<1>3. CASE Proceed(w)
  BY <1>1, <1>3 DEF Proceed, SubmitLoad, UpdateRead, UpdatePut, ResumeLoad, Save, RunStart,
     RunSupervisor, RunBillingAsks, RunBillingRefuses, RunBillingEscalates, RunBillingRefunds,
     RunSupport, RunAuditor, Snapshot, Mark, Ran
<1>4. CASE Fail(w)
  BY <1>1, <1>4 DEF Fail, RouterFails, AnswererFails, DatabaseFails, Aborts
<1> QED
  BY <1>2, <1>3, <1>4

(* A conversation holds a finite number of verdicts.                        *)
LEMMA VerdictsType ==
  ASSUME NEW messages \in Seq(Entries)
  PROVE  VerdictsIn(messages) \in Nat
<1>1. IsFiniteSet(1 .. Len(messages)) /\ DOMAIN messages = 1 .. Len(messages)
  BY FS_Interval
<1>2. RepliesOf(messages, "approved") \cup RepliesOf(messages, "declined")
        \subseteq 1 .. Len(messages)
  BY <1>1, Zenon DEF RepliesOf
<1> QED
  BY <1>1, <1>2, FS_Subset, FS_CardinalityType DEF VerdictsIn

LEMMA GatheredType ==
  ASSUME ConsoleInv, NEW w \in Workers, serving[w] # None, request[w].step # "idle"
  PROVE  Gathered(w) \in [Threads -> Items \cup {None}]
<1>1. /\ call[serving[w]] \in CallRecords
      /\ call[serving[w]].items \in [Threads -> Items \cup {None}]
  BY DEF ConsoleInv, ServingOK, CallsOK, CallRecords
<1>2. /\ request[w].thread \in Threads
      /\ checkpoint[request[w].thread].proposed \in Actions \cup {None}
      /\ tickets[request[w].thread] \in 0 .. MaxTickets
  BY DEF ConsoleInv, IInv, TypeOK, Checkpoints
<1>3. Settled(request[w].thread) \in Nat
  BY <1>2, VerdictsType DEF ConsoleInv, IInv, TypeOK, Checkpoints, Settled
<1>4. [shown |-> checkpoint[request[w].thread].proposed,
       seen |-> tickets[request[w].thread],
       settled |-> Settled(request[w].thread),
       busy |-> TicketRuns(request[w].thread)] \in Items
  BY <1>2, <1>3 DEF Items, TicketRuns
<1> QED
  BY <1>1, <1>2, <1>4 DEF Gathered

(* Calls that fail stay well-typed.                                         *)
LEMMA CallsFail ==
  ASSUME ConsoleInv, NEW S \in SUBSET Calls, UNCHANGED <<cards, lost, restarts>>,
         call' = [c \in Calls |-> IF c \in S THEN Failed(c) ELSE call[c]]
  PROVE  /\ (cards \in [Threads -> Cards \cup {None}])' /\ CallsOK' /\ AttachedOK'
         /\ (lost \in Nat /\ restarts \in Nat)'
<1>1. call \in [Calls -> CallRecords] /\ CallsOK /\ AttachedOK
  BY DEF ConsoleInv, CallsOK
<1>2. \A c \in Calls :
        /\ call'[c] \in CallRecords /\ call'[c].kind = call[c].kind
        /\ call'[c].thread = call[c].thread /\ call'[c].decision = call[c].decision
        /\ call'[c].item = call[c].item /\ call'[c].attached = call[c].attached
  <2>1. \A c \in Calls : Failed(c).attached = call[c].attached
    BY <1>1 DEF Failed, CallRecords
  <2> QED
    BY <1>1, <2>1, FailedType
<1>3. call' \in [Calls -> CallRecords]
  BY <1>2
<1> QED
  BY <1>1, <1>2, <1>3 DEF ConsoleInv, CallsOK, AttachedOK

LEMMA RestartsInvariant ==
  ASSUME ConsoleInv, ServerRestarts
  PROVE  /\ (cards \in [Threads -> Cards \cup {None}])' /\ CallsOK' /\ ServingOK'
         /\ AttachedOK' /\ (lost \in Nat /\ restarts \in Nat)'
BY DEF ServerRestarts, Restart, ConsoleInv, CallsOK, ServingOK, AttachedOK

LEMMA DiesInvariant ==
  ASSUME ConsoleInv, ServerDies
  PROVE  /\ (cards \in [Threads -> Cards \cup {None}])' /\ CallsOK' /\ ServingOK'
         /\ AttachedOK' /\ (lost \in Nat /\ restarts \in Nat)'
<1>1. /\ serving' = [v \in Workers |-> None] /\ UNCHANGED <<cards, lost, restarts>>
      /\ call' = [c \in Calls |-> IF c \in {d \in Calls : \E v \in Workers : d = serving[v]}
                                  THEN Failed(c) ELSE call[c]]
  BY DEF ServerDies
<1>2. ServingOK'
  BY <1>1 DEF ServingOK
<1> QED
  BY <1>1, <1>2, CallsFail

LEMMA ServiceInvariant ==
  ASSUME ConsoleInv, NEW w \in Workers,
         \/ \E t \in Threads, text \in Texts : OthersSubmit(w, t, text)
         \/ \E t \in Threads, decision \in Verdicts : OthersReview(w, t, decision)
         \/ \E t \in Threads : OthersGet(w, t)
         \/ \E c \in Calls : Take(w, c) \/ TakeEmpty(w, c)
         \/ Serve(w) \/ ServerFails(w)
  PROVE  /\ (cards \in [Threads -> Cards \cup {None}])' /\ CallsOK' /\ ServingOK'
         /\ AttachedOK' /\ (lost \in Nat /\ restarts \in Nat)'
<1>a. /\ call \in [Calls -> CallRecords] /\ serving \in [Workers -> Calls \cup {None}]
      /\ CallsOK /\ ServingOK /\ AttachedOK /\ IInv
      /\ request \in [Workers -> Requests]
  BY DEF ConsoleInv, CallsOK, ServingOK, IInv, TypeOK
<1>1. CASE \/ \E t \in Threads, text \in Texts : OthersSubmit(w, t, text)
           \/ \E t \in Threads, decision \in Verdicts : OthersReview(w, t, decision)
           \/ \E t \in Threads : OthersGet(w, t)
  <2>1. /\ UNCHANGED console /\ request[w].step = "idle" /\ Arrive(w)
    BY <1>1 DEF OthersSubmit, OthersReview, OthersGet, Arrive, Submit, Review, Get
  <2>2. \A v \in Workers : v # w => request'[v] = request[v]
    BY <1>a, <2>1, OthersKeep
  <2>3. ServingOK'
    BY <1>a, <2>1, <2>2 DEF ServingOK, console
  <2> QED
    BY <1>a, <2>1, <2>3 DEF ConsoleInv, console, CallsOK, AttachedOK
<1>2. ASSUME NEW c \in Calls, Take(w, c)
      PROVE  /\ (cards \in [Threads -> Cards \cup {None}])' /\ CallsOK' /\ ServingOK'
             /\ AttachedOK' /\ (lost \in Nat /\ restarts \in Nat)'
  <2> DEFINE r == [call[c] EXCEPT !.stage = "served"]
  <2>1. /\ call' = [call EXCEPT ![c] = r] /\ serving' = [serving EXCEPT ![w] = c]
        /\ call[c].kind # "free" /\ call[c].stage = "sent" /\ UNCHANGED <<cards, lost, restarts>>
    BY <1>a, <1>2 DEF Take
  <2>2. /\ r \in CallRecords /\ r.kind = call[c].kind /\ r.thread = call[c].thread
        /\ r.decision = call[c].decision /\ r.item = call[c].item
        /\ r.attached = call[c].attached /\ r.stage = "served"
    BY <1>a DEF CallRecords
  <2> HIDE DEF r
  <2>3. CallsOK'
    BY <1>a, <2>1, <2>2, CallChanges DEF CallsOK
  <2>4. AttachedOK'
    BY <1>a, <2>1, <2>2, AttachedStays DEF AttachedOK
  <2>5. \A v \in Workers : v # w => request'[v] = request[v]
    <3>1. CASE ListDetails(w)
      BY <1>a, <3>1, OthersKeep DEF Arrive
    <3>2. CASE Review(w, call[c].thread, call[c].decision)
      BY <1>a, <3>2 DEF Review
    <3> QED
      BY <1>2, <3>1, <3>2 DEF Take
  <2>6. request'[w].step # "idle"
    <3>1. CASE Review(w, call[c].thread, call[c].decision)
      BY <1>a, <3>1 DEF Review, Idle
    <3>2. CASE ListDetails(w)
      BY <1>a, <3>2 DEF ListDetails, Idle
    <3> QED
      BY <1>2, <3>1, <3>2 DEF Take
  <2>7. ServingOK'
    <3>1. \A v \in Workers : serving[v] # c
      BY <1>a, <2>1, ConsoleAssumption DEF ServingOK
    <3> QED
      BY <1>a, <2>1, <2>2, <2>5, <2>6, <3>1, ConsoleAssumption DEF ServingOK
  <2> QED
    BY <2>1, <2>3, <2>4, <2>7 DEF ConsoleInv
<1>3. ASSUME NEW c \in Calls, TakeEmpty(w, c)
      PROVE  /\ (cards \in [Threads -> Cards \cup {None}])' /\ CallsOK' /\ ServingOK'
             /\ AttachedOK' /\ (lost \in Nat /\ restarts \in Nat)'
  <2> DEFINE r == [call[c] EXCEPT !.stage = "answered", !.ok = TRUE]
  <2>1. /\ call' = [call EXCEPT ![c] = r] /\ UNCHANGED <<request, serving, cards, lost, restarts>>
        /\ call[c].stage = "sent" /\ call[c].kind = "load"
    BY <1>a, <1>3 DEF TakeEmpty, vars
  <2>2. r \in CallRecords /\ r.kind = "load"
    BY <1>a, <2>1 DEF CallRecords
  <2> HIDE DEF r
  <2>3. CallsOK'
    BY <1>a, <2>1, <2>2, CallChanges
  <2>4. AttachedOK'
    BY <1>a, <2>1, <2>2, AttachedStays
  <2>5. ServingOK'
    <3>1. \A v \in Workers : serving[v] # c
      BY <1>a, <2>1, ConsoleAssumption DEF ServingOK
    <3> QED
      BY <1>a, <2>1, <3>1, ServingStays
  <2> QED
    BY <2>1, <2>3, <2>4, <2>5 DEF ConsoleInv
<1>4. CASE Serve(w)
  <2>1. /\ \A v \in Workers : v # w => request'[v] = request[v]
        /\ UNCHANGED <<cards, lost, restarts>>
    BY <1>a, <1>4, OthersKeep DEF Serve
  <2>2. CASE serving[w] = None /\ UNCHANGED <<call, serving>>
    BY <1>a, <2>1, <2>2 DEF ConsoleInv, CallsOK, ServingOK, AttachedOK
  <2>3. ASSUME serving[w] # None, NEW r,
               \/ /\ request'[w].step # "idle" /\ UNCHANGED serving
                  /\ r = [call[serving[w]] EXCEPT !.items = Gathered(w)]
               \/ /\ request'[w].step = "idle" /\ serving' = [serving EXCEPT ![w] = None]
                  /\ r = [call[serving[w]] EXCEPT !.stage = "answered", !.ok = TRUE],
               call' = [call EXCEPT ![serving[w]] = r]
        PROVE  CallsOK' /\ ServingOK' /\ AttachedOK'
    <3> DEFINE c == serving[w]
    <3>1. /\ c \in Calls /\ call[c] \in CallRecords /\ request[w].step # "idle"
          /\ call[c].stage = "served" /\ call[c].kind # "free"
      BY <1>a, <2>3 DEF ServingOK
    <3>2. Gathered(w) \in [Threads -> Items \cup {None}]
      BY <2>3, <3>1, GatheredType
    <3>3. /\ r \in CallRecords /\ r.kind = call[c].kind /\ r.thread = call[c].thread
          /\ r.decision = call[c].decision /\ r.item = call[c].item
          /\ r.attached = call[c].attached
          /\ request'[w].step # "idle" => r.stage = "served"
      BY <2>3, <3>1, <3>2 DEF CallRecords
    <3>4. CallsOK'
      BY <1>a, <2>3, <3>1, <3>3, CallChanges DEF CallsOK
    <3>5. AttachedOK'
      BY <1>a, <2>1, <2>3, <3>1, <3>3, AttachedStays DEF AttachedOK
    <3>6. ServingOK'
      BY <1>a, <2>1, <2>3, <3>1, <3>3 DEF ServingOK
    <3> QED
      BY <3>4, <3>5, <3>6
  <2>4. CASE serving[w] # None
    <3>1. CASE request'[w].step # "idle"
      <4>1. /\ UNCHANGED serving
            /\ call' = [call EXCEPT ![serving[w]] =
                          [call[serving[w]] EXCEPT !.items = Gathered(w)]]
        BY <1>a, <1>4, <2>4, <3>1 DEF Serve
      <4> QED
        BY <2>1, <2>3, <2>4, <3>1, <4>1 DEF ConsoleInv
    <3>2. CASE request'[w].step = "idle"
      <4>1. /\ serving' = [serving EXCEPT ![w] = None]
            /\ call' = [call EXCEPT ![serving[w]] =
                          [call[serving[w]] EXCEPT !.stage = "answered", !.ok = TRUE]]
        BY <1>a, <1>4, <2>4, <3>2 DEF Serve
      <4> QED
        BY <2>1, <2>3, <2>4, <3>2, <4>1 DEF ConsoleInv
    <3> QED
      BY <3>1, <3>2
  <2> QED
    BY <1>4, <2>2, <2>4 DEF Serve
<1>5. CASE ServerFails(w)
  <2>1. /\ \A v \in Workers : v # w => request'[v] = request[v]
        /\ serving' = [serving EXCEPT ![w] = None] /\ UNCHANGED <<cards, lost, restarts>>
        /\ call' = [c \in Calls |-> IF c \in {serving[w]} \ {None} THEN Failed(c) ELSE call[c]]
    BY <1>a, <1>5, OthersKeep, ConsoleAssumption DEF ServerFails
  <2>2. {serving[w]} \ {None} \in SUBSET Calls
    BY <1>a
  <2>3. ServingOK'
    BY <1>a, <2>1 DEF ServingOK
  <2> QED
    BY <2>1, <2>2, <2>3, CallsFail
<1> QED
  BY <1>1, <1>2, <1>3, <1>4, <1>5

LEMMA ConsoleNextInvariant == ConsoleInv /\ [ConsoleNext]_allVars => ConsoleInv'
<1> SUFFICES ASSUME ConsoleInv, [ConsoleNext]_allVars PROVE ConsoleInv'
  OBVIOUS
<1>1. IInv'
  BY ConsoleStep, NextInvariant DEF ConsoleInv
<1>2. CASE UNCHANGED allVars
  BY <1>1, <1>2
     DEF ConsoleInv, CallsOK, ServingOK, AttachedOK, allVars, vars, console
<1>3. CASE ConsoleNext
  <2>1. /\ (cards \in [Threads -> Cards \cup {None}])' /\ CallsOK' /\ ServingOK'
        /\ AttachedOK' /\ (lost \in Nat /\ restarts \in Nat)'
    BY <1>3, BrowserInvariant, ServiceInvariant, DiesInvariant, RestartsInvariant DEF ConsoleNext
  <2> QED
    BY <1>1, <2>1 DEF ConsoleInv
<1> QED
  BY <1>2, <1>3

LEMMA ConsoleInitInvariant == ConsoleInit => ConsoleInv
<1> SUFFICES ASSUME ConsoleInit PROVE ConsoleInv
  OBVIOUS
<1>1. IInv
  BY InitInvariant DEF ConsoleInit
<1>2. CallsOK
  BY FreeCallType DEF ConsoleInit, CallsOK
<1>3. ServingOK /\ AttachedOK
  BY FreeCallType DEF ConsoleInit, ServingOK, AttachedOK
<1> QED
  BY <1>1, <1>2, <1>3 DEF ConsoleInit, ConsoleInv, NoItems

LEMMA ConsoleInvariant == ConsoleSpec => []ConsoleInv
BY ConsoleInitInvariant, ConsoleNextInvariant, PTL DEF ConsoleSpec

(* The console's state has its type and a worker is only ever busy with a   *)
(* call that waits for its answer (app.js, the endpoints it calls).         *)
THEOREM ConsoleTypeCorrect == ConsoleSpec => []ConsoleTypeOK
<1>1. ConsoleInv => ConsoleTypeOK
  BY DEF ConsoleInv, IInv, CallsOK, ServingOK, ConsoleTypeOK
<1> QED
  BY <1>1, ConsoleInvariant, PTL

(* The console does nothing to the service that another client could not:   *)
(* what is proved of the service holds of it behind its consoles.           *)
THEOREM ConsoleImplementsService == ConsoleSpec => Spec
<1>1. ConsoleInit => Init
  BY DEF ConsoleInit
<1>2. ConsoleInv /\ [ConsoleNext]_allVars => [Next]_vars
  BY ConsoleStep DEF ConsoleInv
<1> QED
  BY <1>1, <1>2, ConsoleInvariant, PTL DEF ConsoleSpec, Spec

--------------------------------------------------------------------------------
(* What a card offers.  A thread is listed while its stored state has a     *)
(* proposal, and a stored proposal is never withdrawn, so a load finds one  *)
(* however long after the listing it takes the snapshot.                    *)
Offers(t) == checkpoint[t].proposed # None

Escalated(t, item) == [thread |-> t, action |-> item.shown] \in escalated

ListedOffer ==
  /\ \A t \in pending : Offers(t)
  /\ \A w \in Workers :
       /\ request[w].step = "mark" /\ request[w].awaiting => Offers(request[w].thread)
       /\ \A u \in request[w].todo : Offers(u)

LoadsOffer ==
  \A w \in Workers : serving[w] # None /\ call[serving[w]].kind = "load" =>
    /\ request[w].step \in {"snapshot", "mark"}
    /\ request[w].step = "snapshot" => Offers(request[w].thread)

ItemsOffer ==
  \A c \in Calls, t \in Threads :
    call[c].items[t] # None => Escalated(t, call[c].items[t])

OfferInv == ListedOffer /\ LoadsOffer /\ ItemsOffer /\ CardsOfferEscalations

LEMMA OffersStay ==
  ASSUME IInv, SerialInv, [Next]_vars, NEW t \in Threads, Offers(t)
  PROVE  checkpoint'[t].proposed # None
<1>1. ASSUME NEW w \in Workers, UpdatePut(w) \/ Save(w), request[w].thread = t
      PROVE  checkpoint'[t].proposed # None
  <2>1. checkpoint'[t] = request[w].cp /\ request[w].step \in {"put", "save"}
    BY <1>1, Stored DEF UpdatePut, Save
  <2>2. request[w].cp.proposed # None
    BY <1>1, <2>1 DEF Offers, SerialInv, InStep, CopyInStep
  <2> QED
    BY <2>1, <2>2
<1> QED
  BY <1>1, StoredBy DEF Offers

LEMMA SuspendedOffers ==
  ASSUME IInv, NEW t \in Threads, checkpoint[t].next = "auditor"
  PROVE  Offers(t)
BY DEF IInv, Governed, Offers

LEMMA TodoFromListing ==
  ASSUME IInv, [Next]_vars, NEW v \in Workers
  PROVE  request'[v].todo \subseteq request[v].todo \cup pending
<1>1. request \in [Workers -> Requests] /\ Idle.todo = {}
  BY DEF IInv, TypeOK, Idle
<1>2. ASSUME NEW w \in Workers, NEW r, request' = [request EXCEPT ![w] = r],
             r.todo \subseteq request[w].todo \cup pending
      PROVE  request'[v].todo \subseteq request[v].todo \cup pending
  BY <1>1, <1>2
<1>3. ASSUME NEW w \in Workers, Arrive(w)
      PROVE  request'[v].todo \subseteq request[v].todo \cup pending
  <2>1. ASSUME NEW t \in Threads, NEW text \in Texts, Submit(w, t, text)
        PROVE  request'[v].todo \subseteq request[v].todo \cup pending
    BY <1>1, <2>1 DEF Submit, Idle
  <2>2. ASSUME NEW t \in Threads, NEW d \in Verdicts, Review(w, t, d)
        PROVE  request'[v].todo \subseteq request[v].todo \cup pending
    BY <1>1, <2>2 DEF Review, Idle
  <2>3. ASSUME NEW t \in Threads, Get(w, t)
        PROVE  request'[v].todo \subseteq request[v].todo \cup pending
    BY <1>1, <2>3 DEF Get, Idle
  <2>4. ASSUME NEW t \in pending,
               request' = [request EXCEPT ![w] =
                 [Idle EXCEPT !.step = "snapshot", !.thread = t, !.todo = pending \ {t}]]
        PROVE  request'[v].todo \subseteq request[v].todo \cup pending
    BY <1>1, <2>4 DEF Idle
  <2> QED
    BY <1>3, <2>1, <2>2, <2>3, <2>4 DEF Arrive, ListDetails
<1>4. ASSUME NEW w \in Workers, Proceed(w), ~Mark(w)
      PROVE  request'[v].todo = request[v].todo
  BY <1>1, <1>4 DEF Proceed, SubmitLoad, UpdateRead, UpdatePut, ResumeLoad, Save, RunStart,
     RunSupervisor, RunBillingAsks, RunBillingRefuses, RunBillingEscalates, RunBillingRefunds,
     RunSupport, RunAuditor, Snapshot, Ran, Requests
<1>5. ASSUME NEW w \in Workers, Mark(w)
      PROVE  request'[v].todo \subseteq request[v].todo \cup pending
  <2>1. CASE request' = [request EXCEPT ![w] = Idle]
    BY <1>1, <2>1
  <2>2. ASSUME NEW u \in request[w].todo,
               request' = [request EXCEPT ![w] =
                 [Idle EXCEPT !.step = "snapshot", !.thread = u,
                              !.todo = request[w].todo \ {u}]]
        PROVE  request'[v].todo \subseteq request[v].todo \cup pending
    BY <1>1, <2>2 DEF Idle
  <2> QED
    BY <1>5, <2>1, <2>2 DEF Mark
<1>6. CASE FaultStep
  BY <1>1, <1>6, FaultOnlyIdles
<1>7. CASE UNCHANGED vars
  BY <1>7 DEF vars
<1> QED
  BY <1>3, <1>4, <1>5, <1>6, <1>7 DEF Next, FaultStep

LEMMA ListedNext ==
  ASSUME IInv, SerialInv, ListedOffer, [Next]_vars
  PROVE  ListedOffer'
<1>1. ASSUME NEW t \in pending' PROVE checkpoint'[t].proposed # None
  <2>1. t \in Threads /\ Offers(t)
    <3>1. CASE t \in pending
      BY <3>1 DEF ListedOffer, IInv, TypeOK
    <3>2. CASE t \notin pending
      <4>1. PICK w \in Workers : Mark(w) /\ request[w].awaiting /\ request[w].thread = t
        BY <3>2, OnlyMarkLists
      <4>2. request[w].step = "mark"
        BY <4>1 DEF Mark
      <4> QED
        BY <4>1, <4>2 DEF ListedOffer, IInv, TypeOK
    <3> QED
      BY <3>1, <3>2
  <2> QED
    BY <2>1, OffersStay
<1>2. ASSUME NEW v \in Workers, request'[v].step = "mark", request'[v].awaiting
      PROVE  checkpoint'[request'[v].thread].proposed # None
  <2>1. CASE request'[v] = request[v]
    BY <1>2, <2>1, OffersStay DEF ListedOffer, IInv, TypeOK, Offers
  <2>2. ASSUME NEW w \in Workers, Snapshot(w), request'[v] # request[v]
        PROVE  checkpoint'[request'[v].thread].proposed # None
    <3>1. /\ v = w /\ request[w].step = "snapshot"
          /\ request'[w].thread = request[w].thread
          /\ request'[w].awaiting = (checkpoint[request[w].thread].next = "auditor")
          /\ request[w].thread \in Threads /\ checkpoint' = checkpoint
      BY <2>2 DEF Snapshot, IInv, TypeOK, Requests
    <3>2. Offers(request[w].thread)
      BY <1>2, <3>1, SuspendedOffers
    <3> QED
      BY <3>1, <3>2 DEF Offers
  <2>3. (\E w \in Workers : Snapshot(w)) \/ request'[v] = request[v]
    <3>1. CASE \E w \in Workers : Arrive(w) \/ Proceed(w) \/ Fail(w)
      BY <1>2, <3>1, OnlySnapshotFinds
    <3>2. CASE Restart \/ Crash \/ UNCHANGED vars
      BY <1>2, <3>2 DEF Restart, Crash, vars, Idle
    <3> QED
      BY <3>1, <3>2 DEF Next
  <2> QED
    BY <2>1, <2>2, <2>3
<1>3. ASSUME NEW v \in Workers, NEW u \in request'[v].todo PROVE checkpoint'[u].proposed # None
  <2>1. u \in Threads /\ Offers(u)
    BY <1>3, TodoFromListing DEF ListedOffer, IInv, TypeOK, Requests
  <2> QED
    BY <2>1, OffersStay
<1> QED
  BY <1>1, <1>2, <1>3 DEF ListedOffer, Offers

(* What a load is doing, or has just done.                                  *)
Gathers(r) == r.step \in {"snapshot", "mark"} /\ (r.step = "snapshot" => Offers(r.thread))

(* A worker that a step does not move is still gathering.                   *)
LEMMA GathersStays ==
  ASSUME IInv, SerialInv, [Next]_vars, NEW w \in Workers, Gathers(request[w]),
         request'[w] = request[w]
  PROVE  /\ request'[w].step \in {"snapshot", "mark"}
         /\ request'[w].step = "snapshot" => checkpoint'[request'[w].thread].proposed # None
<1>1. request[w].thread \in Threads
  BY DEF IInv, TypeOK, Gathers
<1> QED
  BY <1>1, OffersStay DEF Gathers

(* A load that goes on is gathering from a listed thread.                   *)
LEMMA GathersOn ==
  ASSUME IInv, ListedOffer, NEW w \in Workers, Proceed(w), request'[w].step # "idle",
         request[w].step \in {"snapshot", "mark"}
  PROVE  /\ request'[w].step \in {"snapshot", "mark"}
         /\ request'[w].step = "snapshot" => checkpoint'[request'[w].thread].proposed # None
<1>a. request \in [Workers -> Requests]
  BY DEF IInv, TypeOK
<1>1. CASE Snapshot(w)
  BY <1>a, <1>1 DEF Snapshot, Requests
<1>2. CASE Mark(w)
  <2>1. request' # [request EXCEPT ![w] = Idle]
    BY <1>a DEF Idle
  <2>2. PICK u \in request[w].todo : request' = [request EXCEPT ![w] =
          [Idle EXCEPT !.step = "snapshot", !.thread = u, !.todo = request[w].todo \ {u}]]
    BY <1>2, <2>1 DEF Mark
  <2>3. /\ request'[w].step = "snapshot" /\ request'[w].thread = u
        /\ checkpoint' = checkpoint
    BY <1>a, <1>2, <2>2 DEF Mark, Idle
  <2> QED
    BY <2>3 DEF ListedOffer, Offers
<1> QED
  BY <1>1, <1>2
     DEF Proceed, SubmitLoad, UpdateRead, UpdatePut, ResumeLoad, Save, RunStart,
         RunSupervisor, RunBillingAsks, RunBillingRefuses, RunBillingEscalates,
         RunBillingRefunds, RunSupport, RunAuditor, Runs

(* A call that is being served by a worker, and goes on being served by it, *)
(* is of the same kind.                                                     *)
LEMMA ServedKind ==
  ASSUME ConsoleInv, [ConsoleNext]_allVars, NEW w \in Workers, NEW c \in Calls,
         serving[w] = c, serving'[w] = c
  PROVE  call'[c].kind = call[c].kind
<1>a. /\ call \in [Calls -> CallRecords] /\ CallsOK /\ ServingOK
      /\ call[c].stage = "served" /\ call[c].kind # "free" /\ c # None
  BY ConsoleAssumption DEF ConsoleInv, CallsOK, ServingOK
<1>1. ASSUME NEW d \in Calls,
             \/ Load(d) \/ LoadFailed(d) \/ Decided(d) \/ DecideFailed(d)
             \/ \E t \in Threads, decision \in Verdicts : Decide(d, t, decision)
      PROVE  call'[c].kind = call[c].kind
  <2>1. d # c
    BY <1>a, <1>1 DEF Load, LoadFailed, Decided, DecideFailed, Arrived, Decide
  <2> QED
    BY <1>a, <1>1, <2>1 DEF Load, LoadFailed, Decided, DecideFailed, Decide
<1>2. ASSUME NEW d \in Calls, Loaded(d)
      PROVE  call'[c].kind = call[c].kind
  <2>1. d # c
    BY <1>a, <1>2 DEF Loaded, Arrived
  <2>2. call'[c] = [call[c] EXCEPT !.attached = FALSE]
    BY <1>2, <2>1 DEF Loaded
  <2> QED
    BY <1>a, <2>2 DEF CallRecords
<1>3. ASSUME NEW d \in Calls, Lose(d)
      PROVE  call'[c].kind = call[c].kind
  BY <1>a, <1>3, FailedType DEF Lose
<1>4. ASSUME NEW v \in Workers, NEW d \in Calls, TakeEmpty(v, d) \/ Take(v, d)
      PROVE  call'[c].kind = call[c].kind
  <2>1. d # c
    BY <1>a, <1>4 DEF TakeEmpty, Take
  <2> QED
    BY <1>a, <1>4, <2>1 DEF TakeEmpty, Take
<1>5. ASSUME NEW v \in Workers, Serve(v)
      PROVE  call'[c].kind = call[c].kind
  BY <1>a, <1>5 DEF Serve, CallRecords
<1>6. ASSUME ServerDies \/ \E v \in Workers : ServerFails(v)
      PROVE  call'[c].kind = call[c].kind
  BY <1>a, <1>6, FailedType DEF ServerDies, ServerFails
<1>7. CASE call' = call
  BY <1>7
<1> QED
  BY <1>1, <1>2, <1>3, <1>4, <1>5, <1>6, <1>7
     DEF ConsoleNext, Receive, OthersSubmit, OthersReview, OthersGet, ServerRestarts,
         console, allVars

(* The call of a worker was its call before, or it has just taken it.       *)
LEMMA ServingFrom ==
  ASSUME ConsoleInv, [ConsoleNext]_allVars, NEW w \in Workers, serving'[w] # None
  PROVE  \/ /\ serving[w] = serving'[w]
            /\ \/ request'[w] = request[w]
               \/ Proceed(w) /\ request'[w].step # "idle"
         \/ \E c \in Calls : Take(w, c) /\ serving'[w] = c
<1>a. /\ request \in [Workers -> Requests] /\ serving \in [Workers -> Calls \cup {None}]
      /\ IInv /\ ServingOK
  BY DEF ConsoleInv, IInv, TypeOK, ServingOK
<1> DEFINE Kept == /\ serving[w] = serving'[w]
                   /\ \/ request'[w] = request[w]
                      \/ Proceed(w) /\ request'[w].step # "idle"
<1>1. ASSUME UNCHANGED <<request, serving>> PROVE Kept
  BY <1>1
<1>2. ASSUME NEW c \in Calls, Lose(c) PROVE Kept
  BY <1>a, <1>2 DEF Lose, vars
<1>3. ASSUME NEW v \in Workers, NEW t \in Threads,
             \/ \E text \in Texts : OthersSubmit(v, t, text)
             \/ \E decision \in Verdicts : OthersReview(v, t, decision)
             \/ OthersGet(v, t)
      PROVE  Kept
  <2>1. request[v].step = "idle" /\ serving' = serving /\ Arrive(v)
    BY <1>3 DEF OthersSubmit, OthersReview, OthersGet, Submit, Review, Get, console, Arrive
  <2>2. v # w
    BY <1>a, <2>1 DEF ServingOK
  <2> QED
    BY <1>a, <2>1, <2>2, OnlyItsOwn
<1>4. ASSUME NEW v \in Workers, Serve(v) PROVE Kept
  <2>1. CASE v = w
    BY <1>a, <1>4, <2>1 DEF Serve, ServingOK
  <2>2. CASE v # w
    <3>1. request'[w] = request[w]
      BY <1>a, <1>4, <2>2, OnlyItsOwn DEF Serve
    <3> QED
      BY <1>a, <1>4, <2>2, <3>1 DEF Serve
  <2> QED
    BY <2>1, <2>2
<1>5. ASSUME NEW v \in Workers, ServerFails(v) PROVE Kept
  <2>1. v # w /\ serving'[w] = serving[w]
    BY <1>a, <1>5 DEF ServerFails
  <2>2. request' = [request EXCEPT ![v] = Idle]
    BY <1>5 DEF ServerFails, Fail, RouterFails, AnswererFails, DatabaseFails, Aborts
  <2> QED
    BY <1>a, <2>1, <2>2
<1>6. ASSUME NEW v \in Workers, NEW c \in Calls, Take(v, c)
      PROVE  Kept \/ (Take(w, c) /\ serving'[w] = c)
  <2>1. CASE v = w
    BY <1>a, <1>6, <2>1 DEF Take
  <2>2. CASE v # w
    <3>1. serving'[w] = serving[w]
      BY <1>a, <1>6, <2>2 DEF Take
    <3>2. request'[w] = request[w]
      BY <1>a, <1>6, <2>2 DEF Take, ListDetails, Review
    <3> QED
      BY <3>1, <3>2
  <2> QED
    BY <2>1, <2>2
<1>7. ~ServerDies
  BY DEF ServerDies
<1>8. (\/ \E c \in Calls : Load(c) \/ Receive(c)
       \/ \E c \in Calls, t \in Threads, decision \in Verdicts : Decide(c, t, decision)
       \/ \E v \in Workers, c \in Calls : TakeEmpty(v, c)
       \/ ServerRestarts \/ UNCHANGED allVars) => UNCHANGED <<request, serving>>
  BY DEF ServerRestarts, Restart, Load, Receive, Loaded, LoadFailed, Decided, DecideFailed, Decide, TakeEmpty,
     allVars, console, vars
<1> QED
  BY <1>1, <1>2, <1>3, <1>4, <1>5, <1>6, <1>7, <1>8 DEF ConsoleNext

(* A load is a snapshot and a mark of each listed thread.                   *)
LEMMA LoadsNext ==
  ASSUME ConsoleInv, SerialInv, ListedOffer, LoadsOffer, [ConsoleNext]_allVars
  PROVE  LoadsOffer'
<1> SUFFICES ASSUME NEW w \in Workers, serving'[w] # None, call'[serving'[w]].kind = "load"
             PROVE  /\ request'[w].step \in {"snapshot", "mark"}
                    /\ request'[w].step = "snapshot" =>
                         checkpoint'[request'[w].thread].proposed # None
  BY DEF LoadsOffer, Offers
<1>a. /\ [Next]_vars /\ IInv /\ request \in [Workers -> Requests]
      /\ call \in [Calls -> CallRecords] /\ serving \in [Workers -> Calls \cup {None}]
  BY ConsoleStep DEF ConsoleInv, ServingOK, CallsOK, IInv, TypeOK
<1>1. CASE serving[w] = serving'[w]
  <2>1. Gathers(request[w])
    <3>1. call[serving[w]].kind = "load"
      BY <1>a, <1>1, ServedKind
    <3> QED
      BY <1>1, <3>1 DEF LoadsOffer, Gathers
  <2>2. CASE request'[w] = request[w]
    BY <1>a, <2>1, <2>2, GathersStays
  <2>3. CASE Proceed(w) /\ request'[w].step # "idle"
    BY <1>a, <2>1, <2>3, GathersOn DEF Gathers
  <2>4. CASE \E c \in Calls : Take(w, c)
    BY <1>a, <2>1, <2>4 DEF Take, ListDetails, Review, Gathers
  <2> QED
    BY <2>2, <2>3, <2>4, ServingFrom
<1>2. ASSUME NEW c \in Calls, Take(w, c), serving'[w] = c
      PROVE  request'[w].step = "snapshot" /\ checkpoint'[request'[w].thread].proposed # None
  <2>1. call'[c].kind = call[c].kind
    BY <1>a, <1>2 DEF Take, CallRecords
  <2>2. ListDetails(w)
    BY <1>2, <2>1 DEF Take
  <2>3. PICK t \in pending : request' = [request EXCEPT ![w] =
          [Idle EXCEPT !.step = "snapshot", !.thread = t, !.todo = pending \ {t}]]
    BY <2>2 DEF ListDetails
  <2>4. request'[w].step = "snapshot" /\ request'[w].thread = t /\ checkpoint' = checkpoint
    BY <1>a, <2>2, <2>3 DEF ListDetails, Idle
  <2> QED
    BY <2>4 DEF ListedOffer, Offers
<1> QED
  BY <1>1, <1>2, ServingFrom

(* An item of an answer was there before, or a load has just gathered it.   *)
GathersItem(w, c, t, item) ==
  /\ Serve(w) /\ serving[w] = c /\ call[c].kind = "load"
  /\ request[w].step = "snapshot" /\ request[w].thread = t
  /\ item = [shown |-> checkpoint[t].proposed, seen |-> tickets[t],
             settled |-> Settled(t), busy |-> TicketRuns(t)]

LEMMA ItemsFrom ==
  ASSUME ConsoleInv, [ConsoleNext]_allVars, NEW c \in Calls, NEW t \in Threads,
         call'[c].items[t] # None
  PROVE  \/ call'[c].items[t] = call[c].items[t]
         \/ \E w \in Workers : GathersItem(w, c, t, call'[c].items[t])
<1>a. /\ call \in [Calls -> CallRecords] /\ ServingOK /\ IInv
      /\ serving \in [Workers -> Calls \cup {None}]
  BY DEF ConsoleInv, CallsOK, ServingOK
<1>b. /\ FreeCall.items[t] = None /\ LoadCall.items[t] = None /\ NoItems[t] = None
  BY DEF FreeCall, LoadCall, NoItems
<1>c. \A d \in Calls : Failed(d).items[t] = None
  BY <1>a, <1>b DEF Failed, CallRecords
<1>2. ASSUME NEW d \in Calls,
             \/ Load(d) \/ Receive(d) \/ Lose(d)
             \/ \E u \in Threads, decision \in Verdicts : Decide(d, u, decision)
      PROVE  call'[c].items[t] = call[c].items[t]
  <2>1. CASE Load(d) \/ LoadFailed(d) \/ Decided(d) \/ DecideFailed(d) \/ Lose(d)
    BY <1>a, <1>b, <1>c, <2>1 DEF Load, LoadFailed, Decided, DecideFailed, Lose
  <2>2. CASE Loaded(d)
    <3>1. c # d => call'[c].items = call[c].items
      BY <1>a, <2>2 DEF Loaded, CallRecords
    <3>2. call'[d] = FreeCall
      BY <2>2 DEF Loaded
    <3> QED
      BY <1>b, <3>1, <3>2
  <2>3. ASSUME NEW u \in Threads, NEW decision \in Verdicts, Decide(d, u, decision)
        PROVE  call'[c].items[t] = call[c].items[t]
    <3>1. call'[d].items = NoItems /\ (c # d => call'[c] = call[c])
      BY <1>a, <2>3 DEF Decide, FreeCall
    <3> QED
      BY <1>b, <3>1
  <2> QED
    BY <1>2, <2>1, <2>2, <2>3 DEF Receive
<1>3. ASSUME NEW w \in Workers, NEW d \in Calls, Take(w, d) \/ TakeEmpty(w, d)
      PROVE  call'[c].items[t] = call[c].items[t]
  <2>1. CASE Take(w, d)
    BY <1>a, <2>1 DEF Take, CallRecords
  <2>2. CASE TakeEmpty(w, d)
    <3>1. call' = [call EXCEPT ![d] = [call[d] EXCEPT !.stage = "answered", !.ok = TRUE]]
      BY <1>a, <2>2 DEF TakeEmpty
    <3>2. [call[d] EXCEPT !.stage = "answered", !.ok = TRUE].items = call[d].items
      BY <1>a DEF CallRecords
    <3> QED
      BY <1>a, <3>1, <3>2
  <2> QED
    BY <1>3, <2>1, <2>2
<1>4. ASSUME NEW w \in Workers, Serve(w)
      PROVE  call'[c].items[t] = call[c].items[t] \/ GathersItem(w, c, t, call'[c].items[t])
  <2>1. CASE call' = call
    BY <2>1
  <2>2. CASE /\ serving[w] # None
             /\ call' = [call EXCEPT ![serving[w]].stage = "answered", ![serving[w]].ok = TRUE]
    BY <1>a, <2>2 DEF CallRecords
  <2>3. CASE /\ serving[w] # None
             /\ call' = [call EXCEPT ![serving[w]].items = Gathered(w)]
    <3> DEFINE d == serving[w]
               r == request[w]
               item == [shown |-> checkpoint[r.thread].proposed, seen |-> tickets[r.thread],
                        settled |-> Settled(r.thread), busy |-> TicketRuns(r.thread)]
    <3>1. /\ d \in Calls /\ r.step # "idle" /\ r.thread \in Threads
          /\ c # d => call'[c] = call[c]
          /\ call'[d].items = Gathered(w)
      BY <1>a, <2>3 DEF ServingOK, IInv, TypeOK, CallRecords
    <3>2. CASE Gathered(w) = call[d].items
      BY <3>1, <3>2
    <3>3. CASE /\ call[d].kind = "load" /\ r.step = "snapshot"
               /\ Gathered(w) = [call[d].items EXCEPT ![r.thread] = item]
      <4>1. call[d].items \in [Threads -> Items \cup {None}]
        BY <1>a, <3>1 DEF CallRecords
      <4>2. Gathered(w)[t] = IF t = r.thread THEN item ELSE call[d].items[t]
        BY <3>1, <3>3, <4>1
      <4> QED
        BY <1>4, <3>1, <3>3, <4>2 DEF GathersItem
    <3> QED
      BY <3>2, <3>3 DEF Gathered
  <2> QED
    BY <1>4, <2>1, <2>2, <2>3 DEF Serve
<1>5. ASSUME ServerDies \/ \E w \in Workers : ServerFails(w)
      PROVE  call'[c].items[t] = call[c].items[t]
  BY <1>c, <1>5 DEF ServerDies, ServerFails
<1>6. CASE call' = call
  BY <1>6
<1> QED
  BY <1>2, <1>3, <1>4, <1>5, <1>6
     DEF ConsoleNext, OthersSubmit, OthersReview, OthersGet, ServerRestarts, console, allVars

(* A card keeps its item, or shows one of an answer.                        *)
LEMMA CardsFrom ==
  ASSUME ConsoleInv, [ConsoleNext]_allVars, NEW t \in Threads, cards'[t] # None
  PROVE  \/ cards[t] # None /\ cards'[t].item = cards[t].item
         \/ \E c \in Calls : /\ call[c].items[t] # None
                             /\ cards'[t].item = call[c].items[t]
<1>a. CallsOK /\ AttachedOK /\ cards \in [Threads -> Cards \cup {None}]
  BY DEF ConsoleInv
<1>1. ASSUME NEW u \in Threads, cards[u] \in Cards, NEW b,
             cards' = [cards EXCEPT ![u] = [cards[u] EXCEPT !.enabled = b]]
      PROVE  cards[t] # None /\ cards'[t].item = cards[t].item
  <2>1. [cards[u] EXCEPT !.enabled = b].item = cards[u].item
    BY <1>1 DEF Cards
  <2> QED
    BY <1>a, <1>1, <2>1, ConsoleAssumption
<1>2. ASSUME NEW c \in Calls, NEW u \in Threads, NEW d \in Verdicts, Decide(c, u, d)
      PROVE  cards[t] # None /\ cards'[t].item = cards[t].item
  <2>1. cards[u] \in Cards /\ cards' = [cards EXCEPT ![u] = [cards[u] EXCEPT !.enabled = FALSE]]
    BY <1>a, <1>2 DEF Decide
  <2> QED
    BY <1>1, <2>1
<1>3. ASSUME NEW c \in Calls, Loaded(c)
      PROVE  call[c].items[t] # None /\ cards'[t].item = call[c].items[t]
  BY <1>3 DEF Loaded, Render
<1>4. ASSUME NEW c \in Calls, DecideFailed(c), call[c].attached
      PROVE  cards[t] # None /\ cards'[t].item = cards[t].item
  <2>1. /\ call[c].thread \in Threads /\ cards[call[c].thread] \in Cards
        /\ cards' = [cards EXCEPT ![call[c].thread] =
                       [cards[call[c].thread] EXCEPT !.enabled = TRUE]]
    BY <1>a, <1>4 DEF DecideFailed, Arrived, AttachedOK, CallsOK
  <2> QED
    BY <1>1, <2>1
<1>5. CASE cards' = cards
  BY <1>5
<1> QED
  BY <1>2, <1>3, <1>4, <1>5
     DEF ConsoleNext, Load, Receive, LoadFailed, Decided, DecideFailed, Lose, OthersSubmit,
         OthersReview, OthersGet, ServerRestarts, Serve, ServerFails, ServerDies, Take, TakeEmpty, console, allVars

(* Items and cards are escalated actions, and escalations are for good.     *)
LEMMA ItemsNext ==
  ASSUME ConsoleInv, LoadsOffer, ItemsOffer, [ConsoleNext]_allVars
  PROVE  ItemsOffer'
<1>a. escalated \subseteq escalated' /\ IInv /\ ServingOK
  BY ConsoleStep, EscalatedGrows DEF ConsoleInv
<1> SUFFICES ASSUME NEW c \in Calls, NEW t \in Threads, call'[c].items[t] # None
             PROVE  [thread |-> t, action |-> call'[c].items[t].shown] \in escalated
  BY <1>a DEF ItemsOffer, Escalated
<1>1. CASE call'[c].items[t] = call[c].items[t]
  BY <1>1 DEF ItemsOffer, Escalated
<1>2. ASSUME NEW w \in Workers, GathersItem(w, c, t, call'[c].items[t])
      PROVE  [thread |-> t, action |-> call'[c].items[t].shown] \in escalated
  <2>1. checkpoint[t].proposed # None
    BY <1>2, ConsoleAssumption DEF GathersItem, LoadsOffer, Offers
  <2>2. [thread |-> t, action |-> checkpoint[t].proposed] \in escalated
    BY <1>a, <2>1 DEF IInv, Governed
  <2> QED
    BY <1>2, <2>2 DEF GathersItem
<1> QED
  BY <1>1, <1>2, ItemsFrom

LEMMA CardsNext ==
  ASSUME ConsoleInv, ItemsOffer, CardsOfferEscalations, [ConsoleNext]_allVars
  PROVE  CardsOfferEscalations'
<1>a. escalated \subseteq escalated'
  BY ConsoleStep, EscalatedGrows DEF ConsoleInv
<1> SUFFICES ASSUME NEW t \in Threads, cards'[t] # None
             PROVE  [thread |-> t, action |-> cards'[t].item.shown] \in escalated
  BY <1>a DEF CardsOfferEscalations
<1> QED
  BY CardsFrom DEF ItemsOffer, Escalated, CardsOfferEscalations

(* A console whose service has one run per thread is a client of such a     *)
(* service.                                                                 *)
LEMMA ConsolePerThread ==
  ConsolePerThreadSpec =>
    /\ ConsoleSpec /\ PerThreadSpec
    /\ [](ConsoleInv /\ OneRunPerThread /\ SerialInv)
<1>1. [ConsoleNext /\ OneRunPerThread']_allVars => [ConsoleNext]_allVars
  OBVIOUS
<1>2. ConsoleInv /\ [ConsoleNext /\ OneRunPerThread']_allVars => [Next /\ OneRunPerThread']_vars
  <2> SUFFICES ASSUME ConsoleInv, [ConsoleNext /\ OneRunPerThread']_allVars
               PROVE  [Next /\ OneRunPerThread']_vars
    OBVIOUS
  <2>1. [Next]_vars
    BY ConsoleStep DEF ConsoleInv
  <2>2. OneRunPerThread' \/ UNCHANGED vars
    BY DEF allVars
  <2> QED
    BY <2>1, <2>2
<1>3. ConsoleInit => Init
  BY DEF ConsoleInit
<1> QED
  BY <1>1, <1>2, <1>3, ConsoleInvariant, SerialInvariant, PTL
     DEF ConsoleSpec, ConsolePerThreadSpec, PerThreadSpec

(* One worker runs one request at a time.                                   *)
LEMMA OneWorkerConsole ==
  ASSUME OneAtATime
  PROVE  ConsoleSpec => ConsolePerThreadSpec
<1>1. [ConsoleNext]_allVars => [ConsoleNext /\ OneRunPerThread']_allVars
  BY OneIsPerThread
<1> QED
  BY <1>1, PTL DEF ConsoleSpec, ConsolePerThreadSpec

LEMMA OfferInvariant == ConsolePerThreadSpec => []OfferInv
<1>1. ConsoleInit => OfferInv
  BY DEF ConsoleInit, Init, OfferInv, ListedOffer, LoadsOffer, ItemsOffer,
     CardsOfferEscalations, Idle, NoItems, FreeCall
<1>2. ASSUME ConsoleInv, SerialInv, OfferInv, [ConsoleNext]_allVars
      PROVE  OfferInv'
  BY <1>2, ConsoleStep, ListedNext, LoadsNext, ItemsNext, CardsNext DEF OfferInv, ConsoleInv
<1>3. ConsoleInv /\ SerialInv /\ OfferInv /\ [ConsoleNext]_allVars => OfferInv'
  BY <1>2
<1> QED
  BY <1>1, <1>3, ConsolePerThread, PTL DEF ConsoleSpec

(* With one run per thread at a time the queue never shows a card with      *)
(* nothing to approve: a card offers an action billing escalated on its     *)
(* thread, whatever was lost, failed, answered late or read meanwhile       *)
(* (renderCard, _snapshot, pending_details).                                *)
THEOREM CardsAreEscalations == ConsolePerThreadSpec => []CardsOfferEscalations
<1>1. OfferInv => CardsOfferEscalations
  BY DEF OfferInv
<1> QED
  BY <1>1, OfferInvariant, PTL
================================================================================
