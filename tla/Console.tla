-------------------------------- MODULE Console --------------------------------
(***************************************************************************)
(* The approval console (src/api/static/app.js) in one reviewer's browser, *)
(* around the whole of WorkflowService: calls that leave the browser, wait *)
(* for a worker, are served step by step and answered, while the timer     *)
(* re-renders the queue and the reviewer clicks.  Other clients use the    *)
(* service meanwhile.                                                      *)
(*                                                                         *)
(* The network and the queue of calls waiting for a worker are external.   *)
(***************************************************************************)
EXTENDS ServiceProperties

CONSTANTS
  Calls,      (* bound: calls of the console in flight at a time            *)
  MaxDisturbances   (* bound: faults, broken calls, restarts, follow-ups    *)

VARIABLES
  cards,      (* queueEl: the card of each thread, None without one         *)
  call,       (* the calls in flight                                        *)
  serving,    (* the call each worker's request belongs to, None for others *)
  lost,       (* history: calls broken so far                               *)
  restarts    (* history: times the service was stopped and started again   *)

console == <<cards, call, serving, lost, restarts>>
allVars == <<vars, console>>

(* What a snapshot says of a thread, with the tickets and the verdicts it   *)
(* had by then and whether a ticket was still running.                      *)
Items == [shown : Actions \cup {None}, seen : 0 .. MaxTickets, settled : Nat,
          busy : BOOLEAN]

Cards == [item : Items, enabled : BOOLEAN]

ASSUME ConsoleAssumption == MaxDisturbances \in Nat /\ None \notin Calls \cup Cards

NoItems == [t \in Threads |-> None]

(* A load gathers items; a decision has the item of the card it was made    *)
(* on, which is attached while that card is in the document.                *)
CallRecords ==
  [kind : {"free", "load", "decide"}, stage : {"sent", "served", "answered"},
   ok : BOOLEAN, items : [Threads -> Items \cup {None}],
   thread : Threads \cup {None}, decision : Verdicts \cup {None},
   item : Items \cup {None}, attached : BOOLEAN]

FreeCall ==
  [kind |-> "free", stage |-> "answered", ok |-> FALSE, items |-> NoItems,
   thread |-> None, decision |-> None, item |-> None, attached |-> FALSE]

LoadCall == [FreeCall EXCEPT !.kind = "load", !.stage = "sent"]

ConsoleTypeOK ==
  /\ TypeOK
  /\ cards \in [Threads -> Cards \cup {None}]
  /\ call \in [Calls -> CallRecords]
  /\ \A c \in Calls : call[c].kind = "decide" =>
       /\ call[c].thread \in Threads /\ call[c].decision \in Verdicts
       /\ call[c].item \in Items
  /\ serving \in [Workers -> Calls \cup {None}]
  /\ \A w \in Workers : serving[w] # None =>
       request[w].step # "idle" /\ call[serving[w]].stage = "served"
  /\ lost \in Nat /\ restarts \in Nat

ConsoleInit ==
  /\ Init
  /\ cards = NoItems
  /\ call = [c \in Calls |-> FreeCall]
  /\ serving = [w \in Workers |-> None]
  /\ lost = 0
  /\ restarts = 0

(* The bound on what may go wrong, or change, around a decision.            *)
Disturbances ==
  faults + lost + restarts + Cardinality({t \in Threads : tickets[t] > 1})

Within == Disturbances' <= MaxDisturbances

--------------------------------------------------------------------------------
(* In the browser.                                                          *)

(* load: when the page opens, every ten seconds, and on refresh.            *)
Load(c) ==
  /\ call[c].kind = "free"
  /\ call' = [call EXCEPT ![c] = LoadCall]
  /\ UNCHANGED <<vars, cards, serving, lost, restarts>>

(* The decisions posted for a thread and those on their way.                *)
Decisions(t) ==
  reviews[t]["approved"] + reviews[t]["denied"]
    + Cardinality({c \in Calls : /\ call[c].kind = "decide" /\ call[c].stage = "sent"
                                 /\ call[c].thread = t})

(* decide, up to fetch: the card's own buttons are disabled.                *)
Decide(c, t, decision) ==
  /\ call[c].kind = "free" /\ Decisions(t) < MaxReviews
  /\ cards[t] # None /\ cards[t].enabled
  /\ cards' = [cards EXCEPT ![t].enabled = FALSE]
  /\ call' = [call EXCEPT ![c] =
                [FreeCall EXCEPT !.kind = "decide", !.stage = "sent", !.thread = t,
                                 !.decision = decision, !.item = cards[t].item,
                                 !.attached = TRUE]]
  /\ UNCHANGED <<vars, serving, lost, restarts>>

Arrived(c, kind, ok) ==
  call[c].kind = kind /\ call[c].stage = "answered" /\ call[c].ok = ok

(* Mutants: a thread that has a card keeps it; only the new ones are added. *)
RenderKeeps(items) ==
  cards' = [t \in Threads |->
    IF items[t] = None THEN None
    ELSE [item |-> IF cards[t] = None THEN items[t]
                   ELSE [items[t] EXCEPT !.shown = cards[t].item.shown],
          enabled |-> TRUE]]

RenderAdds(items) ==
  cards' = [t \in Threads |->
    IF items[t] = None THEN cards[t] ELSE [item |-> items[t], enabled |-> TRUE]]

RenderBlanks(items) ==   (* mutant: a card for a thread with nothing to show *)
  cards' = [t \in Threads |-> [item |-> items[t], enabled |-> TRUE]]

(* replaceChildren: a new card, with enabled buttons, for each item.        *)
Render(items) ==
  cards' = [t \in Threads |->
    IF items[t] = None THEN None ELSE [item |-> items[t], enabled |-> TRUE]]

(* load, after fetch.  The cards of decisions in flight leave the document. *)
Loaded(c) ==
  /\ Arrived(c, "load", TRUE)
  /\ Render(call[c].items)
  /\ call' = [d \in Calls |-> IF d = c THEN FreeCall
                              ELSE [call[d] EXCEPT !.attached = FALSE]]
  /\ UNCHANGED <<vars, serving, lost, restarts>>

LoadFailed(c) ==
  /\ Arrived(c, "load", FALSE)
  /\ call' = [call EXCEPT ![c] = FreeCall]
  /\ UNCHANGED <<vars, cards, serving, lost, restarts>>

(* decide, after fetch: it goes on to load ...                              *)
Decided(c) ==
  /\ Arrived(c, "decide", TRUE)
  /\ call' = [call EXCEPT ![c] = LoadCall]
  /\ UNCHANGED <<vars, cards, serving, lost, restarts>>

(* ... or enables the buttons of its card, which nobody sees if the card is *)
(* no longer in the document.                                               *)
DecideFailed(c) ==
  LET t == call[c].thread
  IN  /\ Arrived(c, "decide", FALSE)
      /\ call' = [call EXCEPT ![c] = FreeCall]
      /\ cards' = IF call[c].attached THEN [cards EXCEPT ![t].enabled = TRUE] ELSE cards
      /\ UNCHANGED <<vars, serving, lost, restarts>>

Receive(c) == Loaded(c) \/ LoadFailed(c) \/ Decided(c) \/ DecideFailed(c)

--------------------------------------------------------------------------------
(* Between browser and service.                                             *)

Failed(c) == [call[c] EXCEPT !.stage = "answered", !.ok = FALSE, !.items = NoItems]

(* fetch rejects: the call never arrives, or the service goes on with it    *)
(* and nobody hears of the answer.                                          *)
Lose(c) ==
  /\ call[c].kind # "free" /\ ~(call[c].stage = "answered" /\ ~call[c].ok)
  /\ lost' = lost + 1
  /\ call' = [call EXCEPT ![c] = Failed(c)]
  /\ serving' = [w \in Workers |-> IF serving[w] = c THEN None ELSE serving[w]]
  /\ UNCHANGED <<vars, cards, restarts>>
  /\ Within

(* A worker takes a call.  With nothing listed a load is answered at once.  *)
Take(w, c) ==
  /\ call[c].kind # "free" /\ call[c].stage = "sent"
  /\ serving' = [serving EXCEPT ![w] = c]
  /\ call' = [call EXCEPT ![c].stage = "served"]
  /\ \/ call[c].kind = "load" /\ ListDetails(w)
     \/ call[c].kind = "decide" /\ Review(w, call[c].thread, call[c].decision)
  /\ UNCHANGED <<cards, lost, restarts>>

TakeEmpty(w, c) ==
  /\ call[c].kind = "load" /\ call[c].stage = "sent"
  /\ request[w].step = "idle" /\ pending = {}
  /\ call' = [call EXCEPT ![c].stage = "answered", ![c].ok = TRUE]
  /\ UNCHANGED <<vars, cards, serving, lost, restarts>>

(* The tickets of customers, the decisions of other reviewers, and their    *)
(* reads of a thread that waits unlisted, which list it again.  Their other *)
(* reads and loads are left out: they change the listing as the loads of    *)
(* this console do.                                                         *)
OthersSubmit(w, t, text) == Submit(w, t, text) /\ UNCHANGED console /\ Within

OthersReview(w, t, decision) ==
  Decisions(t) < MaxReviews /\ Review(w, t, decision) /\ UNCHANGED console

OthersGet(w, t) ==
  Suspended(t) /\ t \notin pending /\ Get(w, t) /\ UNCHANGED console

TicketRuns(t) == \E w \in Workers : RunsOn(w, t) /\ request[w].decision = None

(* The verdicts carried out on a thread, as its conversation tells them.    *)
VerdictsIn(messages) ==
  Cardinality(RepliesOf(messages, "approved") \cup RepliesOf(messages, "declined"))

Settled(t) == VerdictsIn(checkpoint[t].messages)

(* A snapshot of a load is an item of its answer.                           *)
Gathered(w) ==
  LET r == request[w]
      items == call[serving[w]].items
  IN  IF call[serving[w]].kind = "load" /\ r.step = "snapshot"
      THEN [items EXCEPT ![r.thread] = [shown |-> checkpoint[r.thread].proposed,
                                        seen |-> tickets[r.thread],
                                        settled |-> Settled(r.thread),
                                        busy |-> TicketRuns(r.thread)]]
      ELSE items

(* The worker goes on; at the end of the request the call is answered.      *)
Serve(w) ==
  /\ Proceed(w)
  /\ \/ serving[w] = None /\ UNCHANGED <<call, serving>>
     \/ /\ serving[w] # None /\ request'[w].step # "idle"
        /\ call' = [call EXCEPT ![serving[w]].items = Gathered(w)]
        /\ UNCHANGED serving
     \/ /\ serving[w] # None /\ request'[w].step = "idle"
        /\ call' = [call EXCEPT ![serving[w]].stage = "answered", ![serving[w]].ok = TRUE]
        /\ serving' = [serving EXCEPT ![w] = None]
  /\ UNCHANGED <<cards, lost, restarts>>

(* An error status, or a broken connection when the process dies.           *)
ServerFails(w) ==
  /\ Fail(w)
  /\ call' = [c \in Calls |-> IF c = serving[w] THEN Failed(c) ELSE call[c]]
  /\ serving' = [serving EXCEPT ![w] = None]
  /\ UNCHANGED <<cards, lost, restarts>>
  /\ Within

ServerDies ==
  /\ Crash
  /\ call' = [c \in Calls |-> IF \E w \in Workers : c = serving[w] THEN Failed(c)
                              ELSE call[c]]
  /\ serving' = [w \in Workers |-> None]
  /\ UNCHANGED <<cards, lost, restarts>>
  /\ Within

(* The service is stopped and started again between requests.  Calls wait.  *)
ServerRestarts ==
  /\ Restart
  /\ restarts' = restarts + 1
  /\ UNCHANGED <<cards, call, serving, lost>>
  /\ Within

--------------------------------------------------------------------------------
ConsoleNext ==
  \/ ServerDies \/ ServerRestarts
  \/ \E c \in Calls : Load(c) \/ Receive(c) \/ Lose(c)
  \/ \E c \in Calls, t \in Threads, decision \in Verdicts : Decide(c, t, decision)
  \/ \E w \in Workers, t \in Threads :
       \/ \E text \in Texts : OthersSubmit(w, t, text)
       \/ \E decision \in Verdicts : OthersReview(w, t, decision)
       \/ OthersGet(w, t)
  \/ \E w \in Workers : Serve(w) \/ ServerFails(w)
  \/ \E w \in Workers, c \in Calls : Take(w, c) \/ TakeEmpty(w, c)

ConsoleSpec == ConsoleInit /\ [][ConsoleNext]_allVars

ConsolePerThreadSpec == ConsoleInit /\ [][ConsoleNext /\ OneRunPerThread']_allVars

(* The timer never stops, some call that waits for a worker gets one, a     *)
(* worker goes on, and some answer, or its failure, arrives.  Nothing       *)
(* obliges the reviewer or another client to do anything.                   *)
ConsoleFairness ==
  /\ WF_allVars(\E c \in Calls : Load(c))
  /\ SF_allVars(\E w \in Workers, c \in Calls : Take(w, c) \/ TakeEmpty(w, c))
  /\ WF_allVars(\E c \in Calls : Receive(c))
  /\ \A w \in Workers : WF_allVars(Serve(w))

ConsoleFairSpec == ConsoleSpec /\ ConsoleFairness

--------------------------------------------------------------------------------
(* What the console must guarantee.                                         *)

(* One run per thread at a time, a card always offers an action billing     *)
(* escalated on its thread, never the dash of renderCard, whatever was      *)
(* lost, failed, answered late or read meanwhile.                           *)
CardsOfferEscalations ==
  \A t \in Threads : cards[t] # None =>
    [thread |-> t, action |-> cards[t].item.shown] \in escalated

(* The approval names only the thread.  Still, one run per thread at a time *)
(* and until a fault, what an approval pays is what the card of the click   *)
(* was showing, unless a ticket of the thread was running at the snapshot   *)
(* or came after it.                                                        *)
ApprovalPaysWhatWasShown ==
  [][\A w \in Workers :
       LET c == serving[w]
           paid == ActionOf(ledger'[Len(ledger')])
       IN  (Len(ledger') > Len(ledger) /\ c # None /\ RunAuditor(w)) =>
             \/ paid = call[c].item.shown
             \/ tickets[call[c].thread] > call[c].item.seen \/ call[c].item.busy
             \/ faults > 0]_allVars

(* A decision may be posted twice: from a card that a load has replaced     *)
(* while the first was in flight, after its answer was lost, or by another  *)
(* reviewer.  One run per thread at a time, the auditor acts for a card     *)
(* only while the conversation holds no verdict that came after the card's  *)
(* snapshot, unless a newer ticket asks again.                              *)
CardsSettleOnce ==
  [][\A w \in Workers :
       LET c == serving[w]
           t == call[c].thread
       IN  (c # None /\ RunAuditor(w)) =>
             \/ Settled(t) = call[c].item.settled
             \/ tickets[t] > call[c].item.seen]_allVars

(* An escalation comes to the reviewer: until it is decided, replaced or    *)
(* hit by a fault, a card shows it, with buttons that work, again and       *)
(* again.  A restart forgets what was listed, and nobody is told of a       *)
(* thread until a request names it; from then on it is shown again.         *)
EscalationsAreShown ==
  \A t \in Threads :
    LET offered   == /\ cards[t] # None /\ cards[t].enabled
                     /\ cards[t].item.shown = checkpoint[t].proposed
        forgotten == restarts > 0 /\ t \notin pending
    IN  Suspended(t) ~> (offered \/ ~Suspended(t) \/ forgotten \/ faults > 0)

(* The card of a thread that nobody can decide any more disappears, however *)
(* late the answers that still list it arrive.                              *)
DecidedCardsDisappear ==
  \A t \in Threads : (cards[t] # None /\ ~Suspended(t)) ~> (cards[t] = None \/ Suspended(t))
================================================================================
