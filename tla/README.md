# A formal model of the Resolution Desk

TLA+ modules, TLC configurations and TLAPS proofs for the Agentic Resolution
Desk: a FastAPI service that runs customer tickets through a LangGraph graph of
agents (supervisor, billing, support, auditor), pays small refunds at once and
suspends large ones until a human reviewer decides.

The question the project asks is the one the repository makes its promise about:
**does money move only under the governance rules**, whatever the LLM answers,
however requests interleave, and wherever a request, the database or the process
fails? Around it: are suspended workflows always decidable, are decisions carried
out, does the conversation tell the truth, does every request end, and does the reviewer at
the console decide on what is really there.

## 1. The system

| component | source | state it keeps | operations |
|---|---|---|---|
| governance policy, CRM | `src/policy.py`, `src/mcp_server/mock_crm.py` | none (the directory is constant) | compare with the auto-approve limit, look an account up |
| refund tools | `src/mcp_server/tools_impl.py` | none but the audit records | `execute_refund`, `execute_approved_refund`, three read-only lookups |
| resolution graph | `src/graph.py`, `src/state.py`, `src/agents/*` | one checkpoint per thread: messages, assignee, intent, user, proposed action, approval flag, decision, and the runtime's next task | four nodes, two conditional edges, an interrupt before `auditor` |
| workflow service, API | `src/workflow_service.py`, `src/api/main.py`, `src/api/schemas.py` | `_pending`, a set in memory | `submit`, `resume`, `get`, `pending`, `pending_details` |
| startup, shutdown | `src/api/main.py` (`lifespan`), `src/graph.py` (`compiled_app`) | the process-wide service, the connection pool | connect once, 503 without a service, close |
| audit trail | `src/audit/logger.py`, `GET /audit` | a list in the memory of each process | record (redacted), filtered view |
| MCP tool server | `src/mcp_server/server.py` | a process of its own, with its own audit list | the refund tool and the lookups |
| approval console | `src/api/static/app.js` | the rendered cards, requests in flight | load on a 10 s timer, approve, deny |
| audit view page | `src/api/static/audit.js` | none | renders `GET /audit` on request |
| text extraction | `billing.py:27-33`, `supervisor.py:25,57-60` | none | first amount, first account id in a text |
| policy retrieval | `src/rag/retriever.py`, `policies.py` | none | lexical ranking |
| policy ingestion | `src/rag/ingest.py` | a table | one transaction of upserts |
| configuration, LLM client | `src/config.py`, `src/llm/client.py` | cached settings | read the environment |

How they interact. The endpoints are synchronous functions, so FastAPI runs them
in a pool of worker threads: several requests, for the same thread id too, are
executed at once. A request reads and writes checkpoints through the LangGraph
runtime, and nothing locks a thread id. The nodes call the refund tool directly,
inside a superstep; the checkpoint that records the step is written afterwards.
`_pending` is derived from the checkpoints by `_snapshot`, which ends every
request. Checkpoints are durable; `_pending`, the audit records and the requests
in progress are not.

What is hard here:

* **interleaving**: a decision is two steps on "the latest checkpoint"
  (`update_state`, then `invoke`), a ticket is a run on a copy of it;
* **crash windows**: a refund is executed before it is recorded;
* **stale state**: `requires_approval`, `proposed_action` and `approval_decision`
  survive in a thread from one ticket to the next, and each node writes only some
  of them;
* **protocol**: any thread id may be sent a ticket or a decision at any moment, also
  one that is suspended, finished, half-way or unknown;
* **a browser**: cards are older than the threads they show, decisions name only
  the thread, a timer replaces the cards while calls are in flight, and an answer
  may come late or never;
* **an LLM**: any intent and any account may come back, for any text.

What makes each part correct is stated, property by property, in
`ServiceProperties`, at the end of `Deployment` and `Console`, and in the
`...Properties` modules of the algorithms, and listed against the hazards in
`PROJECT.json`.

## 2. The modules

| module | what it is |
|---|---|
| `Governance` | the limit, the directory, the refund tool's four answers. No state. Amounts are cents. |
| `ResolutionGraph` | a checkpoint as a record, and each node, edge, input and update as an operator from checkpoint to checkpoint |
| `WorkflowService` | the system: worker threads that take requests through those operators, a step per database read, node and database write; crashes and failures; `Spec` and `FairSpec` |
| `ServiceProperties` | what the service must guarantee, grouped by what each property assumes; the refinement mapping to `ApprovalGate` |
| `ApprovalGate` | the abstract specification: per thread one open action, paid or dropped by a decision, and what a failure of any number of runs may undo |
| `ServiceProofs` | the inductive invariant of the service and the theorems about it |
| `SerialProofs` | the theorems that hold while the runs of one thread follow one another, the refinement of `ApprovalGate` among them |
| `RefundProofs` | the theorems that count refunds: against the replies that claim them, against tickets and against faults |
| `Deployment` | the API process around `WorkflowService`: startup, 503, shutdown, death, and the audit trail; its properties |
| `DeploymentProofs` | that `Deployment` implements `WorkflowService`, and theorems about pool, trail and the view of the trail |
| `ListingProofs` | how far the listing of suspended threads may be from the threads |
| `Console` | the reviewer's browser around `WorkflowService`: cards, calls in flight, the timer, lost answers; its properties |
| `ConsoleProofs` | that `Console` implements `WorkflowService`, and that cards show escalations |
| `ApprovalProofs` | that an approval pays what its card showed, and that a card settles at most once |
| `Characters` | character classes and greedy runs, what the regular expressions are made of |
| `Extraction`, `Redaction`, `Retrieval` | the pure algorithms on texts: amount and account id; masking of addresses; the lexical ranking |
| `TypedText` | every text up to a length, for the three modules below |
| `ExtractionProperties`, `RedactionProperties`, `RetrievalProperties` | what the algorithms must compute, said without searching, matching or sorting |
| `TextProofs` | that all of them compute it, for every text |
| `MCWorkflowService`, `MCDeployment`, `MCConsole`, `MCTexts` | constants for TLC |

`Governance` <- `ResolutionGraph` <- `WorkflowService` <- `ServiceProperties` extend
one another, and `Deployment` and `Console` extend the last, each conjoining the
actions of the service with what they do to its own variables
(`Execute(w) == Proceed(w) /\ TrailStep(w) /\ ...`; `Serve(w) == Proceed(w) /\ ...` with
what becomes of the call the worker serves). `Extraction` computes the functions
that `ResolutionGraph` takes as the constants `ExtractAmount` and `ExtractUserId`;
`Redaction` and `Retrieval` stand alone, since no step of the service depends on
what they return.

### How the model's state corresponds to the code

`checkpoint[t]` is the latest durable checkpoint of thread `t`. Its fields are
those of `ResolutionState` (`audit_trail` is left out: nothing writes it;
`proposed_action` keeps the user and the amount, its other fields are constants)
and three that belong to the LangGraph runtime: the text waiting in the input
channel, the next task, and the node that ran last. A message is its role and
either the ticket it carries or the name of the branch that wrote it: the wording
of replies is left out, but not which reply it is. `pending` is `_pending`.
`request[w]` is the request worker `w` executes: its step, its thread and its own
copy of the checkpoint.

`ledger`, `escalated`, `tickets` and `reviews` are history variables: what
happened, for the properties to speak of. The counters also bound the model. No
guard of an operation reads `ledger` or `escalated`.

A request walks through these steps (all of them actions of `WorkflowService`):

    POST /tickets     Submit  SubmitLoad  Save  ( Run<node>  Save )*  Snapshot  Mark
    POST /approve     Review  UpdateRead  UpdatePut  ResumeLoad ( Run<node>  Save )*  Snapshot  Mark
    GET /workflows    Get  Snapshot  Mark
    GET /pending/details   ListDetails  ( Snapshot  Mark )*

`Save` ends the run when the next task is `end` or `auditor`
(`interrupt_before`). `ResumeLoad` goes on from wherever the thread is:
`invoke(None)` runs the auditor past the interrupt, re-runs a node whose
superstep was lost, or finds nothing to do. `GET /pending` and `GET /health`
change nothing and are not actions.

`Restart` and `Crash` end the process, with nobody's request in progress or with
everybody's. In `WorkflowService` they may happen at any time; `Deployment` says when:

    StartProcess   lifespan calls compiled_app, which opens the pool
    SetupSucceeds  checkpointer.setup() returns, set_service(WorkflowService(...))
    SetupFails     it raises: compiled_app closes the pool, lifespan suppresses
    Admit/Refuse   get_service yields the service or answers 503
    Execute        a step of a request, with the audit records its tool calls append
    StopAccepting  uvicorn stops accepting and waits for requests in progress
    UnsetService   lifespan's finally: set_service(None)
    ClosePool      ... and closes the pool; the process and its memory are gone
    Die            the process is killed

`phase` is where the process is in this, `pool` whether the connection pool is
open, `service` whether `_service` is set, `database` whether the database accepts
connections (a single failing call is `DatabaseFails`), `trail` is
`audit_log._records` without the redacted arguments and the timestamp. `forgotten`
is history: how much of the ledger the current trail is too young to hold. The
trail records only `execute_refund`; the other tools are called by the tool server alone.

In `Console`, `cards` is `queueEl`: for each thread the card in the document, or none;
a card is what it shows (`proposed_user_id`, `proposed_amount`) and whether its buttons
are enabled. `call[c]` is a call of the console in flight: sent, being served, or
answered; a load gathers its items while the worker walks `pending_details`, a
decision remembers the card it was made on, and `attached` says whether that card is
still in the document (`replaceChildren` takes it out, and enabling its buttons is
then without effect). `serving[w]` is the call that worker `w`'s request belongs to.
`seen`, `settled` and `busy` (the tickets a thread had at the snapshot, the verdicts its
conversation held, and whether a ticket was still running), `lost` and `restarts` are history.

    Load           load(): when the page opens, on refresh, every ten seconds
    Decide         a click: the card's buttons are disabled, POST /approve is sent
    Take           a worker takes the call (TakeEmpty: nothing is listed)
    Serve          a step of a request; the last one answers the call
    Loaded         load() after fetch: every card is replaced
    Decided        decide() after fetch: it goes on to load()
    LoadFailed, DecideFailed   the catch blocks
    Lose           fetch rejects: before the service has the call, or after, in
                   which case the service goes on with it
    OthersSubmit, OthersReview, OthersGet   customers, and reviewers elsewhere
    ServerFails, ServerDies      an error status; the process dies
    ServerRestarts               a clean stop and start between requests: calls that
                                 were sent wait, the listing is gone, cards stay

Of what other clients read, `OthersGet` is the read of a thread that waits unlisted, which
lists it again; their other reads and loads change the listing as the console's own loads
do and are left out.

In the algorithms a text is a sequence of characters. Letters are ASCII letters,
`\s` is the space and `\d` the ten ASCII digits; an amount is in cents, exact, so what
the binary floating point of the code does to a sum of cents is outside the model
(it only compares an amount with the limit and never adds). A match of the
address expression is given directly (the longest local part, the last point
that two letters follow) instead of by backtracking. A score of the retriever is the
number of shared words, without the division by the number of words of the query,
which is the same for every document.

### The LangGraph runtime

It is not in the repository, so `Advance`, `Start`, `SubmitInput` and `UpdateState`
model it from how the service uses it (LangGraph 0.2, the version the
requirements pin) and are marked external:

* a new input goes to the input channel of the latest checkpoint and discards
  the task that was waiting there; the first superstep moves it into the state;
* `update_state` writes as the node that ran, or was discarded, last, and takes that
  node's outgoing edges again. For a thread suspended at the auditor that node is
  `billing`, whose edge leads back to the auditor; for other threads it re-evaluates
  another edge, and for a thread nobody has written it runs the entry edge;
* checkpoints are written in order, one per superstep, and the model writes each
  before the next node starts. The runtime may write them in the background;
  a crash could then lose more than one superstep, which the model reaches as well
  by a crash at an earlier step, except that the refund of a later node is already
  paid: one more way into the double payment of `CrashRebills`;
* the writes of a finished node are also stored ahead of its checkpoint. Here they
  could only be read by `get_state` between a crash and the next request for the
  thread, and the model leaves them out.

Runs that share a thread are last-writer-wins: the latest checkpoint is the one
written last. With database-generated identifiers this is what the code gets
whenever clocks agree.

### Abstractions

* A text is a model value; what the two regular expressions read in it is a
  constant (`ExtractAmount`, `ExtractUserId`), unconstrained in the proofs.
* The router's answer is any intent and any account of `RouterIds`; the
  answerer's is `"answered"`. Either may raise instead (`RouterFails`, `AnswererFails`).
* Threads are named by clients: `Threads` is a set, and a new uuid is a member of it
  nobody used.
* Shutdown waits for the requests in progress, as uvicorn does unless it is given a
  timeout; a request it would abandon is covered by `Die`.
* `Aborts` ends a request where it is. `Crash` ends all of them and empties
  `pending`.

## 3. What TLC checks

The service's instances use Limit 50 and tickets out of: one over the limit (600), one
of exactly the limit, one without amount or account, and one of zero for a known
account. Accounts the CRM does not know come from the router.

| run | instance | what it checks | states |
|---|---|---|---|
| `ServiceConcurrent` | 1 thread, 2 workers, 2 tickets (600, 50), 2 decisions, no faults | `TypeOK`, `OverLimitIsGoverned`, `SuspendedIsReviewable`, `RepliesAreHonest`, `ListedWasEscalated` under every interleaving of database reads, nodes and writes | 4.2 M |
| `ServiceSerial` | 1 thread, 1 worker, 2 tickets of any of the four kinds, 2 decisions, 1 fault, a router that may name an unknown account | `RefundsAreValid`, `DenialMovesNoMoney`, `ApprovalsCoverRefunds`, `RefundsPerTicket`, `ConversationAccounts`, `ConversationGrows`; decisions are carried out (`DecisionIsCarriedOut`), requests end (`RequestsComplete`), and the service implements `ApprovalGate` (`ImplementsApprovalGate`) | 443 k |
| `Deployment` | 2 threads, 1 worker, a ticket and a decision per thread, 1 fault, 2 starts, a database that may be down at first | `DeploymentTypeOK`, `RequestsHavePool`, `TrailAccountsForRefunds`, `RefundsAreRecorded`, `ApprovalsAreTraceable`, `ViewShowsTheNewest`, `ListingIsExact`, `ShutdownCompletes` | 1.0 M |
| `Console` | 1 thread, 1 worker, 2 calls in flight, 2 tickets that ask for different amounts, 2 decisions, 1 disturbance | `ConsoleTypeOK`, `CardsOfferEscalations`, `ApprovalPaysWhatWasShown`, `CardsSettleOnce`, `EscalationsAreShown`, `DecidedCardsDisappear` | 776 k |
| `Texts` | texts of up to 6 pieces: `v V 0 5 - $ . _` and the space; `v @ . _`, the space, `v@v` and `.vv`; `v V 0`, ` v` and ` 0` (up to 5, against a corpus of 4) | `AmountIsFirstNumber`, `UserIdIsFirstId`, `EveryAddressIsMasked`, `RetrievesTheBest` | 735 k |

Each property is paired in `PROJECT.json` with a mutant: a plausible bug in one
definition that TLC finds to violate it. The mutated definitions stand before the
originals in the modules, marked as mutants; nothing else uses them.

### Bounds, and why they are enough

`MaxTickets`, `MaxReviews` (per thread) and `MaxFaults` bound the environment; nothing in the
code is bounded. Two tickets on one thread are needed for stale state to meet a new
ticket, two decisions for an approval to race a denial or to be repeated, two
workers for a race. One thread is enough wherever the property is about one
thread: threads share nothing but `pending` and the audit trail, and `Deployment` has two of
them.
`ServiceConcurrent` has no faults because, for safety, a request that fails is
one that takes no further step, and TLC explores every such prefix; what a fault
adds is a worker that is free again, i.e. a third request, and the loss of
`pending`, which no other action's outcome on checkpoints or the ledger depends
on. `ServiceSerial` has the faults: one of them can hit any step of any request, and
the properties that count say how far one fault may set the counts apart.
`MaxDisturbances` of 1 in `Console` bounds what else may happen around the decisions: a
fault of the service, a restart, a call that breaks, or a follow-up ticket on a thread. Any of
them can happen at any point; two calls suffice for a load to be overtaken
by a decision, and for a decision to be posted twice. `MaxStarts` of 2 gives the second process the threads, the conversations and the
open escalations of the first. In `Texts`, six characters are what it takes to have a number
with decimals and one more digit ("$5.505"), or an id with its surroundings
("_v-50_"); six pieces of the second alphabet hold two addresses with something
between them; the corpus has equal scores, repeated words and words within words. Where the bound stops a run from doing more, the theorems cover the
rest: they hold for any number of everything.

Deadlock is checked in every run: an idle worker can always serve a `Get`, and a
process without a service can always refuse.

### Fairness

`FairSpec` is weak fairness of `Proceed(w)` for each worker: the operating system
keeps running a thread that has something to do. Nothing is assumed about
arrivals (clients need not send anything) or faults, and no choice inside a step
is assumed fair. A request needs no other worker to make progress, so weak
fairness suffices.

`DeploymentFairSpec` adds that a startup or a shutdown, once begun, goes on: the code
runs them in one piece, and `setup()` either returns or raises. Nothing is assumed to
start or stop the process, to kill it, or to bring the database up.

`ConsoleFairSpec` has four parts. `setInterval` never stops (weak fairness of `Load`). Some
waiting call gets the worker: the pool hands its threads out in the order in which
calls asked for them, so when calls can be taken again and again, one is (strong
fairness of `Take`, since a worker is busy in between). A worker goes on (weak fairness of
`Serve`). And an answer, or the failure of the connection, reaches the browser (weak
fairness of `Receive`). Fairness is assumed of the calls together and not of each: one call
may wait forever while others are served. Nothing obliges the reviewer to click or
another client to call.

### Where the code differs from what it says

Each of these is a run whose property TLC must find violated, and an entry of
`findings` with the sentence of the repository it contradicts.

| run | the code | what is said of it |
|---|---|---|
| `CrashRebills` | `auditor.py:44` pays before the checkpoint is saved and nothing deduplicates: a crash between the two leaves the thread suspended, and the next approval pays again | README.md:26-27: a crash "does not restart and double-bill" |
| `DenialPays` | `workflow_service.py:59` writes and resumes separately: a denial resumes with a concurrent approval's decision | auditor.py:12: "denials move no money" |
| `LowTicketEscalates` | `billing.py:88` leaves `requires_approval` of an undecided escalation set: a refunded low-value ticket is routed to the auditor | graph.py:71: "only for high-value actions" |
| `EscalationDropped` | `workflow_service.py:53` accepts a ticket on a suspended thread and the graph drops the suspended task | ADR 0008:43: "a reviewer can approve long after escalation" |
| `NeverReconnects` | `main.py:69` connects once | main.py:60-61: 503 "until a database is available" |
| `DenialUnrecorded` | `auditor.py:56` records nothing | audit/logger.py:3: "Every tool invocation and governance decision is recorded here" |
| `FirstAmount` | `billing.py:27` reads the digits of an account id as the amount | billing.py:31: "the first monetary amount" |

Four more that the model contains and no run is devoted to. Two approvals of one thread
that two workers serve at once may both find it suspended and both pay: the race of
`DenialPays`, which is why `CardsSettleOnce`, as `RefundsPerTicket`, is claimed for one run
per thread at a time. After a restart
`_pending` is empty, so `GET /pending` does not list threads that are suspended
(their next snapshot lists them again). Two snapshots of one thread can update
`_pending` in the opposite order of their reads, leaving a finished thread
listed (what still holds then is `ListedWasEscalated`). And of two concurrent tickets on one thread the later save replaces the
conversation of the other. `ConversationGrows` is
therefore claimed for one run per thread at a time, and `ListingIsExact` for one request at
a time, until a restart and with one thread of difference per failed request. Likewise `ApprovalsAreTraceable` is claimed until a restart, after which the trail may
hold an approved refund without its escalation.

Three exemptions that properties state. `EscalationsAreShown` exempts, after a restart, a
thread that is not listed: nothing restores `_pending` (ADR 0008:45-47 says that it is
in-process), so the console shows no card for a suspended thread until some request
names it. `OthersGet` and the tickets and decisions of others are such requests, and from
then on the thread is shown again. The escalation itself is not lost, and whoever
knows the thread id can decide it. `ApprovalPaysWhatWasShown` exempts a thread that
got another ticket after the snapshot its card shows, or was running one when it was
taken: an approval names only the thread, and pays what is proposed by then. The
second case needs two workers; a load that overlaps the run of a ticket shows the action
that the run is about to replace, and nothing on the card tells. `EveryAddressIsMasked` exempts addresses
that run together (`v@v.vv@v.vv`): the expression matches the first of them, and the
local part of the second stays.

## 4. What is proved

### The service

`ServiceProofs` proves, for every value of the constants (any accounts, texts,
extractors, limit, threads, workers, bounds), every interleaving and every fault:

* `TypeCorrect`: `Spec => []TypeOK`;
* `MoneyIsGoverned`: `Spec => []OverLimitIsGoverned`. No refund over the limit
  without billing having escalated exactly that action on that thread and a reviewer
  having approved something on it; no refund within the limit by the auditor;
* `MoneyIsValid`: `Spec => []RefundsAreValid`. `execute_approved_refund` checks
  neither amount nor account, and need not;
* `ReviewableWhenSuspended`: `Spec => []SuspendedIsReviewable`;
* `ListedIsReviewed`: `Spec => []ListedWasEscalated`. However stale a snapshot is when it
  is entered in the set, it saw the thread suspended.

Assumed are `GovernanceAssumption`, `GraphAssumption` and `ServiceAssumption`:
the constants have their types, and an empty text yields neither amount nor account.

The argument. The four invariants speak of stored checkpoints and the ledger and
are not inductive, because a run works on a copy that may be older than what is
stored and is written back later. The strengthening `IInv` therefore says of
**every** checkpoint, stored or in flight, that it is `Governed`:

1. the entry task has an input to consume;
2. a checkpoint whose next task is the auditor has `requires_approval`;
3. one with `requires_approval` has a proposed action;
4. a proposed action is one billing escalated on this thread;
5. a decision "approved" was posted for this thread.

Parts 4 and 5 refer to histories that only grow, so an old copy stays governed
(`GovernedStays`); this is what makes the interleaving harmless. Two more conjuncts say
that every escalation is of an amount the tool answered `requires_human_auditor`
for, hence positive, over the limit and for a known account, and that the ledger so
far obeys both invariants. Then each graph operator maps governed checkpoints
to governed ones (one lemma per operator), each action of the service writes only
governed checkpoints (`ArriveInvariant`, `ProceedInvariant`, `FaultInvariant`), and
the auditor's payment, which reads a governed copy with decision "approved", is
governed by 3 to 5.

Note what `MoneyIsGoverned` does not say: that the approval was for *this* action, or
that it is used once. With two workers neither holds (`DenialPays`), and after a crash the
second does not (`CrashRebills`).

### One run per thread at a time

What two workers break is always the same: two runs on **one thread** work on copies of
its state, and the later save wins. The theorems of `SerialProofs`, and most of those
below, are therefore stated of `PerThreadSpec`: any number of workers and any
interleaving, in which two requests of one thread are never between their first read and
their last write (`OneRunPerThread`). Runs of different threads, listings and
snapshots overlap as they like, and faults, crashes and restarts may strike any number of them. The
code does not see to this, which is what `DenialPays` shows. A client that waits for its
answer, a lock per thread around `submit` and `resume`, or a single worker would
(`OneWorkerIsPerThread`: with at most one worker `Spec => PerThreadSpec`), so the
theorems also say what such a lock would buy. They are

* `StoredConversationGrows`: `PerThreadSpec => ConversationGrows`;
* `OnlyApprovalsPay`: `PerThreadSpec => []DenialMovesNoMoney`;
* `ApprovalPaysOnce`: `PerThreadSpec => []ApprovalsCoverRefunds`;
* `ServiceIsAGate`: `PerThreadSpec => ImplementsApprovalGate`, the refinement of the
  abstract gate.

The runs check these properties with one worker; TLC finds them true of `PerThreadSpec` as
well, with two workers and two threads, a ticket and a decision on each and a fault
(1.6 M states).

The argument. What concurrent runs break is the link between a request's copy of the
state and what is stored, so the strengthening `SerialInv` states that link.
`CopyInStep`: the copy continues the stored conversation, has a proposal if there is
one, and until a node has run holds the stored escalation. `DecisionKept`: from
`update_state` on, a request that carries a decision has it in the state it works on,
and only such a request runs the auditor, so a payment belongs to an approval. A step of one
worker stores nothing, or stores on the thread it alone runs on (`StoresAtMost`), so it leaves
the links of all others alone (`OthersStay`). `CountInv`
counts: a thread's auditor refunds are at most its approvals, and fewer while a
request with an approval may still run its auditor (`Owes`). For the gate, the mapping takes as
the open action of a thread the undecided one of its run's copy from the moment a node has
run, the stored one otherwise, and as the saved one always the stored one. Then a node is a
step of the gate on its thread and none on the others (`GateHere`, `GateElsewhere`), a save
is `Settle`, and everything else stutters; a failure is `Lapse` of the threads whose runs it ends, one or,
when the process dies, any number (`GateLapses`).

### Counting refunds

`RefundProofs` proves

* `ConversationsAreHonest`, for any number of workers: `Spec => []RepliesAreHonest`;
* `RefundsAreDue` and `RefundsAreTold`, for one run per thread at a time:
  `PerThreadSpec => []RefundsPerTicket` and `PerThreadSpec => []ConversationAccounts`;
* `NoFaultNoSecondRefund`, under `MaxFaults = 0`: `PerThreadSpec => []OneRefundPerTicket`,
  the property `CrashRebills` violates with one crash.

The argument. Two counts of a checkpoint decide: the claims its conversation makes
(`Said`) and the refunds it may still cause without a new ticket (`Owed`: one if billing
is yet to come with an amount, one if an escalation is undecided). Each node either
leaves the claims and adds nothing to what is owed, or pays one refund of those owed and
claims it (`Silent`, `Pays`, `NodeCounts`). From the claims alone follows `HonestInv`: every
conversation, stored or in hand, claims at most what was paid, and so does whichever
of two runs overwrites the other. For one run per thread at a time, `TallyInv` bounds what was paid plus
what is owed by tickets plus faults, and what was paid by what is claimed plus faults. It says
so exactly of the copy in hand; the stored conversation may be one refund behind while
a node's result is not saved, and owes one less while a ticket has not reached it. A
fault drops the copy and keeps the stored conversation; the refund it was behind by is then
the one the fault is counted for. The remaining danger is `update_state`, which takes the last node's edges again: `Routed` says that the waiting task is
already the one those edges name, so a decision on a thread that has ended does not
send its last ticket through billing once more.

### The console

`ConsoleProofs` proves, with `ConsoleAssumption` besides,

* `ConsoleImplementsService`: `ConsoleSpec => Spec`, with the identity as the mapping, so
  the theorems above hold of the service behind the console;
* `ConsoleTypeCorrect`: `ConsoleSpec => []ConsoleTypeOK`. Its last part, that a call being served
  belongs to a request in progress, is what keeps answers and requests together when
  calls break and processes die;
* `CardsAreEscalations`: `ConsolePerThreadSpec => []CardsOfferEscalations`. A thread is
  listed while its stored state has a proposal, and with one run per thread at a time a stored
  proposal is never withdrawn (only replaced), so a load finds one however long after the
  listing it takes the snapshot, and whatever runs meanwhile. `OfferInv` follows it from the set to the load, its items, the
  answer and the card.

### The deployment

`DeploymentProofs` proves, with `DeploymentAssumption` besides:

* `DeploymentImplementsService`: `DeploymentSpec => Spec`. Both have the service's
  variables, so the refinement mapping is the identity: startup and shutdown are
  stutters of the service, `ClosePool` is its `Restart`, `Die` its `Crash`. Every
  theorem above thereby holds of the deployment; `DeployedMoneyIsGoverned` says so
  of the most important one;
* `PoolOutlivesRequests`: `DeploymentSpec => []RequestsHavePool`. The inductive
  invariant `PoolInv` ties `service` and `pool` to the phase, and requests to the
  phases that have them;
* `ApprovalsTraceable`: `DeploymentSpec => []ApprovalsAreTraceable`. The service's
  invariant says that what the auditor pays was escalated; `TraceInv` adds that
  every escalation of the first process is on record (the step that escalates is
  the step that records, `EscalatingStep`);
* `EveryRefundIsRecorded`: `DeploymentSpec => RefundsAreRecorded`, an action
  property, from what each step of a request does to ledger and trail
  (`RecordedStep`).

* `TrailIsTheAccount`: `DeploymentSpec => []TrailAccountsForRefunds`, the state property
  of which `RefundsAreRecorded` is the step. It speaks of positions: the paid records are as
  many as the refunds this process executed, and the one of rank k is the record of
  the k-th. `AccountInv` adds the types and that the process forgot no more refunds
  than there are; a record appended last changes no older rank and has the highest;
* `ViewIsTheNewest`: `DeploymentSpec => []ViewShowsTheNewest`. What the filter of
  `get_audit` returns of a trail is a recursive function of the trail. Instead of an
  induction over sequences, the induction is the service's own: `Viewable` says that the
  function exists and that its result holds the matching records by rank; it holds of the empty
  trail, and of a trail with one more record (`ViewableAppended`), which is all that
  steps do to a trail. The rest is counting (`NewestCount`): what fewer than `limit`
  matching records follow is everything but the first `older` of them;
* `DeploymentTypeCorrect`: `DeploymentSpec => []DeploymentTypeOK`.

`ListingProofs` proves, under `OneAtATime` (at most one worker), `ListingExact`: `DeploymentSpec =>
[]ListingIsExact`. The property speaks of the times between requests only, while a
thread is wrongly listed, or wrongly not listed, during most of every request that
suspends or resumes it. `DriftInv` therefore counts the threads that are `Astray`: wrong, and
with no request in progress that will list them again. A step of a request changes the
stored state of its own thread only, a finished snapshot brings that thread in line
(`FoundInv`: what the snapshot found still holds), and a fault leaves at most
the one thread astray whose request it ends. TLC finds `DriftInv` true on the instance
of `Deployment` with a second fault (2.5 M states).

### What a card's decision does

`ApprovalProofs` proves, for any number of workers and calls,

* `ApprovalsPayTheirCard`: `ConsolePerThreadSpec => ApprovalPaysWhatWasShown`;
* `DecisionsSettleOnce`: `ConsolePerThreadSpec => CardsSettleOnce`.
 Between the snapshot a card shows and the payment lie an answer,
a click, a call and a request, all of them arbitrarily late. `ShownInv` follows the item from
the load's answer to the card, to the click's call and to the request that serves it, and
says all the way that, until a fault or another ticket of the thread, the item's action is
the one stored (`Current`). Its part `HalfWayInRuns` is why nothing else replaces the stored action in the
meantime: without a fault, a thread's state lets billing refund or escalate again only while the run
of one of its tickets is in progress, so the decisions that run on it in between
(`update_state` takes old edges again) leave the proposal as it is (`Calm`).

That a card settles at most once holds under every fault, lost call and restart, and its
argument is a different one. A verdict is stored by the very save that ends the thread's
run at the auditor (`CountsInStep`: a request has in hand the verdicts that are stored, or one
more and a finished auditor). From then until the next ticket the thread is `Closed`: a
further decision rewrites the finished auditor's state, takes its edge to the end again,
and `invoke` finds nothing to do (`UnsettledProceeds`). So for every item on its way from the
snapshot to the request, as long as no ticket came, either no verdict has been stored
since, or the thread is closed (`Unsettled`), and on a closed thread no auditor runs. A crash
between payment and save leaves no verdict behind, which is why the property
speaks of verdicts and `CrashRebills` of money.

### The texts

`TextProofs` proves, for every alphabet and texts of every length, what `Texts` enumerates
for short ones:

* `FirstNumberIsRead`: `Spec => []AmountIsFirstNumber`. The amount every card, limit check
  and refund depends on is the first number of the text, whole, with its two decimals;
* `FirstIdIsRead`: `Spec => []UserIdIsFirstId`. The account is the first account id of the
  text, from its first letter to its last digit, each letter in upper case;
* `AddressesAreMasked`: `Spec => []EveryAddressIsMasked`. Whatever stands around an address and
  however many there are, no more and no less than their local parts are masked, unless
  addresses are run together;
* `BestAreRetrieved`: `Spec => []RetrievesTheBest`, for every corpus and every bound `MaxQuery`.

Assumed are `CharactersAssumption` (letters are not among the other characters, and the upper
case of a letter is a letter), which TLC evaluates for ASCII, `TypedTextAssumption`
(pieces of text are sequences of strings) and `RetrievalAssumption` (the documents are texts).

The argument. A search from left to right takes the least element of a set of
positions, and a greedy run ends before the least position that breaks it (`RunEndIs`,
`RunEndIsThat`). That sets of numbers have least elements (`LeastElement`) is itself
derived, from the well-foundedness of finite sets under inclusion, because the library's
induction theorems cannot be instantiated here. With it, whatever prefix of signs and
spaces the search starts in, the group starts at the first digit of the text
(`FirstDigit`): nothing in a prefix is a digit. The group ends in one of three ways
(`Longest`: with the digits, with one decimal, with two), and a number that is longer
does not exist (`NumberEnds`, `LongestNumber`). For the value, `Reaches` restates induction for
sets of numbers, and with it the recursive value of digits satisfies its equation
(`NaturalIs`) and grows by one digit as it should (`NaturalAppend`); then whole and decimals
give what all digits without the point give (`CentsOfNumber`). For account ids, the two
runs of `IdAt` find exactly the beginnings of `IdSpans` (`IdAtSpans`, `SpansIdAt`) and end where
the span ends, and the text from there to there is put in upper case character by
character (`UpperSpan`).

Masking jumps from match to match, and what must remain is said position by position. A text
matches exactly at the positions of local parts (`LocalMatches`), and inside a match
nothing behind its @ is in a local part, or two addresses would be run together
(`NoneInside`). So before every position where the scan stands no local part
is in progress (`Stands`), and going backwards from the end of the text (`FromTheEnd`), what it
leaves behind it and what it still writes make what is kept (`ScanJoins`). For the
ranking, the tokens are the words (`TokensAreWords`), an insertion keeps the ranked documents
in order (`RankIs`), one document after the other (`RankingIs`), and in a sequence in
order a document's place is how many precede it (`Places`).

### Model-checked only

* Liveness (`RequestsComplete`, `DecisionIsCarriedOut`, `ShutdownCompletes`,
  `EscalationsAreShown`, `DecidedCardsDisappear`) needs reasoning about fairness and ENABLED
  that the prover does not do.

Every invariant that a run checks is stated by a theorem. Recursive definitions are
within reach because their equation can be derived as above, by an induction spelled out
for each definition; that is why the model's recursions are functions, not folds.

## 5. Not modelled

* The MCP tool server (`server.py`). It registers the functions of `tools_impl` one to one
  in a process of its own, and nothing in the repository calls it. Its trail is in
  its own memory, which `GET /audit` does not show: two memories without a channel leave
  nothing to interleave. The three lookups change nothing but that trail.
* Policy ingestion (`ingest.py`). One database transaction that upserts a constant corpus into a
  table nothing in the service reads: `get_default_retriever` always returns the
  in-memory retriever, although its docstring has pgvector first. `PgVectorRetriever` is one
  query over embeddings.
* `redact`'s recursion and the keys it always masks; no tool takes an argument with such a
  key. It masks the arguments of a record only, not its `user_id` field.
* The audit view's page (`audit.js`), which renders one response and keeps nothing.
* Two browsers: other reviewers are clients that decide on any thread at any time.
* Configuration (`config.py`) and the LLM client, which read the environment and construct
  objects; the wording of prompts and replies; container wiring and the manual smoke
  script. The LLM itself is any answer at all.
