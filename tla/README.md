# SmartStock AI in TLA+

Formal models of SmartStock AI (`src/smartstock-backend`, Django + Celery +
PostgreSQL; `src/smartstock-frontend`, React), model-checked with TLC and, but
for liveness, proved with TLAPS. Its core is the part of the program that decides and
spends: purchase orders, the agents that draft and mail them, the invoices that
change the stock, and the daily pipeline that ties them together. Around it,
fourteen smaller parts have a module each: mail, caches, agent runs, alerts,
forecasts, the circuit breaker, accounts, the browser's session, conversations,
the assistant's engines, its filters, the catalogue, documents, and the decision
agent.

Contents: [1 Inventory](#1-inventory) - [2 Modules](#2-modules) -
[3 How code becomes actions](#3-how-code-becomes-actions) -
[4 Runs](#4-runs) - [5 Bounds](#5-bounds) - [6 Fairness](#6-fairness) -
[7 Where code and documents disagree](#7-where-code-and-documents-disagree) -
[8 Proofs](#8-proofs) - [9 Not modelled](#9-not-modelled) - [10 Plan](#10-plan)

## 1 Inventory

Python paths below are relative to `src/smartstock-backend`.

| Component | State | Operations | Talks to | Hard behaviour | What makes it correct |
|---|---|---|---|---|---|
| Purchase orders (`apps/purchasing/services.py`, `views.py`, `repositories.py`, `models.py`) | rows of `purchase_order`, a partial unique index, row locks | draft, approve, reject, send, transition, mark_*, POST, PUT/PATCH, DELETE | mail broker, workflow rows | some operations lock, others check a copy and write by primary key later; the mail is queued inside the approval transaction | nobody passes the approval gate unapproved; one decision per order; no duplicate of an active order |
| Purchasing agent (`ai/agents/purchasing_agent.py` and its tools) | the position of each run, `PurchaseOrderWorkflow` rows | run: draft, gate, mail, poll, finish | the service, the broker | every statement commits by itself; runs sleep for minutes in a worker that is killed after two | a run returns; the workflow record tells the truth; the gate holds for agents too |
| Supplier timeout sweep (`apps/purchasing/timeout_tasks.py`) | the orders one task has fetched | query, save `timeout`, escalate | orders, notifications | saves from stale copies; save, dedup and escalation are separate steps, and what raises is swallowed | no order waits for ever; the users hear of a timed-out order, or its escalation failed |
| DBUpdateTool (`ai/agents/tools/db_update.py`) | none | one `transition_po_status` call | the service | as every unlocked transition | as above |
| Supplier mail (`apps/purchasing/email_tasks.py`, `infrastructure/email.py`, `apps/notifications/service.py`) | messages at the broker with their retry count, rows of `escalation_notification` | send, retry, escalate, notify, mail | SMTP, broker, notifications | late acknowledgement, second deliveries, a 24-hour dedup that checks and then creates | a failed mail is escalated; one recent escalation per order, and a finished one was announced |
| Invoice scans (`apps/ingestion/services.py`, `repositories.py`) | rows of `invoice_scan` | scan, confirm, reject | stock levels, the vision model | the check, the stock transaction and the mark are separate; the model answers late | confirmed means applied, once |
| Stock levels (`apps/inventory/services.py`, `repositories.py`) | rows of `stock_level` | adjust, PUT/PATCH, invoice lines | invoices | locked and unlocked writers of one row; deadlocks of multi-line invoices | the stock covers what is reserved and is what the changes add up to |
| Reorder pipeline (`apps/forecasting/pipeline_orchestrator.py`, `ai/agents/decision_agent.py`, `ai/agents/po_from_flag_creator.py`) | rows of `reorder_flag`, the progress of each delivery | evaluate SKUs in threads, raise flags, order flags | purchasing agent, orders | `acks_late`: a delivery may be killed, repeated or joined by another; upsert without a constraint | a consumed flag has an order; no second flag or order for a SKU |
| Caches (`apps/inventory/services.py`, `apps/forecasting/services.py`, `views.py`, `apps/notifications/views.py`) | five cache entries, a version counter in each process | read through, write and delete, time out | tables, Redis | a slow reader stores after the deletion; some writers delete early or not at all; a failed computation is cached | what is stale has a reason, and goes |
| Catalogue (`apps/inventory/views.py`, `services.py`) | products, suppliers, SKUs, their child rows, the orders of a supplier | create, update, switch off, delete | orders | fetch, check and write are three statements, and orders are moved by callers that checked an earlier status | a deleted supplier has no open order, a deleted product stays deleted |
| Forecast rows (`apps/forecasting/services.py`, `ai/agents/forecasting_agent.py`) | one row per SKU and date | forecast by the service, by the agent's tool | sales, Celery | a forecast is many transactions; two writers with different windows, one of them a language model's | the newest finished forecast is what its dates show |
| Decision agent (`ai/agents/decision_agent.py`) | the observations of one evaluation | evaluate a SKU, a product, all products | tools, flags | the model chooses order, number and arguments of the calls | a flag is about what was evaluated, and what is on order is not flagged |
| LLM failover (`ai/llm/llm_provider_manager.py`) | status, failures and deadline per provider | choose, record, half-open, reset | providers | three writers of the same fields, one of them locked | an open circuit half-opens |
| Agent runs (`ai/agents/tracking.py`, `apps/monitoring/tasks.py`) | rows of `agent_run` | create, complete, clean up, archive | Celery | completion races the clean-up; workers die | no run stays "running", and a task's verdict stands |
| Alerts (`apps/monitoring/alerts.py`) | rows of `alert_event` | evaluate, fire, report, resolve | mail, notifications | overlapping evaluations; firing events pile up | one event per cooldown |
| Accounts (`apps/authentication/`) | the user row, verification tokens | register, resend, verify, edit, deactivate | mail | check-then-use; edits that save whole rows | what was answered stands; somebody who asked has a link that works |
| Browser session (`smartstock-frontend/src/lib/axios.ts`, `store/authStore.ts`) | tokens of each tab, refresh cookie, refresh queue | boot, request, refresh, retry, sign in and out | API | answers out of order around a refresh; rotation between tabs | no request hangs |
| Conversations (`useChat.ts`, `apps/ingestion/views.py`, `apps/ai/services.py`) | the stream a browser reads, message rows, the title | send, retry, open, stream, flush, title, rename | assistant | clean-up of an aborted call runs during the next; the reader leaves; a refused write is swallowed | one live stream; what was seen is stored; a given name stays |
| Assistant engines (`apps/ingestion/views.py`, `ai/llm/chain.py`, `ai/rag/retrieval.py`) | a pool of four threads, timeouts | ask by `/chat`, `/rag`, `/query` | models, reranker, database | threads that hang, cancellation that comes too late | a question that is waited for is answered |
| Structured questions (`ai/llm/output_parser.py`, `apps/inventory/views.py`, `apps/ingestion/services.py`) | none | parse, translate, filter | the model, tables | one language, several translators, and rules that handlers add | the rows are those the conditions and the handler's rule describe |
| Document search (`ai/rag/`, `apps/ingestion/views.py`) | documents, chunks | upload, update, delete, search | embedding provider | deletion during an upload, around an update, and between the queries of a search | what was deleted is not found |
| Audit, exports, health, seed data, web interface | none of their own, or append-only | - | - | - | no state machine to check |

How the modelled parts interact: managers click through the views, which call
`PurchasingService`; the Celery beat starts the daily pipeline and the hourly
sweep; the pipeline's DecisionAgent raises reorder flags, `POFromFlagCreator`
runs one `PurchasingAgent` per flag; the agent and the agent-workflow endpoint
call the same service. There is no message passing between these: they share
database rows under READ COMMITTED with autocommit, so what can go wrong is the
interleaving of single statements. The models are built at that granularity.
The other fourteen parts are called by these, or by users, and as modelled wait
for nothing of one another.

`PROJECT.json` lists every component with its status and every hazard with its
line and the properties that cover it.

## 2 Modules

```
PurchaseOrderTable                      rows, unique index, locks, legal moves
   |-- PurchasingService                managers, the service, views, the tool
   |-- SupplierTimeouts                 the hourly sweep
   |-- PurchasingAgent                  agent runs and workflow rows
   |-- Purchasing  = Service + Timeouts + Agent    (MCPurchasing, Purchasing_proofs)
   |      \-- MailGate == INSTANCE SupplierMailGate (abstract: what the gate promises)
   \-- ReorderPipeline = Service + Agent + flags + deliveries
                                           (MCReorderPipeline, ReorderPipeline_proofs)
       OrderSteps_proofs: what Purchasing_proofs and ReorderPipeline_proofs share

StockLevels                             rows of stock_level and open transactions
   \-- InvoiceScans                     scans, confirmations    (MCInvoiceScans, InvoiceScans_proofs)

MailDelivery  CachedReads  AgentRuns  Alerts  Forecasts  ProviderBreaker  Accounts
BrowserSession  Chat  Questions  QueryFilters  Catalog  Documents  DecisionAgent
   \-- Platform                         one part moves, the others stand
                                        (MCPlatform, Platform_proofs)
Operations_proofs: MailDelivery, CachedReads, Alerts, Forecasts
Records_proofs:    Accounts, Catalog, Documents
Assistant_proofs:  DecisionAgent, Chat, QueryFilters
```

Each of the fourteen modules is a specification of its own (`MailSpec`,
`CacheSpec`, ...). `Platform` puts them side by side: a variable `part`, chosen
at the start, says which of them moves. As the parts share no variable, an
interleaving of two of them shows each of them nothing but stuttering, so every
property of one part holds in any mixture if it holds where that part moves
alone; the state space is the sum of theirs instead of the product.

| Module | Variables | Stand for |
|---|---|---|
| `PurchaseOrderTable` | `order` | the rows: status, key = (sku, supplier, quantity), `sent_at` as null/recent/overdue, whether `message_id` is set |
| | `txn` | the transaction of `approve_po` that holds the row lock |
| | `mails`, `approvals` | history: mails given to the broker, who approved |
| `PurchasingService` | `client` | what a `transition_po_status`, PUT or PATCH has read and will write |
| `SupplierTimeouts` | `sweep`, `saved`, `notice` | the query's result, the order between save and escalation, the newest escalation row of an order (recent, recent but never announced, old) |
| | `lost` | history: orders of whose last timeout nobody was told |
| `PurchasingAgent` | `run`, `result`, `workflow` | next statement of each run, what it returned, `PurchaseOrderWorkflow.status` |
| `SupplierMailGate` | `gate`, `sent` | abstract: a gate per order opens and stays open; mails leave only through it |
| `StockLevels` | `known`, `stock`, `written` | SKUs with a row, committed rows, uncommitted writes of each request |
| `InvoiceScans` | `scan`, `extracting`, `req` | scan rows, uploads that wait for the vision model, position of each confirm/reject request |
| | `applied`, `contended`, `balance`, `raced` | history: commits per scan, scans confirmed by overlapping or killed requests, what the committed changes add up to, SKUs changed under a reader |
| `ReorderPipeline` | `flag`, `delivery` | flag rows; a delivery's stage, its threads and the flags it has read |
| | `overlapped`, `interrupted` | history: have deliveries overlapped, has one been killed |
| `MailDelivery` | `queue`, `mailer` | messages at the broker by retry count, what each worker does |
| | `escalation`, `gone` | rows of the last escalations ("bare": without an address), deleted orders |
| `CachedReads` | `entry`, `cached`, `bumps` | the cache entry looked at, what each of its keys holds, `_product_cache_version` per process |
| | `reader`, `writer`, `committed`, `finished` | requests between lookup, query and store; writers between commit and deletion |
| `AgentRuns` | `run`, `agent`, `pending`, `sweeping` | rows, workers, messages, a clean-up between its two statements |
| `Alerts` | `rule`, `enabled`, `value`, `event`, `evaluator` | the rule looked at, its switch and metric, events, evaluations |
| `Forecasts` | `rowOf`, `forecaster`, `span`, `lastSale` | which forecast wrote the row of a date, who writes and which dates are left to him, what each covers |
| `ProviderBreaker` | `health`, `lock`, `caller`, `asking`, `reset` | `ProviderHealth`, its lock, calls, half-done availability checks and resets |
| `Accounts` | `user`, `token`, `mailed`, `served` | the row, verification tokens, requests with the row they read |
| `BrowserSession` | `tab`, `request`, `cookie`, `minted`, `stale`, `spender` | stores and interceptor of a tab, its requests, the tokens of the server |
| `Chat` | `ui`, `turn`, `conversation` | `useChat`'s refs, each question's stream and row, the conversation's title |
| | `unsaved` | history: answers whose last write the database refused |
| `Questions` | `endpoint`, `work`, `asker`, `reply`, `hung` | what was asked, the engine's thread, the request's thread, the answer |
| `QueryFilters` | `stage`, `query`, `filter` | the question, its conditions (one value or a list), the predicates made of them |
| `Catalog` | `active`, `sku`, `child`, `order`, `past`, `client` | rows, the statuses an order has had (a caller that writes may have read any), requests with what they fetched |
| `Documents` | `doc`, `chunks`, `upload`, `search`, `edited` | rows, uploads and searches in progress, updates that have fetched a row |
| `DecisionAgent` | `decision`, `seen`, `seenOpen`, `todo`, `result` | each evaluation's step, its observations, the flag it raised |

The remaining variables of these modules are histories (`accepted`, `cut`,
`raced`, `excused`, `verdict`, `overlapped`, `jammed`, `clobbered`, `late`,
`overtaken`, ...) or counters of faults; each says so where it is declared.

Definitions whose comment begins "Faulty:" are not part of any specification:
each is a plausible bug of the definition that follows it. For every property
of a passing run, `PROJECT.json` names one such variant ("mutants") under which
TLC finds that property violated, which shows that the property depends on the
code it is about.

## 3 How code becomes actions

* One action per database statement or locked transaction. `approve_po`,
  `reject_po` and `send_po` lock with `select_for_update`; the last two are one
  step. `approve_po` is three (`ApproveBegin`, `DispatchSupplierEmail`,
  `ApproveCommit`), because it gives the mail to the broker before it commits,
  and `ApproveRollback` is the transaction that never does.
* `transition_po_status`, `mark_*`, PUT/PATCH and the sweep read first and then
  write without a lock: two actions, and what was read waits in `client`,
  `run[a].pc` or `sweep`. `order.save()` of a PATCH writes back every column,
  the read-only status as it was read, and inserts a row that was deleted.
* Writers wait where PostgreSQL makes them wait: for the row (`txn`), and for an
  index entry an uncommitted approval holds (`IndexBusy`). Readers never wait.
  A write the index refuses raises; in a run that means the result `failed`.
* `PurchasingAgent.run` is a program counter over its statements; an exception
  inside it returns `failed` (`Raise`). `approve` inside a run
  (`skip_email=True`) queues nothing and is one step.
* The agent-workflow endpoint runs the agent with `plain` or `auto` context;
  `auto_approve` is honoured only outside production. A `callback` context is a
  caller's `approval_callback`: its approving branch is the one `auto` takes, so
  the runs outside production use it alone (it adds the rejection and the
  decision without a user). No production code passes a callback; the tests do.
* The invoice request is check (`ConfirmRead`), then one transaction of reads,
  updates and inserts over the lines, then `MarkConfirmed`. Uncommitted writes
  live in `written[r]`; an error, a crash and PostgreSQL's deadlock detection
  discard them.
* A delivery of `run_agent_pipeline`: one thread per SKU (`Observe`,
  `PersistFlag`, `InsertFlag`), then the flags are read once, newest first, and
  each is ordered by one agent run. What the forecast, the stock and the
  language model say is a nondeterministic choice. The forecast step collects
  its subtasks inside a task and goes on whatever comes of them, so it has no
  action of its own.
* Mail: `send_email_with_retry` is `Take`, one outcome of `send_email_core`, and
  then the retry (a message with one more in its header) or the escalation, whose
  look-up, insert, notices and mail are four statements. `Crash` and
  `DeliverAgain` put the message back.
* Caches: a hit changes nothing and has no action. `Miss` fixes the key, `Query`
  the data, `Store` writes under the key of `Miss`. Data are numbered by the
  write they were read after. A slot is *excused* when what it holds comes from a
  read that a deletion overtook, from a failed computation, or when its deletion
  was lost.
* Agent runs, accounts, catalogue: a request or task reads its row, and writes a
  statement later what the code saves: single columns (`update_fields`, `.update`)
  or the whole row as it was read.
* The sweep: `SweepEscalate` is what follows the save. It makes a row and tells the
  users, or finds a row of the last 24 hours and does nothing, or raises half-way,
  which is logged and forgotten (`CutOff`); `SweepCrash` is the death of the worker.
* Orders in the catalogue: `Move` writes the successor of any status the order has
  had (`past`), as `transition_po_status` and `mark_*` check a copy and write by
  primary key; `EditOrder` writes back the status of its fetch.
* Documents: `DocumentViewSet` inherits `update`, so a row is fetched while it is on
  and later saved whole, `is_active` included (`FetchDocument`, `SaveDocument`).
* Forecasts: `Predict` reads the sales and fixes the dates; `WriteDate` is one
  upsert. The service's window begins after the last sale; the agent's tool writes
  whatever rows the model passes to it.
* The circuit breaker: the record of a call is two writes under the lock,
  `is_available` and `reset_circuit_breaker` write without it, one field a step.
* The browser: `Unauthorized` is the interceptor up to its `await`, `Refreshed`
  and `SessionExpired` are what follows it; every answer may come at any time or
  be lost. A stream is counted in steps, its end included; a write of its answer may
  be refused, which the code swallows (`Flushes`); `Settle` is the `finally` of a call,
  which may run after the next call has begun.
* The assistant: external calls answer, fail or hang (`Hang`); so may the
  classification of a question, which runs before it is submitted (`Classified`). `/chat`
  cancels what has not started; `/rag` and `/query` leave a `with` block, which
  waits.
* Filters: a condition is a field, an operator and a value or a list of them; a
  handler's filter is a set of predicates over columns, the rules it adds itself
  among them (`OwnRules`: the default threshold of low stock, active products for
  the total value). `AnsweredIsFiltered` compares it, for every row of small
  values, with what the conditions and these rules say.
* The decision agent: the model is a nondeterministic choice of the next tool and
  of the id it passes; which of them the code uses is what the module is about.

## 4 Runs

State counts are distinct states, after symmetry where the configuration has it.

| Run | Expect | States | What it asks |
|---|---|---|---|
| `purchasing_staging` | pass | 2 015 320 | Two self-approving runs, managers and a sweep that fails once over two orders of one key. `UniqueActive`: the index holds whatever races. `PastGateWasApproved`: no order past the gate was never approved. `MailWasApproved`, `ImplementsMailGate`: the supplier is mailed only through an open gate. `WorkflowWasMailed`: a workflow record that says "mailed" is right even if its run died. `SweepSeesAwaiting`: every waiting order has the `sent_at` the sweep needs. `DecisionsAreSerialised`: an approval never lands on a rejection. |
| `purchasing_production` | pass | 1 764 669 | One run that asks for `auto_approve` in production, the tool, edits, deletions, POSTs and lost approval transactions over two keys. `OnlyManagersApprove`, `UniqueActive`. (`PastGateWasApproved` is proved for every value of the constants.) |
| `purchasing_liveness` | pass | 374 531 | `AwaitingIsResolved`: no order waits for its supplier for ever, even if its run was killed. `TimeoutIsEscalated`: of an order the sweep has timed out the users are told, or it is one of those whose escalation failed, found what a failed one had left, or went with the order. `RunReturns`: a run that is not killed comes to a result. |
| `invoices` | pass | 47 831 | Two requests on one scan with five invoices (two SKUs in either order, a repeated SKU, failing lines, an unknown SKU), withdrawals, counts, crashes. `StockCoversReserved`, `ConfirmedWasApplied`, `TwiceOnlyIfContended`, `StockIsConserved`, `RequestsEnd` (deadlocks are broken). |
| `pipeline` | pass | 1 854 098 | Two deliveries over two SKUs, one of which the model may order in two quantities, with managers deciding, and crashes. `ConsumedWasOrdered`: no reorder is lost. `OneOpenFlagUnlessOverlapped`, `OneOpenOrderUnlessTroubled`: no double flag or order unless deliveries overlap or one is killed. |
| `platform` | pass | 1 119 008 | All fourteen parts. `EscalationInv`: one recent escalation per order unless two workers escalated at one time, and one that nobody works on has been announced, and mailed if it has an address, unless its worker was cut off. `CacheInv`: stale data has one of three excuses, and a process that has written lists its own writes. `OneFiringPerCooldown`. `NewestForecastStands`. `AccountInv`: what was answered stands, and nobody locks himself out by asking twice. `ChatInv`: one live stream, what was seen is stored unless the database refused it, names stay. `AnsweredIsFiltered`: but for the conditions `Misread` lists, the rows are those the conditions and the handler's rule describe. `CatalogInv`: a deleted supplier has no open order except one that came meanwhile or was written from an earlier read; a deleted product stays off. `DeletedIsNotFound`: of what was deleted a later search finds nothing, unless an update had fetched it before. `FlagIsAboutItsTarget`. |
| `platform_liveness` | pass | 89 819 | Six of them. `MailIsSettled`: a mail about an order ends accepted or escalated. `StalenessEnds`. `NoRunHangs`: a run row is closed for good, with the verdict of its task if that reported one. `CircuitsHalfOpen`. `RequestsSettle`. `EveryQuestionIsAnswered`. |
| `purchasing_final` | violation | | `FinalIsFinal`: an order never leaves a final status. |
| `purchasing_mails` | violation | | `OneMailPerOrder`. |
| `purchasing_dedup` | violation | | `OneActivePerKey`. |
| `purchasing_report` | violation | | `ConfirmedRunIsReported`. |
| `invoices_twice` | violation | | `AppliedOnce`. |

`purchasing_staging`, `invoices`, `pipeline` and `platform` also check the type
invariants of their modules; that of the catalogue says that no child row outlives
its SKU. Deadlock checking is off: the system stops when every request, run and
delivery of the instance has ended.

`MailWasApproved` and `ImplementsMailGate` are checked where approval
transactions commit (`CommitMayFail = FALSE`). With lost commits they fail, as
they should: the mail is queued before the commit, a rollback leaves a mailed and
unapproved order, and nothing in the code repairs that. No property of a passing
run covers that hazard. `SweepSeesAwaiting` and
`DecisionsAreSerialised` are stated for orders nobody PATCHes, which can null
`sent_at` and write a status back.

The properties that carry an "unless" (three of the pipeline, two of the scans,
and most of the platform's) say exactly which schedules break the plain property; the histories
that name those schedules (`overlapped`, `interrupted`, `contended`, `raced`,
`cut`, `excused`, `overlapping`, `clobbered`, `late`, `lost`, `overtaken`, `unsaved`,
`jammed`) are set by the step that causes the overlap or the crash, not by its outcome.

## 5 Bounds

| Bound | Where | Why it is enough |
|---|---|---|
| `NumPO` | ids the table hands out: 1 or 2 | the unique index relates two rows; every other property is about one row. A run that finds no id left cannot insert: `RunReturns` says so (`OutOfIds`) |
| `MaxMails` | mails counted per order: 1 or 2 | `OneMailPerOrder` needs two; a mail that would exceed it is not queued, as when the broker refuses |
| `MaxAttempts` | polls of a run: 1 or 2 (10 in the code) | 2 has a first, a repeated and a last attempt |
| `MaxQuantity` | stock quantities 0..6 | start 1, two confirmations add at most two each |
| `NumFlags` | ids of `reorder_flag`: 2 | two SKUs, or two flags of one |
| `Run`, `Client`, `Request` | one or two of each | the hazards are races of two writers of one row; a third party (managers, sweep) is always there |
| `Context`, `ToolTargets`, `NewSentAt`, ... | chosen per run | inputs that could reach the property of that run |
| `MailWorker`, `Reader`, `Evaluator`, `Forecaster`, `Caller`, `AccountRequest`, ... | two of each | each hazard is a race of two; what they share is one row, entry, circuit or account |
| `Mail`, `MAX_RETRIES`, `NumEscalations`, `MaxFaults` | 2 mails of one order (1 in the liveness run), 1 retry (3 in the code), 3 escalations, 1 or 2 faults | a first try, a retry and a last one; a second mail meets the first one's escalation; a crash and a second delivery of its message |
| `MaxWrites`, `MaxOutages` | 2 writes (1), 1 lost deletion or failed computation | a write that finishes while an earlier reader still stores |
| `NumRuns`, `MaxKills` | 3 rows of a task that is killed up to twice | a run that is swept, completed late, and one that follows it |
| `NumEvents` | 3 alert events | two that fire in a row and one that overlaps |
| `Horizon`, `LastDay`, `NumForecasts` | 1, 2, 2 | three dates, of which the agent's forecast may cover any and the service's one that is past, equal or ahead; an older and a newer forecast |
| `FAILURE_THRESHOLD`, `MaxCalls`, providers | 2 failures (3), 2 calls over two providers, 3 over one | a circuit that opens, half-opens and opens again |
| `NumTokens`, `NumPairs` | 3 verification tokens, 3 pairs of browser tokens | a link that replaces another while a third is made; a boot and a refresh |
| `Turn`, `Question`, `PoolSize`, `MaxTries` | 2 questions, a pool of 1 (4), 2 tries (3) | one that hangs and one that waits behind it |
| `Value`, `MaxConditions` | two values, one condition of one value or a list | the translators look at conditions one by one; two values tell below, equal and above apart, and stand for the truth values |
| `Product`, `Supplier`, `Sku`, `PO`, `Client` | one of each, an administrator and a manager | the check and the write of one and a write of the other |
| `Doc`, `Searcher`, `Editor` | one document, a searcher, two editors | documents share nothing; an editor who switches off what another has fetched |
| `Item`, `Decider` | 2 items, an evaluation | a target and another item |
| `MaxSweepFaults` | 1 where the sweep is what is asked about, else 0 | a death or a failed escalation, and a later sweep that meets what it left |

`NewSentAt` and `NewMessageId` are empty in the runs: there a PATCH changes the
SKU, the supplier or the quantity of an order and writes `sent_at` and
`message_id` back as they were read. The proofs cover all values.

`DeliverySymmetry` and `RunSymmetry` permute model values that no definition
tells apart, and are used with safety properties only.

## 6 Fairness

`Purchasing!Fairness` assumes weak fairness of: starting the sweep when an
order is stale (Celery beat runs `check-supplier-timeouts` every 3600 s), the
passing of 48 hours, the sweep's save and escalation once begun, an approval
transaction that has begun, and the next statement of a run that has begun. It
does not assume that anybody clicks, that a run starts, that a worker crashes or
that it does not; crashes are actions without fairness, and `RunReturns` excuses
a run that was killed. `InvoiceScans!FairSpec` assumes weak fairness of the next
statement of a request that has begun; the deadlock detection of PostgreSQL is
one of these statements. `TimeoutIsEscalated` is checked with a fault of the sweep
(`MaxSweepFaults = 1`): a worker that dies between save and escalation, or an
escalation that raises, leaves an order `timeout` that no later sweep selects, and
such orders are `lost`; the sweep's weak fairness gives all others their notice.

`Platform!PlatformFairness` assumes weak fairness of: the next step of a mail
worker (Celery delivers what is queued), a cache reader that has begun and a
deletion that is due, the timeouts of cache entries, `cleanup_stale_agent_runs`
(the beat, every five minutes) and the ageing of runs, a record that holds a
circuit's lock, the minute of an open circuit and the health report that polls
it, the answers and handlers of a browser's request, and the threads and clocks
of a question. It does not assume that an agent's task ends, that the external
calls or the classification of a question return, that anybody asks, or that the
clocks of escalations pass. Each is a conjunct of its own per worker, request or thread.

## 7 Where code and documents disagree

Each is a run that TLC finds violated, listed under "findings" with the quoted
document.

* **An order leaves a final status** (`purchasing_final`). An agent reads
  `draft`, a manager rejects the order, the agent writes `pending_approval` by
  primary key. `mark_failed`, `mark_timeout` and the sweep do not look at the
  status at all.
* **Two mails for one order** (`purchasing_mails`). `approve_po` stores no
  `message_id`; once a stale write has taken the approved order back to
  `pending_approval`, the next approval mails the supplier again.
* **Two active orders with one key** (`purchasing_dedup`). The constraint covers
  the status as well, and `select_for_update` locks nothing where no row is.
* **A confirmed run returns `failed`** (`purchasing_report`). The listener waits
  for `confirmed`; `mark_confirmed` then insists on `waiting_confirmation`.
* **An invoice is added to the stock twice** (`invoices_twice`). Two
  confirmations pass the check before either marks the scan.

What the modules of `Platform` met besides, none of it in a run of its own:

* Sweep: a timeout whose escalation raises, or whose worker dies after the save, is
  never announced, and the row it may leave makes the next one a duplicate (`lost`).
* Mail: an escalation whose worker dies half-way is never announced; the task
  that is delivered again takes the row for a duplicate (`cut`). `acks_late` can
  mail a supplier twice.
* Caches: `run_forecast_task` and `apply_confirmed_invoice` delete the entry
  before the rows are committed; a failed dashboard is cached for its hour.
* Forecasts: the agent skips a SKU when an older forecast covers today; a SKU
  without recent sales is forecast into the past; short histories get zeros,
  where the documentation speaks of a moving average.
* Accounts: "verify" calls itself idempotent, but the second click is answered
  400, the token being gone; `PATCH` saves a row read before and can undo a
  verification or a deactivation. Sign-out blacklists no token.
* Browser: "Automatic token refresh happens via interceptor on 401 responses",
  says `lib/axios.ts`, but a request that is answered 401 after the refresh of
  its tab has finished is rejected, and the refresh of one tab signs out another
  that still holds the old refresh token.
* Conversations: an automatic title may overwrite a rename that came while the
  first answer was being given; a flush the database refuses is only logged.
* Assistant: a `/rag` or `/query` request that timed out is answered 504 only
  when its engine has ended. `ChatEndpointView` says it mirrors the query
  pipeline but has no handler for supplier performance and help.
* Filters (`Misread` lists the conditions): `get_supplier_info` never negates
  `neq` and `not_in`; low stock ignores the operator of names and codes, and with
  a threshold of another operator drops its default too; `quantity_available` is
  compared as `quantity_on_hand`; the top products of `/chat` ignore all
  conditions; `forecast_demand` ignores the product's name; `starts_with` and
  `ends_with` become lookups Django does not know, and the sales report filtered
  by code or name raises. The fallback on keywords drops all conditions. A list
  operator that is given a number or a text looks among its letters, and
  `_parse_condition` does not even negate `not_in` then. The total value counts
  active products whatever the question says of `is_active`, an allowed field, so
  that of the inactive ones is always nothing.
* Catalogue: `delete_supplier` does not count `email_sent` and
  `waiting_confirmation` among the open statuses; a manager can switch a supplier
  off by `PUT` without its check; orders may be drafted for a supplier that is
  off, and a stale transition reopens a closed order of a deleted one (`late`).
* Documents: a failed upload leaves an active document without chunks. The class
  says "Admin: soft-delete" (`apps/ingestion/views.py`), but managers delete, and
  any viewer may switch a document off, and, having fetched it before its
  deletion, on again, by the inherited `PUT` and `PATCH` (`overtaken`).
* Decision agent: `evaluate_sku` pins its tools to the SKU, `evaluate_product`
  passes on the product the model names, so its flag may be about another SKU.

## 8 Proofs

All obligations are discharged by SMT (Z3), Zenon and LS4. The proofs hold for
every number of orders, keys, runs, clients, SKUs, requests, scans, workers,
documents and so on, under the assumptions named in the modules
(`TableAssumption`, `ServiceAssumption`, `SweepAssumption`, `AgentAssumption`,
`StockAssumption`, `InvoiceAssumption`, `MailAssumption`, `CacheAssumption`,
`AccountAssumption`, `CatalogAssumption`, `DocumentAssumption`,
`DecisionAssumption` and those of the other parts: the constants have their types, the bounds are positive,
ids of different tables differ). A bound on a count (mails, faults, writes,
tries) is a constant too, so a theorem holds whatever it is.

### `Purchasing_proofs`

| Theorem | Says | Inductive invariant or argument |
|---|---|---|
| `TypeCorrect` | `Spec => []TypeOK` | one lemma per component's step, with helper lemmas for `Goto`, `Return`, `WriteThen`, `Record` |
| `GateHolds` | `Spec => []PastGateWasApproved`, edits, tool and crashes included | `GateInv` |
| `MailGateImplemented` | `~CommitMayFail` gives `Spec => ImplementsMailGate` | every step opens a gate, sends through an open one, or stutters (`ServiceRefines`, `RunRefines`), using `GateInv` |
| `NoMailBeforeApproval` | `~CommitMayFail` gives `Spec => []MailWasApproved` | the abstract gate never mails through a closed gate; the refinement mapping carries it over |
| `ActiveOrdersAreUnique` | `Spec => []UniqueActive` | `IndexInv` |
| `RowLockSerialisesDecisions` | `~Editing`, `"approved" \notin ToolTargets` give `Spec => DecisionsAreSerialised` | `IndexInv` and `HeldInv`, one lemma per kind of write |
| `ManagersDecide` | `Production`, `"callback" \notin Context`, `"approved" \notin ToolTargets` give `Spec => []OnlyManagersApprove` | `ManagersInv` |
| `WorkflowsTellTheTruth` | `Spec => []WorkflowWasMailed` | `MailedInv` |
| `SweepMissesNothing` | `~Editing`, `"email_sent" \notin ToolTargets` give `Spec => []SweepSeesAwaiting` | `TimedInv` |

`PastGateWasApproved` is not inductive: a client, a PATCH or a run that read an
order earlier still writes what it read. `GateInv` adds that every such copy in
hand of a status past the gate belongs to an approved order
(`HeldTransitionsApproved`, `HeldRowsApproved`, `HeldChecksApproved`). The proof
rests on `LEGAL_TRANSITIONS` leading past the gate only from past the gate or by
`approved` itself, on approvals never being taken back (`ApprovalsGrow`), and on
no write changing more than one order (`OneOrderChanges`).

`UniqueActive` is not inductive either: `ApproveCommit` writes `approved` without
looking at any other row. `IndexInv` adds that the order of an open transaction is
at the gate (`LockedAtGate`: its row is locked) and that no other order of its key
is approved or about to be (`LockedAlone`: its index entry keeps the others
waiting). `LockedAtGate` is also what serialises the decisions. The hypotheses of
the conditional theorems say who is not there: a PATCH or the tool, which write
without a lock what they read earlier (`HeldIsAllowed`: nobody holds what nobody
may ask for), or a caller with a callback. `MailedInv` adds that a run past
`send` (`Mailing`) has mailed its order; `TimedInv` that a `sent_at` once set
stays, and that who is about to write `waiting_confirmation` has read an order
with one.

The lemmas on which this proof and that of the pipeline rest, what each statement
of the service and of a run does to the table and to the run, are in
`OrderSteps_proofs`.

### `ReorderPipeline_proofs`

| Theorem | Says | Inductive invariant or argument |
|---|---|---|
| `TypeCorrect` | `Spec => []TypeOK` | one lemma per kind of step |
| `OneFlagUnlessOverlapped` | `Spec => []OneOpenFlagUnlessOverlapped`, crashes included | `FlagInv` |
| `NoReorderLost` | `~Editing` gives `Spec => []ConsumedWasOrdered` | `OrderedInv` |
| `OneOrderUnlessTroubled` | `~Editing`, `~Creating`, `ToolTargets \subseteq FinalStatus` give `Spec => []OneOpenOrderUnlessTroubled` | `ApartInv`, on top of `OrderedInv` and `FlagInv` |

`FlagInv`: as long as no deliveries have overlapped, one is at work (`OneAtWork`)
and a thread that is about to insert a flag has found none (`InsertsFirst`).
`OrderedInv` follows a flag at hand to its order: the run orders the flag's SKU
(`MindsFlag`), the order it holds has its key and has left `draft` once the run
is past its first writes (`HoldsOrder`), and a run that ends well has a workflow
row (`IsRecorded`); nothing becomes a draft again (`NothingBecomesDraft`). A
PATCH of an order's SKU, or one back to `draft`, refutes it, hence `~Editing`.
`ApartInv` adds that, undisturbed, only the delivery's run orders
(`OnlyRunsOrder`), that a flag, or a thread about to make one, means the SKU has
no open order (`FlagNeedsOrder`, `DecidedNeedsOrder`), and that what is under a
row lock is open (`LockedIsOpen`). A manager who inserts an order of his own, or a
tool that moves a closed order back to an open status, opens a second one without
any overlap, which is what its hypotheses rule out.

### `InvoiceScans_proofs`

| Theorem | Says | Argument |
|---|---|---|
| `InvoiceTypeCorrect` | `Spec => []TypeOK` | `TypeInv`, which adds that a request that writes or inserts has a line at hand |
| `ConfirmedScansWereApplied` | `Spec => []ConfirmedWasApplied` | `ScanInv`: a request about to mark has committed |
| `OnlyContendedScansRepeat` | `Spec => []TwiceOnlyIfContended` | `ScanInv`: of a scan that is not contended at most one request is at work, and once it has committed it is still there or the scan is marked (`Serial`) |
| `StockCovers` | if counts cover what is reserved (`CountsCover`), `Spec => []StockCoversReserved` | `CoverInv`: so does everything a request has read or written |
| `StockAddsUp` | `Spec => []StockIsConserved` | `ConserveInv`: of a SKU that was not raced, what a request has written or read is the balance and what the lines it has passed add (`AddsUp`); a row is written by one open transaction (`OneWriter`) |

What an invoice adds is a sum over its lines, `LinesAdd`, a function of the number
of lines that is defined by recursion. `LinesAddDef` proves that there is such a
function for every invoice and only one. In place of induction, whose theorems
take an operator, it looks at the least length for which that fails:
`LeastExists`, which the well-foundedness of the finite subsets of the naturals
gives, states that a set of naturals that is not empty has a least member. The
same lemma serves `Operations_proofs`.

### The parts of the platform

Each of these is about the specification of its part alone (`MailSpec`,
`CacheSpec`, ...).

| Module, theorem | Says | The invariant adds |
|---|---|---|
| `Operations_proofs`, `EscalationsAreSingleAndAnnounced` | `MailSpec => []EscalationInv` | of an order nobody raced for, at most one worker is past the duplicate check, and then no recent row exists (`OneAtATime`); a row that was not cut off is announced and mailed or its worker is on the way (`Announced`) |
| `Operations_proofs`, `CachesKeepTheirPromise` | `CacheSpec => []CacheInv` | a read that no deletion overtook is as new as any finished write (`ReadsAreNew`); under a version no process has reached, nothing is stored or in hand (`FutureIsEmpty`); what is read under the version of the only writer is as new as its writes (`OwnReadsAreNew`) |
| `Operations_proofs`, `OneEventPerCooldown` | `AlertSpec => []OneFiringPerCooldown` | events are numbered in the order of their creation, so the newest that fires decides for all (`EventsInOrder`); an evaluation that nobody raced and that is about to fire finds none in its cooldown (`FindsNoneCooling`) |
| `Operations_proofs`, `NewestForecastIsShown` | `ForecastSpec => []NewestForecastStands` | the dates not left to a forecaster show its forecast or a newer one (`WritesTheRest`); one that still writes when a newer forecast begins overlaps it (`OlderOverlap`) |
| `Records_proofs`, `AccountsKeepTheirWord` | `AccountSpec => []AccountInv` | a request that spends a link or read a verified row is about a user who still is (`MarksStand`); a working link is mailed, or is about to be created or mailed (`LinkIsComing`) |
| `Records_proofs`, `DeletionsStand` | `CatalogSpec => []CatalogInv` | a deletion between its check and its write already has the supplier without open orders, save those that came or were written from an earlier read since (`NobodyIsOwed`); a row is not deleted and active at once (`DeletedIsOff`) |
| `Records_proofs`, `DeletedDocumentsAreNotFound` | `DocumentSpec => []DeletedIsNotFound` | a row is created once, by an upload that has left its first step (`RowsAreCreatedOnce`); what is gone was let go by every update, or was overtaken by one (`GoneIsLetGo`), so what was deleted stays off (`DeletedStays`) |
| `Assistant_proofs`, `FlagsAreAboutTheirTargets` | `DecisionSpec => []FlagIsAboutItsTarget` | `EvaluationInv`: past the loop all three tools were seen (`DecidesOnAll`), tools about a SKU saw that SKU (`SkuToolsStay`), and what was seen without an open order was without one (`SawTheTruth`) |
| `Assistant_proofs`, `ConversationsKeepTheirWord` | `ChatSpec => []ChatInv` | the turn that is read is the browser's current one (`ReadsCurrent`); of an answer that is whole, or was left, all that was sent is stored unless the database refused it (`Stored`), and only with its conversation does a stream lose its message (`RowsBelong`); a name is given when no turn can still make a title (`NameIsSafe`) |
| `Assistant_proofs`, `AnswersAreFiltered` | `FilterSpec => []AnsweredIsFiltered` | the stages keep the filter the translation of the conditions (`AnswerInv`); each condition that is not misread is translated to predicates that hold of the same rows (`Faithful`), and the handler's own rules are added to them |

### `Platform_proofs`

| Theorem | Says | Argument |
|---|---|---|
| `PlatformTypeCorrect` | `PlatformSpec => []PlatformTypeOK` | a step of `Platform` is, to every part, a step of its own or a stutter (`PartsStep`); so the invariants of all fourteen hold together (`PlatformInv`) |
| `PartsKeepTheirPromises` | the corollary `PlatformSpec => []` of the ten safety invariants that `platform` checks | the same, from the theorems above; it adds nothing to them but the composition |

`PlatformInv` also holds an inductive invariant of each of the four parts without
a safety property of their own, and of the types of the others. Some say more
than types: no more messages of agent runs wait than were sent and, for want of an
acknowledgement, sent again (`RowsInv`); a call under way has a provider to turn
to (`BreakerInv`); a request that mails or spends a link holds one (`HasLink`); a
row of a child table is of a SKU there is (`ChildrenHaveSkus`).

### Model-checked only

The liveness properties: `AwaitingIsResolved`, `TimeoutIsEscalated` and
`RunReturns` of the core, `RequestsEnd` of the invoices, and the six of
`platform_liveness`. Fairness and ENABLED are out of the prover's reach. Every
invariant and every action property that a run checks, and the refinement of the
mail gate, is proved; the theorems' hypotheses (nobody edits, nobody inserts, the
tool's targets) are those of the runs that check the same property.

## 9 Not modelled

* Orders: edits in the Django admin, the list and PDF endpoints, `approved_by`,
  `confirmed_at`, audit rows; the agent's `polling_attempts`, `last_poll_at`,
  agent-run rows and prompt filter; two sweeps at one time; a workflow row made
  for an order that is deleted and inserted again by a PATCH. `send_po`,
  `DBUpdateTool` and approval callbacks have no caller in the production code;
  they are modelled because they are the service's interface.
* Invoices: the owner check, the extracted data, the deletion of a level under an
  invoice.
* Pipeline: the numbers of forecast and stock, flags dismissed in the admin.
* The fourteen parts: what `PROJECT.json` names in the note of each component.
  Data that no property tells apart is left out everywhere: texts of mails,
  answers and titles, metrics, scores, amounts. Prophet and the language models
  are choices without a bias.
* Filters: a list given to an operator for one value, columns that are null, limits
  on the number of rows. Forecasts: a date the agent's model names twice.
  Documents and catalogue: writes of the Django admin.
* Interactions between the fourteen parts and the core (an escalated order that a
  manager rejects, a flag whose forecast is being rewritten) are in the modules
  only as far as one side allows for any behaviour of the other: orders come, move
  and go freely in `MailDelivery`, `Catalog` and `DecisionAgent`.
* Password reset, permissions beyond roles, throttling, the Django admin: framework
  code or reads. Audit rows, exports, health checks, seed data and the web
  interface's rendering have no state machine.

## 10 Plan

1. Done: the purchasing subsystem, the abstract gate and its refinement;
   invoice scans over stock levels; the reorder pipeline.
2. Done: the fourteen parts around it, and their composition.
3. Done: proofs of every invariant and action property that a run checks, of the
   mail gate's refinement, and of the composition of the parts.
4. A three-state breaker as an abstract specification that `ProviderBreaker`
   implements; the promise a delivery makes as one that `ReorderPipeline` does.
5. `BrowserSession` with three requests in two tabs (102 883 states) as a run of
   its own.
