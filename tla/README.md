# ainvest: a verification project in TLA+

ainvest turns research and strategy signals into Paper orders that a person
approves in Telegram. This directory holds TLA+ modules translated from the
Python sources under `src/src/ainvest/`, the TLC runs that check them on small
instances, and TLAPS proofs of what matters most for every instance.
`PROJECT.json` names the source lines behind every definition (`map`), the runs,
mutations of the code for every checked property, the hazards of the code and
the theorems.

## 1. The system and its parts

One trade passes through these parts, in this order:

1. **Strategies** are plugins found by the **registry**; each is evaluated in a
   **worker process** (`strategies/`; the reference one is a moving average
   crossover).
2. **Signal aggregation** selects at most one signal per symbol, and the
   **position sizer** turns it into a candidate order (`portfolio/`).
3. The **risk engine** evaluates twenty rules, once for the proposal and, through
   the **pre-trade gate**, again before the order leaves (`risk/`). The **kill
   switch** is one of its inputs.
4. The **approval service** freezes the risk decision, issues a one-time challenge
   and binds it to the Telegram message that carries it (`approval/service.py`).
   The press of a button comes in through **Telegram polling**
   (`telegram_updates.py`) and is decided by the **approval callback**
   (`telegram_approval.py`), which writes an outbox row.
5. The **execution hand-off** consumes the row through the **dispatcher** and
   submits to the **Paper broker** (`approval/handoff.py`, `workflow/`,
   `execution/paper/`). The **order lifecycle** says which transitions an order and
   a cancel command may make and stores them with their audit events
   (`execution/state_machine.py`).
6. **Reconciliation** compares the broker's orders and fills with what was
   expected and posts fills to the **portfolio ledger**.

The **paper loop** (`orchestrator/paper_loop.py`) runs steps 1 to 6 in one call with
a stand-in for the approval. Around this path are:

- **research** (`agents/`, `db/research.py`, `data/cache.py`): a model run with
  tools, a budget, an archive and a cache of snapshots;
- **backtests** (`backtest/`): replays, hypothetical costs, walk-forward reports;
- the read-only **Robinhood client** (`execution/robinhood/`), the commands that
  **bind an account** to it, and the **Telegram queries** that show what it reads;
- **start-up** (`config/`, `runtime.py`), **secrets** (`secrets.py`) and the port
  through which a **live write** would pass;
- **alerts** and **health** (`observability/`);
- **provisioning** of Telegram Bots under a maintenance lease (`approval/`).

`components` in PROJECT.json lists every part with what is modelled and why the rest
is not.

## 2. Modules

The trading core:

| Module | Models | State and actions |
| --- | --- | --- |
| `PaperApproval` | approval service, callback, outbox, hand-off, dispatcher | the five tables and the audit rows, the broker's memory of client order ids, one job per worker; a handler is one action for its clock read and one per transaction step; `Abort` is an exception, `Restart` a worker that starts afresh |
| `OneShotExecution` | what that path promises | a phase and a count of executions per proposal |
| `TelegramPolling` | lease, cursor and processing of updates | the poll-state row, processed updates and callback digests, one record per poller; one action per database call, provider call and handler call; a failed turn, a fatal error, a crash and the restart by the deployment |
| `PaperCosts` | fee, adverse price, rounding | operators |
| `PaperBroker` | the Paper broker | cash, positions, orders with reserves, remembered answers; `Submit`, `Cancel`, and a market event that visits the working orders one by one, because an exception can stop it in the middle |
| `LedgerBook`, `PortfolioLedger` | the portfolio ledger | operators on a book; single fills, sorted batches, atomic batches with a checkpoint |
| `OrderMatching`, `Reconciliation` | reconciliation | matching and discrepancy codes as operators; two reads of the broker at different times, the comparison, the caller saving or losing the report |
| `Commitments`, `RiskRules` | commitments of open orders, the twenty rules | operators on an evaluation context |
| `PretradeGate` | pre-trade gate, kill switch | a request with its own clock and history, the fetches made later, an account that moves, an older snapshot of it, the switch and its alert queue |
| `PositionSizer`, `SignalAggregation` | sizing and aggregation | operators for every outcome |
| `TradePlanning` | both over time | signals that arrive and expire, an account with open orders |
| `OrderLifecycle` | the transition table of orders | the current state and the states visited |
| `DurableTransitions` | stored transitions of a cancel command | the stored state and its audit trail, per worker the state it takes for current, the event ids it remembers and its call; commit, rollback, mark, restart |
| `PaperFlow` | the paper loop | composes the modules above and the moving-average strategy: a configuration, a program counter and what each stage leaves behind; one action per stage |

Around it:

| Module | Models | State and actions |
| --- | --- | --- |
| `Strategies` | loading plugins and binding instances; parent and child of a strategy run | a fold over plugins in the order of discovery, then over their hooks; API ranges and durations compared and formatted as the code does; the parent's step, the child as the operating system sees it, the records; time-out, kill, reap and classification interleave with boot, confinement, answer and death |
| `Backtest` | replays and the evidence they leave; costs, corporate actions, walk-forward and reports | the lock, the data, the steps taken; hypothetical fills bar by bar; operators on requests |
| `ResearchRun`, `ResearchDesk` | a research run and what its reads are worth; its budget and the archive around it | the process-wide lock, one record per call and per reading thread, the guard, the stored rows; model answers, failures, time-out, cancellation, late reads, callers that die |
| `SnapshotCache` | the snapshot store | directory entries, pending files, the advisory lock; one action per file operation, each of which may fail with an I/O error, and a kill |
| `RobinhoodReads`, `RobinhoodDisplay` | verification and reads of the gateway; mapping and display of answers | a gateway that may be replaced, readers between their awaits; operators on rows |
| `AccountBinding` | binding and unbinding the Robinhood account, and loading it | inodes, names and directories; one action per system call |
| `TelegramQueries` | read-only queries | the runner, the rate window, one task per update, what was sent and how often a call that may have sent was lost |
| `TelegramProvisioning` | provisioning commands: binding a Bot, finding and adding a recipient, validating; the maintenance lease | `.env`, token files, the poll-state row, one command per process, test messages sent; one action per file written, a poller that takes the row back |
| `Runtime` | settings and start-up; scoped secrets | layers of settings to a runtime or an error, with the order of its side effects; which provider serves and what it stores, requests between check and read, what was told and handed out |
| `LiveWrites` | the guarded live write port | delegates, threads, what the raw broker did, what the caller was told |
| `FundsSafetyAlerts` | alert incidents and deliveries | the committed journal, the copy in memory, the dispatch loop, what was sent |
| `HealthAggregator` | readiness | the latest observation per dependency |

`MC*` modules give the constants values (`TelegramPolling`, `PortfolioLedger` and
`Reconciliation` end with the values their runs use); `*Proofs` modules and
`SumTheorems` hold the theorems. Parts that are small and share no state are put side by
side in one MC module: a behaviour belongs to one part, which the variable `part` names, and the
others stay as they are (`MCPaperBroker`, `MCPaperFlow`, `MCPretradeGate`, `MCTradePlanning`,
`MCResearch`, `MCOperations`).

Data is abstracted as follows. Identifiers, tokens, hashes and documents are model
values or records of the fields that decisions read; texts, digests, evidence and
logs are left out. Money is counted in quanta, weights in `WeightUnit` parts (tenths
in planning, thousandths elsewhere), fees and spreads in basis points. Where the code
rounds a modelled amount (half-even, floor or ceiling to an increment) the model rounds
it in the same place and direction; intermediate values that the code keeps to fifty
digits are exact. In backtests the eight decimals of money, the twelve of a basis per share
and the twelve of a reported ratio are `Grain` and `One`, `Fine`, and `Metric`, small enough
in the run for each rounding to matter; a lot's cash, which the code does not round, is kept
exact in finer units. Times are small
naturals; `TelegramPolling` keeps only the remaining lifetime of the lease and the
time spent since a renewal, `FundsSafetyAlerts` the time left until a delivery is due.
The broker in `PaperApproval` is its idempotent `submit` only, since that is all the
hand-off relies on, behind the execution port: one for all workers, and it outlives
them (a `PaperBroker` lives in the memory of one process, so with it the workers are those
of that process); `PaperBroker` is the whole one. The account around `PretradeGate`
and `TradePlanning` fills and cancels open orders as it likes, fees left out: fees are
the subject of the broker and the flow. Code outside the repository (a live guard, the
gateway, Telegram, the operating system) does anything its interface lets it do.

## 3. Runs

Deadlock checking is off where the modelled part may stop: a broker whose events are
used up, a queue that is empty. It is on in the approval runs, where a worker can always
restart, and in `paper_flow`, where only a flow with a result or an exception may rest:
a stage with no continuation, or a transition the lifecycle refuses, would be a deadlock.

| Run | Question | Bounds, and why they suffice |
| --- | --- | --- |
| `approval_handoff` | Is a challenge decided once, and is a proposal executed at most once, only when approved by a timely press, through races, crashes, lost answers and expiry? | two workers (a race needs two), two proposals that share one risk decision, two messages (the right and the wrong one), clock up to 3 so that challenge and proposal expire together and one after the other |
| `ambiguous_row` | finding, section 6 | one worker and one proposal: no race is needed |
| `telegram_polling` | Is no update lost or recorded unhandled, does a take-over fence the old poller out, is every update processed? | two pollers, three updates of which the third repeats a callback and the second needs no handler, two faults (crash, fatal error, failed handler, lost release, stall): one to lose the lease and one for whoever took it over |
| `broker` | Is what the system does at its brokers, and knows of them, as it says? | *Paper broker*: four orders of one instrument, one id with two different requests, three market events with partial liquidity, a buy that takes all the cash and whose fees in parts exceed the reserve; time moves once, past the expiry of one order. *Live writes*: two threads, two writes. *Binding*: two installs, a removal and a validation over two environments, with kills and a replaced directory; of these at most two run at a time, and either the second install or the validation takes part. *Bots*: one changing command at a time (everything for one environment, an add for the other) beside a validation, three tokens of two Bots, a user who wrote to each Bot and one who did not, a lease that expires and a poller that takes it. *Reads*: two readers, four gateways of which one is as pinned, replaced twice. *Display*: every command with up to two rows, about the symbols asked for and others; nine sets of order filters, among them each filter alone, an unknown name and a time that does not parse |
| `ledger` | Do entries explain the book, are rollbacks whole? | nine fills with one id twice, batches that fail at the first, a middle and the last fill, prices of a few quanta at which averages round both ways |
| `ledger_conservation` | finding, section 6 | the same instance |
| `reconciliation` | Does the ledger never take too much, and does money move only on a match? | six fills (partial, filling, overfilling, beyond the limit, of another and of an unlisted order), nine listings, two reconciliations so that the second starts from a lost or a saved report |
| `pretrade` | Is what the gate approves covered although its snapshot lags, do alerts tell the truth, does a missing input reject? | two instruments, four orders that may be asked about and placed, at most two placed; a snapshot up to one tick old, the most the skew allows, with a duplicate window of one tick; histories that are whole, empty and absent; two switch sources, three queued alerts. The account moves with a blank switch, or the switch turns with a quiet account |
| `planning` | From plugin to candidate order: is what runs what was pinned, is a worker's success its own, does sizing again never oversell, overspend or overshoot, does a backtest see and fill only what it could have? | *Planning*: two symbols, six signals that agree, differ and conflict, three open orders, both kinds of account. *Worker*: a batch of three runs, with and without a memory limit. *Replay*: two bars and quotes received in time, late, out of order, flagged and never, with grids that expect the late bar or not. *Costs*: two orders competing for two or three bars, with the limit on fills reached. *Reports*: curves of four points with gains, losses, ruin and a deposit, up to three folds, levels at which growths round both ways. *Lots*: up to three splits and credits, cut in two requests anywhere. *Plugins*: two with equal or different ids, entry points, versions, API ranges and strategies, in every order of discovery and under allowlists that are absent, empty, pinned or not; documents of one or two instances, with lifetimes in days, hours, minutes and seconds, for strategies whose parameter is a duration, something else or absent |
| `paper_flow` | Does every path of the loop pass the gates, tell the truth and end, and do the parts around it keep to what they may do? | *Loop*: some seven thousand configurations, each input of the loop in each of the cases the code tells apart. *Transitions*: two workers, three event ids (what it takes to get through reconciling), one restart. *Start-up*: every layer empty, incomplete or complete; every port, guard and factory missing, wrong, failing or right. *Secrets*: two roles, each of the three providers; material that is rotated, and environment keys that are set, emptied or removed at any time. *Queries*: two queries of one sender and a callback, each handed over again up to twice |
| `operations` | Do the parts that watch the system keep their word through crashes, lost answers and what arrives late? | *Alerts*: one subject, two channels, an incident that rises and recovers, each delivery tried twice (one crash, lost answer or failed commit each, then the try that the fairness grants). *Full journal*: one channel, three states of the incident of which two fit, an operator, time between events. *Health*: two dependencies, three observations |
| `research` | Is a complete run earned, is the ceiling watched, does what is stored replay, is what was put kept, does the lock come free? | *Desk*: two calls with one run id, so that they share their tools. *Guard*: three runs alone. *Archive*: every list of up to three captures, agreeing, conflicting or unusable, under an observation that cites the quote; lists of up to two under the other kinds of narrative and citation, and under failed results. *Budget*: a price of three halves per token, so that estimates round up. *Cache*: two processes on two keys, with two kills |

What the properties say, where the name does not tell:

- `RecordsAgree`: one decision, an authorised order, an audit row that matches the broker.
- `PromisesCovered`: cash, but for the rounding of fees, and shares back what working
  orders reserve, also while an event is half done.
- `StoriesAgree`: result, lifecycle, broker and ledger of a finished flow agree.
- `RefusedOnlyLate`: a clock read before a wait makes no handler refuse too early: a
  challenge is settled as expired, and an approved press turned away by policy, only
  after the moment has come.
- `ApprovedIsCovered`: on the snapshot it was given, what the gate approves fits whichever of
  the open orders fill; a sell is covered by the live account too, if the history is whole
  and the duplicate window is not shorter than the age a snapshot may have.
- `AlertsTruthful`: whoever reads the kill switch's alerts in order knows what is on.
- `SuccessIsEarned`: a SUCCESS record is the in-time answer of this run's confined child.
- `NoLookahead`: the repository's own temporal validator, run on the evidence of every
  retained step, finds nothing; its suffix probe is the replay on data cut at the cutoff.
- `BacktestHonest`: fills fit the bar and the orders, charges explain the cash and cover
  the exact cost, rounding included; sections of a report can be joined (returns multiply
  within what rounding them explains, costs add up);
  corporate actions given in two requests leave what they leave in one; the temporal
  validator itself reads nothing learnt later.
- `ToldTheTruth`: a live write that was reported refused never reaches the broker, then or
  later; a reported result is the broker's.
- `TrailExplains`: the last stored event leads to the stored state of a cancel command, and
  an event a process would answer from memory is stored; while callers present the live
  state the events form one path through the table.
- `RepliesBounded`: a reply is repeated only for a crash or a lost lease after a call that may
  have sent one; the rate gate holds; the grammar is exact.
- `AnswersTheQuestion`: what is shown is about the symbols asked for and passes every filter
  that was asked for. Rows carry no account, so whose they are is the gateway's word.
- `EnabledIsComplete`: what `.env` enables has its token, its Bot and a recipient who wrote
  to that Bot privately; a test message goes only to such a recipient.
- `JournalSound`: every committed checkpoint is accepted by the next start, and delivered
  means accepted by the channel, and every send was counted before. `NewsMovesForward`: no
  channel hears an older state after a newer one. `EventuallyAnnounced`: a committed
  notification is delivered or superseded.
- `CeilingWatched`: the guard pauses as soon as spending and holds leave the ceiling.
- `ArchivesSound`: a packet that is assembled, and every row that is stored, still passes the
  checks when it is read back and computed again from its captures.
- `PutsKept`: what a put returned for stays whole and readable.

Each property has one mutant or more, a variant of one mapped definition with a plausible
bug (a dropped comparison, a missing reset, a wrong operand), under which TLC finds the
property violated; they stand next to the definitions they vary. Several properties
that join statements have more than one.

## 4. Fairness

- `telegram_polling`: weak fairness of the clock and of each poller's loop. The
  poller is a `while` loop whose every step has a deadline, and failed handlers and provider
  errors back off and go on. A fatal error or a crash ends the process; that the deployment
  starts it again is assumed (`Restart`), the code leaves it to its host. No fairness is
  assumed of Telegram, nor of handlers beyond the bounded
  number of faults: a handler that fails for ever keeps its update at the head of the
  queue, by design of the code.
- `operations`, for the alerts: weak fairness of the clock and of starting the service
  again; strong fairness of calling `dispatch_due`, and of its commits and sends
  succeeding. The service leaves calling `dispatch_due` and restarting to its host, and
  retries without limit: what is assumed is that it is called again and again and that
  not every try fails.
- `research`: weak fairness of the time-out only. `asyncio.timeout` fires whatever the
  model does, and `LockFreed` needs nothing else.

`approval_handoff` claims no liveness: nothing in the source schedules `consume`, only
the rehearsal calls it.

## 5. Proofs

The theorems hold for every value of the constants that satisfies the named `ASSUME`s
(sets of any size, natural times and amounts, a `None` that is no other value,
`StepTime < Lease`), which TLC evaluates in the runs.

**PaperApprovalProofs.** `TypeCorrect`, `DecidedOnce`, `OrdersAuthorised`,
`OrderedOnce` (no second order, whatever crashes and answers get lost), `AuditTruthful`,
`RecordsAlwaysAgree`, `RiskOnce` (a risk decision backs one proposal), `NeverPremature`
(`RefusedOnlyLate`: clock readings of workers are never ahead of the clock), and `Refines`:
the path implements `OneShotExecution`. None of the invariants is inductive,
because what a worker read some steps ago decides what it commits. `IInv` adds what holds
of the tables (an open challenge left nothing behind, an outbox row comes from an approved
press, the broker's count is its memory) and what holds of the workers (one that loaded
a press has checked it, at most one holds a row and the row is open, the result it
carries and the results a process remembers are the broker's answers).

**TelegramPollingProofs.** `NothingLost`, `RecordsRestOnHandlers`, `HandlersExclude`,
`UpdatesAlwaysSafe`, `NoConflict`, `TakeoverFences` and `TypeCorrect`. The core of `IInv`
is that an epoch belongs to one live poller, and that for the poller of the current epoch
everything that arrived below an update of its batch is processed or in its hands.
`HandlersExclude` needs the assumption that the handler deadline is shorter than the lease.

**SumTheorems.** Facts about sums over finite sets, on which the money rests: a sum over
a set with one element more, over a part of a set, of a function changed at one point, of
a larger function. They are proved by a least counterexample among the subsets of a finite set
(`SubsetInduction`), a form of induction that needs no operator as parameter.

**PaperBrokerProofs.** `OrdersStayBalanced`, `AnswersAreFinal`, `TypeCorrect`: single
orders, for any fees, adverse costs and quotes; the price lemma says that a fill is
never worse than the limit.

**PaperMoneyProofs.** `PromisesAlwaysCovered`, `LedgerAlwaysExplained`: all orders
together. That reserves are covered is not inductive, because a fill may cost more than its
order has reserved. `MoneyInv` keeps per order what it reserves and has spent, lets cash
fall short by what fills cost beyond their order's need (`CashCovers`), and bounds that by
half a quantum per fill and one for the reserve (`OverdrawnRounds`).

**PortfolioLedgerProofs.** `FillsPostedOnce`, `AnswersStick`, `NothingTakenBack`,
`TypeCorrect`: the invariant relates the book, the checkpoint and the answers already
given and still pending, which is what makes reuse of entry numbers after a rollback
harmless. `BooksSound` and `BookAlwaysExplained`: a book is the sum of its entries and its
drift is at most half a quantum for each share bought, at each buy; one posting keeps that, and the
checkpoint has it too because a rollback makes it the book.

**FilesProofs.** What is left in files, for any number of processes, whichever of them die.
- `CacheKeepsPuts`: whoever is between two steps of a put holds the lock, and the directory
  holds no pending file but theirs (`PutScoped`).
- `BindingAlwaysSound`: a command's own inode is where its step says, under no other
  name, and holds what it wrote (`OwnFiles`, `Placed`); what it may conclude at each step
  about the directory and the file it opened is `Fits`.
- `EnabledAlwaysComplete`: the command that makes changes knows `.env` as it is, except
  for the section it has just written, and an add or a rotation keeps its environment
  disabled until its last write (`Changing`). That one changing command runs at a time is
  assumed (`ProvAssumption`); the lease, which is per environment, is not what the proof uses.

**OperationsProofs.** Small parts, each with its own invariant.
- `LiveToldTheTruth`, for any number of threads and writes and a guard that does anything
  with its delegates. A live delegate belongs to a call that is not answered yet and to the
  thread inside it (`CallScoped`), and what a delegate recorded is what the raw broker did
  (`Recorded`); a call that was answered is out of reach because closing the delegate comes
  before the answer.
- `ApprovedFirstHolds`, `SubmittedOnceHolds`: along every sequence of transitions that the
  lifecycle table allows. They speak of the table on its own, and `PaperFlow` moves through
  the same table.
- `TrailAlwaysExplains`: a call in its unit of work carries a legal step and a call past its
  commit is stored (`CallSound`), so an append keeps `TrailSound`; nothing a worker remembers
  has to be true of the row, which is why a path is claimed only while callers are live.
- `OrderNeverMatters`: what is kept is characterised by the set of observations
  (`IsVerdict`), and an update keeps the characterisation, whichever sequence number comes.
- `MoneyMovesOnMatch`: an action property of reconciliation that needs no invariant.

Only model-checked:
- liveness (`EveryUpdateProcessed`, `EventuallyAnnounced`, `LockFreed`),
  outside the proof system's reach;
- what is computed by recursion over data or folds with an operator: `PostsExactly` (a fold
  of postings over selected fills), the sizer and the risk rules (`ApprovedIsCovered`,
  `FailsClosed`, `OrdersCovered`, `NoOvershoot`), the paper flow that uses them, backtests,
  plugins and archives;
- `AlertsTruthful`, `NewsMovesForward`, `JournalSound`, `RepliesBounded`,
  `LiveIsDeliberate`, `SecretsScoped`, `ReadsPinned`, `AnswersTheQuestion`,
  `SuccessIsEarned`, `CompleteIsEarned` and `CeilingWatched`, for which no proof has been
  attempted.

## 6. Where code and words disagree

- `ambiguous_row`: a hand-off whose submit had an unknown outcome, or rolled back after
  the submit, leaves the row open, but only until the proposal expires; then the row is
  closed as a policy rejection although the broker holds the order.
- `ledger_conservation`: average cost is rounded at each buy and multiplied back, so
  the conservation identity is off by a few quanta; `DriftBounded` says how far.

Observations without a run of their own, by part:

- *Paper broker*: each partial fill rounds its fee by itself while the reserve rounds
  once, so the debits of several fills can exceed the reserve (`broker.py:505` says
  "debit must fit"); a cancel does not refresh the stored answer of the submit, so a
  repeated submit reports a cancelled order as working.
- *Planning*: on a Paper account open buys are deducted from buying power and the
  reserve from cash, and the smaller is taken: two buys in a row spend the reserve
  (`sizer.py:424` says "remaining after cash reserve and open BUY notionals").
- *Flow*: a fill row read twice turns a clean match into a review, though it never posts
  twice; the loop hands an empty kill-switch snapshot to both risk evaluations; the
  moving-average strategy sells without a target weight, which the sizer refuses, so the
  reference flow never sells; a custom write port that accepts leaves the lifecycle in
  SUBMITTING with the run reported FAILED.
- *Workers*: a batch is aborted by a run whose parameters do not validate (the docstring
  at `worker/runner.py:411` says "a failure affects only that strategy run"); an answer is
  accepted with any exit code below 128; a daemonised descendant outlives a run that
  completed normally.
- *Research*: usage of a run that ends in an exception other than `ModelFailure` is
  settled without it; a read that finishes while its run is being closed may still register
  its evidence. A process killed between creating and unlinking its pending file leaves a
  cache that refuses later puts: what was put stays (`PutsKept`), but nothing can be added
  until someone removes the file.
- *Alerts*: a delivery's next try is computed from the clock reading of the whole batch;
  deliveries are never pruned, so a full journal refuses further changes.
- *Provisioning*: every command rewrites the whole `.env` from its own earlier reading, so
  commands for the two environments that overlap can undo each other; `EnabledIsComplete`
  is checked for changing commands run one after the other, beside a validation.
- *Account binding*: a removal compares the file and unlinks the name in two steps.
- *Settings and secrets*: loading settings changes `os.environ` for its duration and is
  not safe beside another load; the development provider's probe reports an empty value as
  present, which a read then refuses.
- *Queries*: the rate gate's refusal of overlapping calls guards against what the single
  poller never does; the command's lists of order states leave out some that the read models
  accept.

## 7. What is not modelled

- **Telegram notification** (`approval/telegram.py`): rendering and transport of one
  message. The binding of a sent message and the unknown outcome of a send are modelled
  where they matter, in `PaperApproval` and `FundsSafetyAlerts`.
- **Market data ports and providers**: conversions of provider answers; calendars and
  indicators are pure functions of their inputs, and quotes, bars and sessions are inputs of
  the modules.
- **Strategy conformance suite, rehearsals, fixtures, command lines**: drivers around
  modelled operations.
- **Prompts, parsing and scoring of model output, volatility in backtest reports, wording
  of messages and replies, redaction, metrics, tracing and logging**: text and arithmetic
  without state that others rely on.
- **Single-field formats** of schemas, settings and provider rows: what remains of them is
  a field that parses or does not. Relations between fields are modelled.
- **Paper snapshots** beyond the fields that sizing and risk read, and read-only listings
  of stored rows.
- **Overlap of provisioning commands** for two environments, and handlers that block the
  event loop past their deadline: outside the assumptions stated above.
- No **liveness** of the hand-off is claimed, for want of a scheduler, nor of the queue of
  updates when a handler fails for ever.
