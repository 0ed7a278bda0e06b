# Jarvis Swap: TLA+ models and proofs

TLA+ specifications of the parts of Jarvis Swap that are hard to test: what
happens when requests, retries, timeouts, failures of a database and of
upstreams, and browser events meet in an order nobody wrote down. Each module
is translated from the TypeScript it names; `PROJECT.json` maps every
definition to its lines. TLC checks small instances, and TLAPS proves what
matters most for every value of the constants.

Contents: [the system](#1-the-system), [modules](#2-modules),
[runs](#3-runs), [proofs](#4-proofs), [what the checks found](#5-what-the-checks-found),
[limits](#6-limits), [plan](#7-plan), [how to run](#8-how-to-run).

## 1. The system

A Next.js application: pages in the browser, API routes on any number of
serverless processes, Postgres (optional) through Prisma, the Sui chain over
gRPC, the Cetus aggregator, price providers, and a Move package for the fee.

| Part | State | Operations | Talks to |
|---|---|---|---|
| Idempotency store (`services/security/idempotency.ts`) | table `api_idempotency`; a `Map` and `lastPruneAt` per process | acquire, complete, release, sweep | Postgres; the execute route, session verification |
| Execute route (`api/v1/transactions/execute`) | `reservationAcquired`, `submissionAttempted` of each request | `POST` | store, session, quote proof, policy, simulation, Sui, persistence |
| Concurrency budgets (`services/security/concurrency.ts`) | `Map` of scopes: `active`, `queue`; a timer per waiter | acquire, release, time out | quote, portfolio and price routes |
| Circuit breaker (`services/upstream/circuit-breaker.ts`) | `failures`, `openedUntil`, `halfOpenProbe` per key | start, settle | price providers, Cetus |
| Shared cache (`utils/cache.ts`) | `memory`, `inflight`, `lastPruneAt` | read, write, prune, invalidate, `cached` | wallet, portfolio, price and token loaders, in browser and server |
| Realtime socket (`services/realtime/websocket.ts`, `hooks/use-websocket.ts`) | current socket, timers, heartbeat, last sequence numbers | connect, close, the socket's events | gateway; wallet refreshes |
| Rate limiter (`services/security/rate-limit.ts`) | table of windows; a `Map` per process | check, sweep | every route |
| RPC health (`services/sui/rpc-health.ts`, `grpc.ts`) | failures, cooldown and probe of each endpoint | mark, probe, read failover | every Sui call |
| Wallet session (`services/session/server.ts`, `session/verify`) | signed challenge and session cookies; used challenges in the idempotency store | challenge, verify, read, log out | store, wallet |
| Wallet provider (`components/wallet/wallet-provider.tsx`) | account, session, attempt counters | connect, switch, disconnect | wallet extension, session routes |
| Swap interface (`components/swap/swap-interface.tsx`, `transactions/execute.ts`, `utils/formats.ts`) | phase, quote, inputs, amount as text | quote, review, confirm, retry | quote and execute routes |
| Quote service (`swap/quote`, `quotes/integrity.ts`, `swap.ts`) | none: quotes carry a signature, an expiry and a policy fingerprint | quote, verify | Cetus, prices, budget |
| Policy and preflight (`transactions/policy.ts`, `persistence-validation.ts`) | none | validate, simulate | Sui |
| Persistence and reconciliation (`database/prisma/repositories`, `transactions/reconcile.ts`) | swaps, wallets, pools, observations | record, confirm, clean up | Postgres, Sui |
| Fees (`services/fees`) and contract (`contracts/swap/sources/swap.move`) | `SwapConfig` on chain | fee, minimum output, update, collect | swap transactions |
| Price feed (`services/prices`, `api/v1/prices`) | a cache in the server, at the edge and in the page | load, accept, read | providers, breaker, cache |
| Account pages (`app/activity`, `app/portfolio`, `app/pool`, `hooks/use-wallet-data.ts`) | list, cursor, balances, requests under way | load, load older, reload | wallet, API routes |
| Network status (`hooks/use-network-status.ts`, `common/fetch-json.ts`) | data, error, the active request | poll, retry, go offline and online | API route |
| Readiness and deployment (`ready/route.ts`, `services/system`, `scripts/validate-*.mjs`) | none: the environment is read once | vet, probe, refuse while in maintenance | all of the above |

How they interact on the main path: the page asks for a quote (budget, cache,
breaker), has the wallet sign a transaction built from it, and posts the signed
bytes with an `Idempotency-Key`. The execute route reserves the key, checks
session, quote, policy, signature and simulation, submits, records the swap,
stores the response for replay and answers. A job confirms recorded swaps and
sweeps expired rows. Confirmation and realtime events force the cached balances
to be loaded again.

What is hard, and what makes each part correct:

* **Idempotency and execution.** The same key arrives twice, on two processes,
  while the database fails, a reservation expires under a slow request, or a
  process dies between its reservation and its result. Correct: a key is held
  once; a replay is the result of the same payload; a client is told what
  happened on chain; a submission in doubt is not repeated.
* **Budgets.** A release, a timeout and an arrival meet, and the scope's state
  is dropped and re-created while timers still refer to it. Correct: never more
  than the budget, no slot idle while somebody waits, first in first out.
* **Breaker.** A call reads the state when it starts and writes it whenever it
  settles. Correct: enough failures open the circuit, a probe is alone, the
  probe flag is never left set.
* **Cache.** Loads are shared, invalidated, failed and evicted. Correct: one
  load per key, no value older than one already shown, a bounded Map.
* **Realtime.** The close event of one socket arrives when another has taken
  its place. Correct: one connection or one attempt, torn down when closed,
  events in order.
* **Session, wallet and swap pages.** The account, the inputs or the quote
  change while an answer is awaited; a challenge is used twice; a confirmation
  is retried. Correct: what is signed, sent and shown belongs to the account
  and quote on screen.
* **Limiter, RPC pool, reconciliation.** Windows turn over while late requests
  write, endpoints are marked while others are checked, jobs overlap and fail
  between two writes. Correct: no more than the limit, only endpoints on the
  process's chain, a final status stays final and is reached.
* **Money.** Browser, server and contract compute fee and minimum separately,
  from prices and policies read at different times, in truncating divisions and
  in decimal texts. Correct: the fee is the reviewed one, the user is paid no
  less than promised, what is spent is what may be spent.
* **Limits and deployments.** Several files, scripts and servers of unlike
  configuration decide the same thing. Correct: who is told that swaps run can
  swap, and what is executed is within the policy of the server that executes.
* **Prices and lists.** A value passes through caches that do not know of each
  other, and pages whose answers overtake each other. Correct: its age is
  bounded, and a list is the account's, without a gap.

`PROJECT.json` lists every component with its status, and under `hazards` every
place where the code is exposed, with the property that would notice.

## 2. Modules

Every step of a module is what runs between two awaits of the code (or one run
of the browser's event loop): nothing interleaves within it. Names follow the
source. `history` variables in a module record the past for a property and
influence nothing.

### Server: execution

**Idempotency.** The store. `db` is the table and `mem[i]` the Map of process
`i`, both sets of rows (key, hash of the body, status, expiry). A request moves
through `find`, `reap`, `insert` and `reread`, one per database call of
`acquireIdempotency`; holds its key; and then completes, releases or abandons
it. `AcquireFails` and `StoreFails` are calls that fail with or without effect;
the caller falls back to the Map, as the code does. `at[r]` is the clock the code
captures once at the start, and uses after any number of awaits. `Sweep` is the
daily job. `Crash` loses a process, its Map and its requests. Constants restrict
behaviour, each used by some run: `Persistent` (is there a database),
`DbFaults`, `Releases`, `Crashes`, and `Prompt` (a request ends before its
reservation does: the code does not ensure it, the defaults intend it).
`StoredInTime` lets time pass only while a result being stored has a
reservation's life left.

**ExecuteRoute.** The handler, over the variables and the calls of Idempotency,
which it extends: it reserves, checks (all the checks before submission are one `Refuse` or `Simulated`),
submits, and completes with the chain's outcome; an ambiguous failure abandons
the reservation. Sui is external: bytes execute once, with one outcome, and no
longer pass a simulation afterwards. The route drives the store as any caller may
(`RouteUsesStore`), so all that is proved of the store holds here; what it adds is
when it releases: `ReservedForSubmission`.

**SwapLedger.** The rows of swaps: `RecordSubmittedSwap` of the route,
`MarkSwapConfirmed` of the transaction's page, and runs of the job, which put
the places of the `Oldest` pending rows, a `Batch` at most, into `todo` and
settle and observe one after the other; every call may fail. `Lost` are transactions the endpoints have nothing
to say of.

### Server: what it admits and asks

**ConcurrencyBudget, AdmissionQueue.** One scope. A `BudgetState` object is
named after the request that created it, `scope` is the one in the Map, and
`home[r]` the one whose queue holds r, since the timer's closure keeps it while
`release` looks the Map up again. `AdmissionQueue` is the abstract specification:
a set inside, a line outside, served in order. `IsAdmissionQueue` states that
the scope implements it.

**CircuitBreaker.** One key. A call that finds the circuit closed runs; one that
finds it half open and no probe under way sets the flag and probes; all settle
later by `Success`, `Skip` (a value that did not come from the upstream: the
price loader returns undefined when it has nothing to ask), `Fail` (counted) or
`Error` (not counted), and write the shared state whichever way they started.

**RateLimit.** One key: the row of each window in the database, and the entry of
each process for when the database does not answer. A request reads the clock
when it comes, and removes what has ended from the Map unless that was done within
`PruneGap` (`Prune`; `OtherComes` is a request of another key, which does the
same); its row may be written, or its call fail, up to `Delay` later, before or
after the sweep.

**RpcPool.** Endpoints with their failures, cooldowns and checked identity; a
read tries them in the order of their health until one answers, an execution asks
the protected one once. Before either, an endpoint that was not checked within
`IdentityTtl` is asked for its chain: `Reports` is its answer, `Identified` what the
process makes of it once it goes on. `serves` is external: an endpoint may be moved
to another chain and back, also between the two. The first chain reported is the
process's (`known`); the endpoints of `Silent` may leave theirs out, and are let by,
as `grpc.ts:28` and `36` do. `Outweighs` failures weigh more than any difference of
latencies (`rpc-health.ts:83`); below that any order is possible.

**PriceFeed.** A price is the time its provider put on it. It goes from
`fetchBestPrice`, which asks `Order` in turn and checks staleness once, through
the server's cache, the edge's (`s-maxage`, `stale-while-revalidate`) and the
page's, to the tokens. A `GET /prices` is for several tokens and answers when all
have settled: `gathered` is what it holds of this one meanwhile, for `OthersWait` at
most.

**Deployment.** `config` is a network and the settings that are on;
`SwapBlocked`, `AppReady`, `EnvironmentValid` and `ProfileValid` are the
accounts of readiness that different files give, the actions are the probe with
its timed checks and a swap meeting the condition of each route. Settings include
those none of the accounts looks at: an origin that is named and is no https URL,
providers that the SDK or testnet does not have, and a margin that outlasts the
quotes (`Overlooked`).

### The swap, from the page to the chain

Three modules see the same swap from different sides and share its steps: quote,
construction (`executeSwap`), preflight, relay.

**SwapFlow** has time and order: the quote effect with its timer, fetch and
abortion, the dialog, and the runs of `confirmSwap`, each a closure over what
the page showed when it was clicked. The terms are what is asked, the
slippage and the limit on the price impact, since the code compares each in a way
of its own: what is asked in the page, the slippage by the signature (`Signing`),
and the limit by `confirmSwap`, with the impact that was quoted. The servers verify
claims, the deployment changes its policy and changes it back.

**SwapMoney** has the amounts, in base units: the reviewed quote, the
transaction built from a fresh route, the two simulations, the contract's
`collect_fee` with its shared `Config`, while the market, the deployment's policy
and the contract's owner move.

**QuoteTerms** has the limits: what the settings dialog clamps, the quote route
checks and signs, the page sends and the relay verifies, when every request may
be answered by a server of another configuration.

**SpendAmount.** The amount as a decimal text: typed, MAX, quick amounts and
flips, compared and scaled as texts by `utils/formats.ts`, and converted to base
units by `services/fees`. The check and the conversion are one step, as in the send
panel's `submit`; in the swap page the dialog lies between, and a balance that falls
meanwhile is found by the wallet or the chain.

### Browser

**WalletSession.** The provider against the session routes. Its functions are
chains of awaits that several events start and none cancels: each is a task with
its place, and what it has read. A request carries the cookie held when it was
sent, and its answer sets the cookie when it arrives.

**WalletView, NetworkView, AccountPages.** `useWalletData`, `useNetworkStatus`,
and the activity, portfolio and pool pages. A call has two steps: its promise
settles (answer, failure, abortion), and what awaits it goes on, by when the
account, the signal or the latest request may be others.

**Cache.** Entries and loads of several keys. `Call` is the synchronous part of
`cached`, with the invalidation that a forced caller makes first; `Read` the
upstream's evaluation of the request; `Settle` and `Fail` its answer, with
`Write` pruning before and after. Values are version numbers of what the
upstream holds.

**RealtimeSocket.** The object and the hook that drives it. WebSockets are
external: one that was closed, or lost its connection, is "closing" until its
close event comes, and the handlers of every WebSocket act on the one object.
`timer` is the pending timer the object knows, `lostTimers` those whose handle
was overwritten. `strict` is a development build, where StrictMode runs connect,
close, connect in one go on the same object.

### Instances

`MCIdempotency` and `MCExecuteRoute` instantiate their modules. `MCLive`,
`MCServer` and `MCClient` each hold several components that share no state: the
variable `subject` says which of them a behaviour is about, and the others stay
where they began, so that one run checks each component by itself, over the sum
and not the product of their states. `Numbered` lets identical calls come in the
order of their numbers, a reduction by symmetry that keeps their steps.

## 3. Runs

Twelve configurations; each finishes within three minutes on two cores.

| Run | Instance | Shows |
|---|---|---|
| `IdemFaults` | 3 requests, 2 processes, 1 key, 2 bodies, all faults, clock to 1; 1.1 million states | `ReplayTruth`: a replay was stored for the same key and body |
| `IdemDb` | 3 requests, 2 processes, 1 key, no releases, failures, crashes, requests of any length, clock to 2; 1.2 million | `DbExclusive`: the primary key is a lock; `KeptUntilExpiry`: a reservation stands until it expires, whatever becomes of its holder |
| `IdemLostResult` | 2 requests, 1 process, a database that fails | violates `NoReexecution`: see 5 |
| `ExecFaults` | 3 requests, 1 process, 2 payloads, all faults; 1.0 million | `ResponseTruth`: what a client is told is what the chain did; `ReservedForSubmission`: a request that was refused before submission leaves no reservation behind, whatever releases, crashes and takeovers it meets |
| `ExecLocal` | 4 requests, 1 process without a database, clock to 4; 17 thousand | `OneSubmission`, and of the Map `NoReexecution` |
| `ExecStaleRelease` | 3 requests, 1 process, healthy database, slow requests | violates `KeptInDoubt`: see 5 |
| `Live` | three components under fairness; 0.18 million | what is promised in the end |
| `Server` | seven components; 3.7 million | the server's safety |
| `Client` | seven components; 3.8 million | the browser's safety |
| `BreakerSkips` | 3 calls | violates `TripsOnStreak`: see 5 |
| `CacheStaleRefresh` | 2 callers, 1 key | violates `ForcedIsFresh`: see 5 |
| `ReviewedMinimum` | a swap while the price moves | violates `ReviewedMinimum`: see 5 |

The components of the three composite runs, their instances and properties:

| Run, subject | Instance | Properties |
|---|---|---|
| `Live` budget | 5 requests, 2 slots, 2 places in the queue | `NoIdleSlot`: no wake-up is lost; `IsAdmissionQueue`: the refinement; `Answered`: every waiter is |
| `Live` wallet | 2 accounts, 3 tasks, 1 challenge, sessions of 1 tick, clock to 2, failing calls | `ExpiredIsDropped`: an expired session leaves the page |
| `Live` ledger | 3 transactions of which one is lost, a batch of 2, 1 job | `FinalStaysFinal`; `Settled`: every recorded swap Sui knows of is settled |
| `Server` breaker | 6 calls, threshold 2, cooldown 2, clock to 7 | `NoLockout`: the probe flag is some running call's; `ProbeAlone` |
| `Server` pool | 2 reads, 1 execution, at most 2 of them under way, 2 endpoints of which one may be silent, 2 chains, identities and reports of 1 tick, clock to 3 | `AsksKnownChain`: no call to an endpoint that tells its chain and has not been on the process's of late; `QuarantineEarned` |
| `Server` limiter | 4 requests, limit 2, window 3, removals 2 apart, delay 2, clock to 5 | `WindowBounded` |
| `Server` money | inputs 30 and 10039, 4 prices, fees of 25 and 250 bps, 10 % slippage, gas rebates | `FeeAsReviewed`, `PaidAboveFloor` |
| `Server` deployment | 3 networks, all configurations within 2 settings of production's | `ReadyMeansServing`: beside the settings that are overlooked, ready means that swaps run |
| `Server` price | 2 providers, staleness 2, the server's cache of 2 ticks, the others of 1, a wait of 1, clock to 6 | `PriceAgeBounded` |
| `Server` terms | 5 unlike deployments, slippages and impacts at and beyond the limits | `WithinPolicy` |
| `Client` cache | 3 callers, 2 keys, room for 1 entry | `Bounded`, `OneLoadPerKey`, `NeverBackInTime` |
| `Client` socket | 5 WebSockets, 1 topic, production and StrictMode | `OneAtATime`, `TornDown`, `InOrder` |
| `Client` swap | 2 confirmations, 2 amounts under fixed settings, 2 policies, 2 quotes | `QuoteForInputs`, `RelayedUnderItsPolicy` |
| `Client` terms | the same with 1 confirmation, 1 policy, 2 amounts, 2 slippages, 2 limits, 2 impacts | `TermsHonoured` |
| `Client` wallet | 2 accounts, 4 calls | `SettledOnAccount` |
| `Client` network | 3 polls, 2 events, 1 retry | `OfflineSaysSo` |
| `Client` pages | 2 accounts, pages of 1, 3 transactions, 3 loads | `ListOfAccount` |
| `Client` amount | coins of 1 and 2 decimals, typed digits {0, 7, 12, 105} with 0 to 3 places | `SpendFits` |

Besides, each run of several components has one type invariant.

**Bounds.** `MaxTime`, `MaxTicks`, `MaxInstant`, `MaxClock` and `MaxMoment` stop
the clocks, `MaxVersion` and `MaxHeight` the changes at an upstream, `MaxSeq` the
sequence numbers; `Sockets`, `MaxQuotes`, `MaxAsks`, `MaxPolls`, `MaxLoads`,
`MaxTasks`, `MaxPrompts`, `MaxTokens`, `MaxEvents` how often a thing is made;
`Deviations` how far a configuration is from production's. `FewAtOnce` limits the
calls that are under way, `AskedOnly` and `OneRun` what changes in the two views of
the swap. `Typed`, `Holdings`, `Slippages`, `Impacts`, `Deadlines`, `RouteImpacts`,
`IdLengths` are the inputs, `Silent`, `Expert` and `Signing` what a deployment or a
user has; `MaxFailures` is where a backoff no longer grows. They are enough where a case
and its sequel fit:

* *store*: lives of one or two ticks, so that reservations expire and a third
  request reaps what a second re-created; two processes are the fewest with two
  Maps, three requests the fewest with a holder, a late writer and a newcomer;
* *budget*: one request more than slots and places together is refused;
* *breaker*: six calls trip, probe, fail the probe and probe again;
* *cache*: two keys compete for one entry, so that every write evicts;
* *socket*: five are three reconnections after StrictMode's two;
* *limiter*: two windows, a delay that carries a write beyond its own, and a
  removal between a request's clock and its count;
* *pool*: an identity expires, and an endpoint moves while a report or a call is
  under way; two calls are the fewest that overlap;
* *ledger*: one job, beside the page and the route; jobs that overlap are in the
  theorem `FinalRowsStay`. One lost row and a batch of two: the lost one
  would block a batch of one, which `LedgerAssumption` excludes;
* *money*: 10039 is no multiple of a fee's divisor, and 30 at 25 bps has a fee
  of zero; a price falls by more than the slippage and by less;
* *swap*: two quotes and two runs are the fewest in which one replaces another;
  settings and impacts concern one run, and vary in a subject of their own;
* *pages, wallet, network*: three or four calls are an older answer, a newer one
  and a reload between them;
* *price*: a clock of six lets a price age through all four caches.

**Deadlock** is not checked: each model stops when every request has been
served and the clock, or the number of calls, has reached its bound.

**Fairness** is assumed in `Live` only.
`ConcurrencyBudget`: weak fairness of `Finish`, since work admitted by a budget
consists of upstream calls with timeouts (`config/env.ts`); none of arrivals or
of timers. `WalletSession`: weak fairness of `NetworkAnswers` (every request to a
session route is answered or fails) and strong fairness of `SessionExpires` (a
timer that is due fires; it is strong since a bound on tasks may delay it); none
of the user or of the wallet. `SwapLedger`: the cron starts the job over and over
and every call ends, so weak fairness of `JobStarts` and `JobStep`; and strong
fairness of `JobSettles` for rows that are not lost: neither chain nor database
fails for a row for ever.

Every property of a passing run has a mutant in `PROJECT.json`: a plausible bug
in one mapped definition, written beside it and marked `Mutant`, with which the
run fails.

## 4. Proofs

Checked by TLAPS for all values of the constants that satisfy the named
assumptions of the modules (`IdempotencyAssumption`, `ExecuteAssumption`,
`BudgetAssumption`, `WalletAssumption`, `LedgerAssumption`, `BreakerAssumption`,
`RpcPoolAssumption`, `RateLimitAssumption`, `MoneyAssumption`,
`QuoteTermsAssumption`, `PriceFeedAssumption`, `CacheAssumption`,
`RealtimeAssumption`, `SwapFlowAssumption` and `NoQuoteAssumption`,
`WalletViewAssumption`, `NetworkViewAssumption`, `AccountPagesAssumption`,
`SpendAmountAssumption`): types of the numbers, finiteness of what is counted,
marks that are no values, and the few relations between settings that section 6
names. Every safety property and every type invariant of the passing runs is
proved; the liveness properties are not.

### The runs and the parts

`LiveIsItsParts`, `ServerIsItsParts`, `PageIsItsParts`: a behaviour of `LiveSpec`,
`ServerSpec` or `ClientSpec`, whichever component moves, is a behaviour of each
component. TLC checks the composite specifications, the theorems below are about
the components; these three make them speak of the same thing. `LiveTypeCorrect`,
`ServerTypeCorrect` and `ClientTypeCorrect` prove the types of all components.

### Execution

**IdempotencyProofs.** `TypeCorrect`. `ReplaysAreTrue` (`ReplayTruth`, under all
faults): every stored row with a final status, and every result a request carries,
was completed for the row's key and hash (`TruthInv`). `PrimaryKeyIsALock`
(`DbExclusive`) and `ReservationsAreKept` (`KeptUntilExpiry`), where no caller
releases: `LockInv` says that while a reservation of the table is to expire a row
*covers* it, whose expiry is no earlier, and that a request about to write or
delete can only hit that row if its captured clock is older than the row. An
invariant of the holders alone is not inductive: what protects a reservation after
its holder has gone is the row, and what protects the row is that `deleteMany`
compares the expiry with a clock that was read no later than now.
`CompletedOnce` (`NoReexecution`) has the hypothesis `OneProcess`: one process
without a database that does not crash, whose requests end before their
reservations do. That is the instance of `ExecLocal`; without it the property is
false (`IdemLostResult`). `LocalInv` ties each reservation and each result that is
to expire to its row of the Map, which pruning takes only once it is over.

**RouteProofs.** `RouteUsesStore`: every step of the route is one of the store or
leaves it alone. The one obligation that is not a matter of matching
actions is that the route completes with a *result*: whoever got past submission
has an outcome on chain (`RouteInv`). The store's theorems then hold of the route.
`ResponsesAreTrue` (`ResponseTruth`): what is completed is what the chain says
(`ChainTruth`), and what is replayed was completed (`TruthInv`).
`OneSubmissionInDoubt` (`OneSubmission`) and `ExecutedOnce` (`NoReexecution`), with
`OneProcess`: a submission in doubt is that of a request that holds its key, or has
given up and left its reservation (`DoubtInv`). `RefusedIsFreed`
(`ReservedForSubmission`): for every row under reservation there is a request that
keeps it, and a step takes one from its request only with the row (`StepKeeps`,
`EndKeeps`); `NoTable` and `StoresResult` say that without a database no request is
in a call of it, and that what is stored last is a result.

### What is promised in the end

**LiveProofs.** *Budget*: `BudgetInv` joins `OneBudget` (the object in the Map
counts all work and queues all waiters), objects outside the Map being idle, and
`NoIdleSlot`. None is inductive alone: a lost wake-up would leave a waiter in an
object the Map drops. From it `TypeCorrect`, `NeverOverBudget`, `NoLostWakeup`,
`MapHoldsTheBudget`, and `ImplementsAdmissionQueue`: each action is an arrival, a
departure with a hand-over, a time-out or a stutter of `AdmissionQueue`.

*Wallet*: `SessionIsTimed`. A page that holds a session has its expiry timer set, or
a refresh under way that ends in another session, in none or in a new timer
(`SessionTimed`, which no run lists). `ExpiredIsDropped` rests on it: a session that
lost its timer and its refresh could expire without anyone to notice. That a task
knows whose session it asks for (`Named`) is part of the invariant, for the type of
what it will be given.

*Ledger*: `FinalRowsStay` (`FinalStaysFinal`). In `LedgerInv` every final row agrees
with the chain, and the page asks only of transactions that succeeded, so that
writers in any order write the same. `OldestIsABatch`: a run of the job takes no
more rows than its limit.

### The server

**BreakerProofs.** `FlagIsHeld` (`NoLockout`) for calls of any length.
`OneFailureReopens` (`Reopens`), from the invariant that a circuit which is not
closed has reached its threshold. `PromptProbeIsAlone` (`ProbeAlone`) assumes
`Prompt`: a call that passed a closed circuit has settled before the circuit that
opened behind it is half open.

**ServerProofs.** *Endpoints*: `CallsKnownChain`: `IdentityInv` orders four times: a
call starts within a life of its check, the check is no later than a report may take
after the report's request, and a report is of a chain that the endpoint was on
since. What a silent endpoint is let by for does not touch this, but is why the
theorem is of endpoints that tell their chain. `QuarantineIsEarned`: an endpoint in cooldown
has as many failures since it last answered.

*Requests*: `DatabaseBounds`: a row counts all that were admitted through it
(`RowInv`), unless it may have been swept, when no request of its window is still to
write. `FallbackBounds` (`FallbackBounded`): an entry counts the admissions of its
process since its window began, of those that came since the last removal
(`EntryInv`); checked by no run's list, only proved. Without that restriction it is
false (`LocallyBounded`).

*Prices*: `PricesAgeBounded`. Each cache counts its life from its own copy, so that
the invariant `FeedInv` gives every copy the age of what it was copied from plus the
life of the cache it was in, and a price that a response holds back the wait for the
others.

*Configuration*: `ReadyServes` (`ReadyMeansServing`), for all configurations and not
only those within `Deviations` of production's, but for what is `Overlooked`. The list
of blockers, the scripts
and the probe each imply the condition of every route (`UnblockedServes`,
`VettedServes`, `VouchedServes`); the invariant is that the probe goes on, and a
swap is refused, only where these conditions say so (`ProbeInv`, `RefusedInv`).

**SwapProofs.** *Terms*: `RelayedWithinPolicy`: in `TermsInv` the claims on their way
are those that *some* deployment issued, but for the slippage, which the page takes
from the screen; the executing server's fingerprint then makes that deployment's
policy its own.

*Money*: `FeeIsReviewed`, `PaidAboveTheFloor`. `MoneyInv` ties the transaction to the
quote it was built from (`OfQuote`) and the fee to `ServiceFee`. Two lemmas of
arithmetic carry it: the contract divides quotient and remainder apart and gets what
the server's one division does (`SameFee`), and a minimum grows with the output
(`MinimumGrows`).

### The browser

**CacheProofs.** `SingleFlight` (`OneLoadPerKey`) with the invariant that a key
being loaded has no entry; from the two, `ReadsGoForward` (`NeverBackInTime`):
whatever is cached, or read and on its way, is at least as new as whatever has been
served (`UpToDate`). `WithinLimit` (`Bounded`), from what pruning leaves.

**PageProofs.** One section for each component:

* *Socket*: `OneConnection` (`OneAtATime`), `TeardownIsFinal` (`TornDown`): a step
  uses up one thing that leads to a connection for each it makes (`SocketInv`).
  `EventsInOrder` (`InOrder`): nothing heard is above the last number (`HeardInv`).
* *Swap*: `QuoteShownIsForInputs`, `TermsAreHonoured`, `RelayedUnderOwnPolicy`, an
  action property, and the types. An answer on its way is for the inputs on the
  screen, since every change of them forgets it (`QuoteInv`); a run of
  `confirmSwap` past its first check keeps what that compared, and so do its request
  and its transaction (`RunsInv`): what was asked by the comparison in the page, the
  slippage by the signature, the impact by that first check.
* *Wallet*: `SettlesOnAccount` (`SettledOnAccount`). Of the calls only the latest
  counts, and it is for the account the effect ran for (`ViewInv`).
* *Network*: `SaysOffline` (`OfflineSaysSo`). The last event that waits is the state
  the browser is in, and when an offline page has heard all, no call is left that
  was not aborted (`NetInv`).
* *Pages*: `ListsAccount` (`ListOfAccount`). What is shown is a run of the account's
  history down to the cursor, and the latest load goes on from there (`ListInv`).
* *Amount*: `SpendsWhatFits` (`SpendFits`), for coins of any decimals and texts of
  any length. The conversions multiply and divide by powers of ten. Induction over
  the exponent is out of the provers' reach, so that the lemmas about `PowerOf10`
  take the smallest exponent for which one fails, which exists because < is well
  founded (`SmallestExponent`); scaling, trimming, comparison and flooring of texts
  then are facts about the worth of a text in base units (`Worth`).

### Only model-checked

`Answered`, `ExpiredIsDropped` and `Settled`, in run `Live`: they rest on fairness,
which needs ENABLED, and TLAPS does not reason about that. What can be said of them
as safety is proved: `NoLostWakeup` and `ImplementsAdmissionQueue`, `SessionIsTimed`,
`FinalRowsStay`. The properties of section 5 that the code violates have
counterexamples and no proofs.

## 5. What the checks found

Five disagreements between the code and what the repository says of it, each a
run whose counterexample shows it:

1. `IdemLostResult`. A request reserved its key in the Map while the database
   failed, and completes when it is back: `updateMany` finds no row, the Map's
   reservation is deleted all the same (`idempotency.ts:163`), and the result is
   nowhere. The comment at line 123: "Database failures must not turn
   idempotency off."
2. `ExecStaleRelease`. `releaseIdempotency` deletes by key, hash and status
   (`idempotency.ts:179`). A request that was refused after its reservation
   expired deletes that of a later identical request whose submission is in
   doubt, which `docs/SECURITY-AND-EXECUTION.md:43` says is kept until expiry.
3. `BreakerSkips`. A price request for an asset without a provider's identifier
   returns undefined inside the breaker (`prices/index.ts:42`), which counts as a
   success of that provider and resets its failures.
4. `CacheStaleRefresh`. A forced refresh joins a load already under way
   (`cache.ts:55`) that has read the balances before the transaction it is to
   show.
5. `ReviewedMinimum`. The route is found anew after the review
   (`transactions/execute.ts:182`); its output has to reach the signed minimum,
   but the swap allows the slippage below that output once more, so that the
   transaction itself promises less than the minimum
   `docs/RC15-QUOTE-ROUTE-COMMITMENT-HARDENING.md:9` says is enforced. What does
   hold, and is proved, is the floor one slippage below (`PaidAboveFloor`).

More statements are written down as definitions that no run lists, because they
are false; TLC shows it when one is put into the configuration named here in
place of its properties:

| Definition | Configuration | Why it is false |
|---|---|---|
| `OneSwapAtATime` (SwapFlow) | `Client` | `docs/RC15-UX-AND-RUNTIME-HARDENING.md:9` says the dialog stays while a signature is requested; the quote effect (`swap-interface.tsx:273`) sets the phase all the same, and a second swap can be confirmed beside the first |
| `SafeRetry` (SwapFlow) | `Client` | a lost answer to the execution is shown as "Swap not submitted", and the repetition has a new key |
| `ShowsOwnBalance` (WalletView) | `Client` | between a switch and its first answer the last account's balances stay (`README.md:65`) |
| `PositionsOfAccount` (AccountPages) | `Client` | `app/pool/page.tsx:53` reloads without a signal, so an older account's answer may come last |
| `QuickAmountIsShare` (SpendAmount) | `Client` | `formats.ts:106` scales to the digits the text has |
| `DisconnectClears` (WalletSession) | `Live` | a verification under way sets the cookie after the logout (`docs/RC15-WALLET-SESSIONS-FEES-AND-MARKET-DATA.md:15`) |
| `ProductionIsDedicated` (Deployment) | `Server` | `validate-env.mjs:169` passes the default public endpoint (`docs/RC15-ENVIRONMENT-AND-BUILD-GATES.md:22`) |
| `ShownIsRecent` (PriceFeed) | `Server` | staleness is checked once, before four caches (`docs/SECURITY-AND-EXECUTION.md:17`) |
| `TestnetFamilies` (QuoteTerms) | `Server` | with no list configured, `execute.ts:147` asks for any provider (`docs/MAINNET-DEVNET-READINESS.md:60`) |
| `IssuedIsUsable` (QuoteTerms) | `Server` | fractional deadlines, slippage above 10 %, long identifiers and a margin as long as a quote's life are issued and later refused |
| `ImpactLimitMatches` (SwapFlow) | `Client` | request and claims both take the limit on the price impact from the quote (`swap-interface.tsx:370,393`), so `execute.ts:104` compares it with itself (`docs/RC15-QUOTE-SETTINGS-AND-BALANCE-HARDENING.md:15`); what holds is that the impact quoted is within the limit shown (l. 351) |
| `AsksToldChain` (RpcPool) | `Server` | an endpoint that leaves its chain id out is let by (`grpc.ts:36`), before any other has said what the chain is (`docs/RC15-RPC-TRUST-CACHE-HARDENING.md:9`) |
| `NothingIsOverlooked` (Deployment) | `Server` | readiness asks whether an origin and providers are named (`readiness.ts:37,49`), not whether they will do, and nothing compares the margin with a quote's life (`env.ts:132,136`) |
| `LocallyBounded` (RateLimit) | `Server` | requests that waited for the database while their ended entry was removed begin another (`rate-limit.ts:66-67`) |
| `Exclusive` (Idempotency) | `IdemFaults`, with `DbFaults` and `Crashes` FALSE and `Prompt` TRUE | the loser of a race for a row that is then released falls back to the process's Map although the database is healthy (`idempotency.ts:114`) |

Two more are known, and excluded by an assumption: a late success or failure of a
call from before a circuit opened closes it early, or lets a second probe in, if
the cooldown is configured below the timeouts (`circuit-breaker.ts:103,108`;
`Prompt`); and one lost transaction per row of a batch would keep the job from
all later rows (`reconcile.ts:14`; `LedgerAssumption` has fewer than a batch).

## 6. Limits

* Bodies, responses, digests and, outside SwapMoney and SpendAmount, amounts are
  model values: the properties tell them apart by identity only. Hash
  collisions and forged signatures are not modelled.
* All processes share one clock; only a price provider's may be ahead (`Skew`).
* `StoredInTime` excludes a database write that hangs for most of a result's
  life (a day by default). The result's life is assumed no shorter than a
  reservation's; the configuration allows the contrary (`env.ts:176-177`).
* Amounts of SwapMoney are mathematical integers. The contract's `calculate_fee`
  avoids an overflow of u64 by dividing first, which `SameFee` shows to be exact;
  no product of it exceeds its input's range, given a rate of at most 250 bps.
* Components are composed where they share state (store and route; budget and
  queue). SwapFlow, SwapMoney, QuoteTerms and Deployment are views of one swap and
  repeat its steps rather than compose: a behaviour of all four at once is not
  explored.
* A budget's argument checks, a breaker's diagnostics and all snapshots change
  nothing and are left out. Reconnection delays are any delay.

### Not modelled

* The shape of a programmable transaction (`transactions/policy.ts`): a function
  of one transaction without state; one condition in SwapMoney and ExecuteRoute.
* Header, origin and cron-secret checks of a request: comparisons with
  constants, no state.
* Liquidity rows, price and portfolio snapshots, wallets' and tokens' rows:
  written and never read for a decision.
* Token metadata, pool and position queries, portfolio sums: queries without
  state of their own, over Cache.
* The legacy JSON-RPC probe (`rpc.ts`), which changes no routing state; the
  scripts that search sources for texts (`validate-source.mjs`,
  `validate-production-invariants.mjs`); their subject is text.
* Toasts, dialogs' focus, layout, formatting, translations, styles.

`PROJECT.json` has the status of every component with its reason.

## 7. Plan

What would add most next:

1. A composition of SwapFlow with ExecuteRoute, so that the retry of one key and
   a new confirmation meet in one behaviour.
2. More of the session as theorems: which answers may set a cookie, and that a page
   without an account ends without a session.
3. A bound on the store's Map, from the gap of its pruning.
4. `FallbackBounded`, `Reopens` and `SessionTimed` in runs of their own; larger
   instances of the wallet and the ledger, whose fairness limits their size.

## 8. How to run

    tlasany Cache.tla
    tlc -workers 2 -config Server.cfg MCServer.tla
    tlapm ServerProofs.tla

Every run of the table in 3 uses the module that `PROJECT.json` gives for it.
