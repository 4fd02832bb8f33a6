# IdleGrid: TLA+ models, checks and proofs

IdleGrid turns idle Macs into an inference service. A Go coordinator takes
OpenAI-style HTTP requests, picks a provider (a Swift process on a Mac that has
dialled in over a WebSocket), relays what the provider generates, and moves the
money: developers are charged, owners of Macs are credited. This directory
models the coordinator's concurrent core, its ledger and the provider process,
checks them with TLC and proves with TLAPS every safety property they check.

    tlc -workers 2 -config dispatch_any.cfg MCDispatch
    tlapm DispatchProofs.tla

`PROJECT.json` has the machine-readable side: components, runs, mutants, the map
from definitions to source lines, findings, hazards, theorems. Paths below are
relative to `src/`; `server/` is `coordinator/internal/server/`, `registry/` is
`coordinator/internal/registry/`, `store/` is `coordinator/store/`.

## 1. Inventory

| Component | State | Operations | Hard part | What makes it correct |
|---|---|---|---|---|
| Node registry (`registry/registry.go`, `scheduler.go`) | one record per node id: models, queue depth, token charge, last seen, cooldown | Register, Heartbeat, Unregister, Sweep, Reserve, Release, CanaryResult | many goroutines, each call atomic; a record may vanish and reappear between a Reserve and its Release | counters are the open reservations; the cheapest fit node is taken; failed nodes are spared |
| Event router (`server/router.go`) | one bounded channel per request | Create, Resolve, Deliver | Deliver races Resolve; a full channel drops | a request has a channel while somebody reads it, and its terminal event arrives |
| Provider hub (`server/hub.go`) | per connection: socket, queue, pump, read loop; per node: current connection, in-flight set | HandleWS, writePump, readLoop, disconnect, Send, CloseNode, StartSweeper | one lock around maps but not around the channels in them; reconnects overlap teardowns; machines fall asleep | queues are closed once, lost providers fail their requests, connected providers are reachable |
| Gateway (`server/gateway.go`) | one handler per request | handleChatCompletions, streamResponse, collectResponse, finishUsage | terminal event, 120 s timer and caller's departure race; writes to the caller have no deadline; panics unwind through defers | every request whose caller reads ends; refused work is not done; done work is not refused |
| Pricing (`store/billing.go`) | none | EstimateTokens, CountsMatch, GrossMicro, SplitProviderFee | rounding, tolerances, floors | the split is exact; a provider cannot inflate a charge |
| Metering and settlement (`server/gateway.go`, `store/postgres.go`) | usage_events, ledger_entries, accounts | RecordUsage, SettleRequest | SQL transactions at READ COMMITTED, a bounded pool, a 5 s context | settled wholly, once, or not at all |
| Node ownership (`store/postgres.go`, `server/hub.go`) | provider_nodes, provider_tokens, escrow | BindNode (sweeps escrow), EnrollNode, ResolveProviderToken, RevokeNode, TouchNode | runs while requests of the node settle | escrow and owners hold together what was credited |
| Balance and deposits (`server/gateway.go`, `dodo.go`) | developer_balance, dodo_payments | balance check, DodoCredit, webhook | check long before the charge; duplicated webhooks | an overdraft of what was pending together; one credit per payment |
| Device login (`server/device.go`, `store/postgres.go`, `LoginCommand.swift`) | device_codes | code, approve, poll, redeem | three parties poll and race expiry | one token per approval |
| Payouts (`store/postgres.go`, `server/console.go`) | payouts, ledger | request, approve, settle | two admins at once, old pages | one debit per payout, before it is called paid |
| Rate limiting (`server/ratelimit.go`, `limitInference`) | one token bucket per developer, with the time it was last counted | Allow | refilled lazily by elapsed time, on refusals too; capped | no span of time lets through more than the burst and its refill |
| Console API, sessions, API keys (`server/console.go`, `store/console.go`, `billing.go`) | sessions, api_keys, users | login, logout, keys, prices, listings | single SQL statements | a revoked key or session resolves to nobody |
| Canary loop (`server/console.go`) | counters in the registry | runCanary | none | counters are read by nobody but the dashboard |
| In-memory billing (`store/billing.go`) | maps under one lock | same interface | none | same idempotence as PostgreSQL |
| Provider client (`provider-swift/`) | `ws`, `tornDown`, `connGroup`, heartbeat timer, `inflight`, `queueDepth`, one Task per request | run, connectAndRegister, receiveLoop, serve, runInference, finish, teardown, cancelAllInflight | Tasks outlive their connection; four kinds of threads share a queue; a group entered and left in different places | one terminal event per request; the depth it reports is its work; lost connections are dialled anew |
| End-to-end sealing, wire formats, OpenRouter listing, dashboard, console UI, installer | - | - | data and presentation | - |

How they interact. An HTTP handler calls Registry.Reserve, Router.Create and
Hub.Send in that order, then reads its event channel. A provider's WebSocket
handler calls Registry.Register, fills the hub's maps, and its read loop calls
Router.Deliver and Registry.Heartbeat; on its way out it calls
Registry.Unregister, clears the hub's maps, closes the queue and delivers an
error to every request it still had. The sweeper calls Registry.Sweep, then
Hub.CloseNode. `Registry.mu`, `Hub.mu` and `Router.mu` are never held together.
After its answer the HTTP handler meters and settles through the store; the hub
binds a node's owner through the same store at registration.

The hazards found while reading are listed in `PROJECT.json`, each at its line,
with the properties that cover it.

## 2. Modules

| Module | Models |
|---|---|
| `Registry` | the node table and its operations |
| `Scheduler` | the table under matched Reserve/Release, as `scheduler_test.go` uses it |
| `Router` | the event channels |
| `Hub` (extends both) | WebSocket handlers, pump, read loop, disconnect, sweeper; provider and network as environment |
| `Dispatch` (extends `Hub`) | the gateway's request path over all of it; fairness; properties |
| `RequestContract` | what the request path promises, one request at a time: the abstract specification |
| `DispatchInvariants` | inductive strengthenings, stated apart for TLC and the proofs |
| `MCDispatch` | constants for TLC |
| `DispatchProofs` | theorems on `Dispatch` in any environment, its refinement of `RequestContract` among them |
| `OrderlyProofs` | theorems on `Dispatch` with orderly providers |
| `SchedulerProofs` | theorems on `Scheduler` |
| `SumProofs` | lemmas on sums over finite sets, for the next three modules of proofs |
| `Pricing` | token estimate, tolerance, charge, split |
| `Settlement` (extends `Pricing`) | metering, SettleRequest, BindNode and RevokeNode as interleaved transactions |
| `MCSettlement` | constants for TLC |
| `SettlementProofs` | theorems on both |
| `DeviceLogin` | device codes, approval, polls, tokens, the daemon's registrations, removal |
| `MCDeviceLogin` | constants for TLC |
| `DeviceLoginProofs` | theorems on it |
| `Accounts` | deposits by webhook, the rate limit and the balance guard before requests, payouts |
| `MCAccounts` | constants for TLC |
| `AccountsProofs` | theorems on it |
| `ProviderClient` | the provider process: run loop, receive chain, Tasks, heartbeat timer |
| `ProviderContract` | what `Hub` takes for granted of a provider: the abstract specification of the process |
| `ProviderProofs` | theorems on `ProviderClient`, the refinement among them |

### Dispatch

One step is what one mutex guards, or one channel operation. So `Send` is
`SendLookup` (under `Hub.mu`: find the connection, note the request as in
flight) and then `SendEnqueue`, `SendQueueFull` or `SendPanics` on the channel
found, which may be closed by then. `disconnect` is `UnregisterWS`, `Detach`,
`CloseOut` (or `CloseOutPanics`), one `FailOrphan` per request and `ReturnWS`.
The sweeper is `SweepTick`, `CloseNodeLookup`, `CloseNodeClose` (or
`CloseNodePanics`, which ends the process: nothing recovers a panic in that
goroutine, while net/http recovers those of handlers).

The environment: connections may break (`Drop`), peers may fall silent with
their socket established (`FallSilent`: a closed lid) and wake or abandon it, a
provider redials, answers on whatever socket it has, and sends a terminal event
once per request. A silent peer's socket takes no writes; in truth it takes some
into kernel buffers, which differs only in which requests a full queue refuses.
Payloads, streaming format, token counts, encryption are abstracted: streaming
and buffered responses end alike and are one handler. `accepted` frames are
chunks.

A write to the caller takes as long as the caller lets it:
`cmd/coordinator/main.go` sets `ReadHeaderTimeout` and no other, and while a
handler is in `writeChunk` (`gateway.go:473-482`) it looks at none of the cases
of its `select`, the 120 s timer included. So a step that writes may leave the
handler `writing`, or `answering` once the last event is in and `Resolve` has
not run; `Written` and `Answered` are the caller's steps and have no fairness.
The first chunk of a stream, before the loop, is held in `SendEnqueue`.

Times are ticks since, or until: a record's age and cooldown are relative to
now, so the clock needs no bound. `Age` is a step of one node's record because
no comparison relates two nodes' times.

Three constants say how bad the environment may be, because which properties
hold depends on it:

- `Silence`: may a peer fall silent? If not, nobody goes stale.
- `Overlap`: may a node redial while its last handler still runs?
- `SlowClient`: may a caller read slowly, or stop, so that a write to it holds
  its handler and the event channel fills up?

An environment without the three is called orderly.

### Settlement

A transaction takes effect at its commit; row locks taken by its upserts are
held from then on; statements see what is committed when they run. Consecutive
statements that no other transaction can tell apart are one step. The account
rows are locked by the upsert of `ensureAccountTx` (it is an `ON CONFLICT DO
UPDATE`), the node's row by that of `BindNode`. `NodeOwner` runs outside the
transaction on a second pool connection. `Abort` stands for a failed statement,
the 5 s context and the death of the process. Every accounting row is an element
of a set; `ON CONFLICT DO NOTHING` is the rule that no two have account, type
and reference in common. Outcomes of requests (who called, how it ended, bytes
generated, what the provider reported) are a constant set; prices are constants,
since a price is read once per request.

### DeviceLogin

A poll draws its token before it knows whether it may issue it, so polls name
tokens. `RedeemDeviceCode` is `RedeemRefused` (an early return, once the row can
be read: `SELECT ... FOR UPDATE` waits) or `RedeemLock` and then `RedeemCommit`
or `RedeemAbort`; a lost acknowledgement of the commit is an error answer of a
login that is consumed. A failing `BEGIN` or update is answered as an error
(`TurnAway`, `RedeemAbort`); a failing `SELECT` is answered `invalid_grant`,
whatever failed (`ReadFails`, `store/postgres.go:609-611`), which ends the
login. The login command waits for one answer at a time; `PollThrows` is a
timeout or a lost connection, after which the handler may still run,
`SaveThrows` a failing write, before or after the file is replaced. A poll's
place is free again when its handler is done without a token, so the number of
polls is unbounded and two of one login may be in flight. `Linked` saves and, if
the service is installed, restarts the daemon in the same step. `DaemonStart` is
`main.swift`, which hands the saved token over as the explicit override;
`Presented` is what `connectAndRegister` makes of it. A registration is
`ResolveToken` then `BindNode` or `BindFails`, one at a time per Mac; the sweep
of `BindNode` is in `Settlement`. `told`, `removals` and `unread` (the logins
with a poll whose row could not be read) are history, for the properties. Not
modelled: `--token` and `--enroll-code` given by hand (the latter binds without
a token), clock skew between coordinator and database.

### Accounts

Three parties use the accounts. A webhook of Dodo's is `CheckPayment` (the
`SELECT` that finds duplicates) and `CreditPayment` (the rest of the
transaction: its `INSERT` waits for a concurrent one of the same payment and
fails on the duplicate); `FailWebhook` is an abort or a crash, `Redeliver`
Dodo's retry.

A request first takes tokens (`Allow`, one step under the limiter's lock), then
passes the balance (`Admit`, which blocks below `-MinCharge`, or
`AdmitUnchecked`, since the guard lets through when the balance cannot be read),
and is charged when it is over: `Finish` charges an amount, or nothing when the
settlement fails; how the amount comes about and how it is settled is in
`Settlement`. The code counts fractions of a token against a clock in seconds;
the model counts units of which a request costs `Cost` and a tick refills
`Rate`, so a rate that is no whole number of requests per tick is expressible.
Every key of a developer shares one bucket; all admin keys share the bucket
"admin" (user ids are opaque here, so it is one of them). Nothing bounds how
long a request lasts: the server reads a body for as long as it comes in
(`gateway.go:177`), and a stream waits for as long as its caller does not read.
So `Tick` waits for nobody, the limiter does not bound how many requests of a
developer overlap, and the overdraft is stated by what did overlap: `peak` is
history, the most that were ever between the guard and their end at the same
time. Idle times and ages are counted up to where nothing depends on them;
`Span` bounds the spans of time over which the limiter is looked at.

`RequestPayout` compares nothing with the earnings, as only the console's page
does; `ApprovePayout` is `MarkPayout`, which has no guard on the status, so what
is paid may be approved again and then marked as paid again. A call of
`SettlePayout` is `ReadPayout` (the status, without a lock, and the early
return), `InsertDebit` (`ON CONFLICT DO NOTHING`: it waits for the transaction
that has inserted the same key, and inserts nothing beside a committed one) and
`CommitPayout`, with the update of the status; `SettlePayoutFails` rolls it back
anywhere. `debits` counts the ledger's debits of a payout, `told` is history:
the payouts an admin was told are paid. The fairness is for webhooks: Dodo sends
a failed one again, and not every attempt of a transaction aborts.

### ProviderClient

One step is what `stateQueue` serialises, or what one thread does between two
visits to it. The thread of `run` is `Dial`, `SendRegister`, one of
`RegisterOK`, `RegisterDenied` (which exits the process) and `RegisterThrows`,
`WaitReturns` (of `connGroup.wait`), `CancelAll` and round again. The chain of
receive callbacks is `ReceiveRequest` with `NoteInflight` (`serve` creates the
Task before it puts it into `inflight`, and the Task may even finish in
between), `ReceiveCancel` and `ReceiveFails`, the teardown. A Task is
`runInference`: `Accept`, `Delta` and `SendChunk` (the check of
`Task.isCancelled` and the send are apart), then `EndOfText`, `StopEarly` or
`GenerateThrows`, how that is told, and `Finish`. A teardown is `ClearSocket`
(inside `stateQueue`), `StopHeartbeat` and `LeaveGroup`, which Tasks and timer
handlers see apart; only one caller passes the test of `tornDown`.

The heartbeat timer fires on a queue of its own: `BeatStarts` begins a handler,
`BeatSends` sends over whatever socket there is by then. Cancelling a timer does
not stop a handler that runs; it becomes one of the `late` (`TimerStopped`) and
sends when it sends (`LateBeatSends`), perhaps over the next connection, before
its register frame. `LateBeats` bounds how many there are at once.

`ws` is assigned in `connectAndRegister` outside `stateQueue`
(`ProviderClient.swift:100`) while Tasks of an earlier connection read it. Such
a read sees the old value, `nil`, or the new socket, and the two are the orders
of `Dial` and the Task's step. That assignment precedes the register frame, so a
Task or a late handler may be first on a new socket; `first` keeps what was, and
`RegisterOK` needs it to be the register. A send is modelled up to the socket:
what happens to a frame on its way is `Drop` and silence in `Hub`.

Left out: times (backoff, the 10 s to register, the 5 s of a heartbeat: what
they end may end at any time), the contents of frames, the loading of the model.
`FailedDials` bounds how many registrations throw before the first teardown of a
later one; `entered`, which they leave raised, grows with them.

`ProviderContract` is the assumption that the environment actions of `Hub`
(`ReadChunk`, `ReadTerminal` over the provider's `jobs`) make of a provider:
requests are taken once over a live connection; of each, events are told in
order, over some connection, and none after the terminal one.
`ImplementsProvider` says the process keeps it. The two models meet there and
are not composed: a composed instance large enough for reconnects is out of
TLC's reach.

## 3. Runs

Bounds are small on purpose and each is there for what it makes happen: two
connections of one node are what a reconnect needs, two requests what competing
for a queue place needs, an `OutCap` of 1 makes full queues common, an
`EventCap` of 1 to 3 full channels. `StaleAfter = 0` lets a node go stale after
one tick without a heartbeat.

| Run | Instance | Shows |
|---|---|---|
| `dispatch_orderly` | 1 node, 2 connections, 2 requests that compete for one place in the queue, orderly, fair, no timer | types; no waiting request is forgotten; a provider that is read from is listed everywhere; no channel is closed twice or found closed; the failure of a connection ends its requests |
| `dispatch_any` | 1 node, 2 connections, 1 request, everything goes wrong | the hub's map names live handlers only; event channels exist exactly while handlers run; the handler implements `RequestContract` |
| `dispatch_any_live` | as above without overlap, fair, with the timer | every request ends unless its caller stops reading for ever in the middle of a write, every broken connection's handler returns, unless the process dies |
| `scheduler` | 2 nodes (one steady), 2 callers, charges 1 and 3 | counters are the open reservations; nobody queues beside an idle node; a failed node rests |
| `settlement` | 2 requests on 1 node, 2 registrations of one owner, pool of 3 | settlement is atomic and exact, escrow covers its debts, earnings are conserved, inflated counts are not believed, no settlement waits for ever |
| `device_login` | 2 logins on 1 Mac, 2 overlapping polls of the first, 2 users | one token per login, for whom the console told; saved tokens exist; a login fails only for a reason; a removed Mac does not return with the token it had |
| `accounts` | 1 payment with 2 webhooks at once, 2 requests of one bucket that holds one, refilled for a third of one a tick, spans up to 2 ticks, 1 payout with 2 admins | a deposit is credited once, and acknowledged only then; no span lets through more than the bucket promises; the overdraft is what was pending together; a payout is debited once, and before anybody calls it paid |
| `provider_client` | 2 requests, any number of connections, 1 failed dial, 1 late handler of a timer at a time | the depth reported is the work; a lost connection's work is cancelled before the process offers itself again; its timer is on while it serves, and off before it dials again; cancelled work ends; a lost connection is noticed; the process implements `ProviderContract` |

Deadlock is not checked in the `dispatch`, `settlement`, `device_login`,
`accounts` and `provider_client` instances: each connection is dialled at most
once, each request, login and marking made once, and a provider with a wrong
join code exits, so a run of the system in them does stop. Tokens and ticks of
`accounts` are small numbers with the case that matters: the bucket is full,
empty and in between, the second request has to wait for its token, and may pass
the guard while the first is still pending, or after it was charged. The larger
instances are the theorems `RateHolds` and `OverdraftsAreBounded`.

Runs that must find a violation. Each quotes a comment of the code that says
otherwise:

| Run | Property | What happens |
|---|---|---|
| `v_sweeper_crash` | `SweeperSurvives` | `CloseNode` closes a channel that a `disconnect` or an earlier sweep closed after the lookup; the process dies |
| `v_reconnect_unlisted` | `LiveIsListed` | a provider redials before its old handler has noticed; that handler's `disconnect` unregisters the new connection |
| `v_double_sweep` | `NothingFromNothing` | a node swept to one user is bound to another: escrow's debit is dropped as a duplicate, the new owner's credit is not |
| `v_provider_hangs` | `Reconnects` | a dial fails after it entered `connGroup`; a later connection is lost and leaves the group once, the count stays above zero, and `run` waits for ever |

Divergences seen in the same models for which no run is kept: as many
settlements as the pool has connections each hold one and wait for a second, for
`NodeOwner`, until their context ends (`store/postgres.go:225`, `SettlementsEnd`
with a `PoolSize` of the number of requests); the sweeper closes the queue of a
silent node but leaves it in `Hub.conns`, so that `disconnect` panics on closing
it again and the requests it should fail wait for the 120 s timer
(`server/hub.go:255`, `NoLostWaiter` with `Silence`); a request that never
reached a provider is charged the minimum, since an estimate is never zero
(`gateway.go:315-316`, theorem `ChargeHasAFloor`); a removal during a
registration is undone by it (`hub.go:102-103`); a daemon that was started with
a saved token presents that one for ever, since `main.swift:193` passes it as
the override, though `ProviderClient.swift:22-24` says a login takes effect on
the next reconnect; `Send` may panic on a channel closed after its lookup
(`server/hub.go:236`; the caller's connection is cut: `SendPanics`); a swept
provider that wakes stays connected but cannot be scheduled again
(`hub.go:149-157`, `209`); a reconnect replaces the in-flight set and orphans
what it held (`hub.go:130`); `Deliver` drops terminal events of a full channel
(`router.go:46`); nothing in the coordinator calls `Release`, so depths only
grow (`registry/scheduler.go:53`); a reconnect clears a cooldown
(`registry/registry.go:83`); a caller that leaves cancels its own metering
(`gateway.go:294`); a sweep marks rows that arrived after its sum, and a second
sweep of a node to the same owner marks rows whose money stays in escrow
(`store/postgres.go:481-505`); a caller that stops reading holds its handler
past the 120 s timer (`gateway.go:473-482`, `main.go:64-68`: `HeldUp` in
`RequestsEnd`); so the limiter (`ratelimit.go`) bounds how often requests start,
not how many overlap, hence not what they overdraw together; the balance guard
blocks below `-MinCharge`, not below zero as `gateway.go:200` says, and lets
through when the balance cannot be read; approving a paid payout, from a page
that is old, moves it back to approved (`MarkPayout`, `ApprovePayout`), though
its debit stays; a failing read of a login's row is answered as an unknown code,
for which the login command gives up, though its code was approved
(`store/postgres.go:609-611`: `unread`); an approved code that runs out before
it is redeemed fails too (`store/postgres.go:615`); a Mac that logged in twice
is removed, which revokes the token that bound it, and its other token binds it
again (`store/postgres.go:546`, `console.go:474-475`: `RemovedStaysOut` of
`DeviceLogin`); a Task of a lost connection, or a handler of its stopped timer,
may send on a new socket before the register frame, and the coordinator refuses
a socket whose first frame is another (`ProviderClient.swift:100`, `hub.go:68`:
`first` of `ProviderClient`); a cancelled generation reports
`inference_complete` like one that ended (`StopEarly`); a Task that finishes
before `serve` has put it into `inflight` leaves a stale entry there
(`NoteInflight` after `Finish`), which a later cancel finds and nothing else
reads; the socket of a registration that timed out is left open;
`AccountBalance` without an owner sums all accounts of its kind; the comment at
`ratelimit.go:63` exempts admin keys, which share the bucket "admin". Outside
the models: the process's completion frame counts tokens at its top level where
the coordinator reads `usage`, and its register frame carries no public key, so
no payload is ever sealed.

Fairness. `FairSpec` in `Dispatch` gives weak fairness to every step of a
goroutine that is runnable by itself (handlers, teardown, sweeper, gateway): the
Go scheduler runs runnable goroutines, and mutexes are held for bounded work. It
gives none to the network, to providers or to callers, whose writes may be held
for ever. `TimerSpec` adds the 120 s timer, with strong fairness: it is looked
at only between two writes, but once fired it stays ready, and `select` picks at
random among the cases that are. In `Settlement`, lock waits and pool waits end
once what is waited for is free again and again (strong fairness per
transaction: PostgreSQL and pgxpool queue waiters); nothing relies on the 5 s
timer. In `Accounts`, the steps of a webhook are strongly fair, as an attempt
may fail any number of times but not every time, and a failed webhook is sent
again. In `ProviderClient`, threads and Tasks that can run do, and a failing
receive calls back (weak fairness of `RunStep`, `ChainStep`, `TaskStep`);
nothing is assumed of the network, of the coordinator, or of how long a
generation that nobody cancels goes on. `dispatch_orderly` uses `FairSpec`
without the timer, `dispatch_any_live` needs `TimerSpec`: with silent peers and
slow callers only the timer ends a request, and it ends none whose caller stops
reading, which `RequestsEnd` excepts. In `ProviderClient` the steps of a
teardown are among `ChainStep`; timer handlers have no fairness.

Each property of a passing run has a mutant: a plausible bug, defined beside the
definition it replaces, that makes the run fail.

## 4. Proofs

All invariants and all step properties of the passing runs are proved, each
under its own heading below. What is left to TLC is liveness.

`DispatchProofs`, for every set of nodes, connections, requests and models,
every capacity and every environment:

- `TypeCorrect`: `TypeOK` is inductive by itself. One lemma per layer
  (`RegistryTypes`, `RouterTypes`, `HandlerTypes`, `PeerTypes`, `SweeperTypes`,
  `GatewayTypes`).
- `ConnsStayLive`: `TypeOK /\ ConnsLive` is inductive; only `Attach` and
  `Detach` write `conns`, and a handler leaves its live states by `Detach`.
- `RoutedExactlyWhileHandled`: the hub never changes `routed` (`HubFrame`); each
  gateway action changes it exactly when it enters or leaves the handler.

- `DispatchRefines` (`ImplementsContract`), below.

The refinement, too in any environment, needs an invariant, `ContractInv`, since
the contract sees a request where its queues and jobs are: `OneCopy` (a request
is in one place at most: a queue or a provider's work), `EndsTold` (one that was
never sent is in none, and its completion is in the pipeline only once it is in
none; so success comes after the work) and `LocalsOK` (what a handler's locals
are by where it is). `GatewayPlaces`, `PumpWork` and `EndWork` say what the
steps do to places and work, `CompletedComes` where a completion comes from,
`WaysThrough` what steps of a handler do to its locals; `HubSimulates` and
`GatewaySimulates` put them together.

What a behaviour of the contract cannot do, the system then cannot do either
(`ContractMoves`):

- `WorkedOnOnce`: work on a request begins once and ends once, and a handler's
  answer is final. Of `Dispatch` itself this would take an invariant over jobs,
  queues and pipelines; of the contract it is one look at each of its actions.
- `NoWorkIsLeft`: a request lies in one place at most, and in none once its
  caller was refused or has succeeded. The mapping shows the contract no work of
  a refused request, so the refinement alone does not say this; together with
  `ContractInv` it is stated of the queues and jobs themselves.

`OrderlyProofs`, assuming `~Silence` and allowing everything else:

- `TeardownIsSafe`, `ListedConnsAreOpen`: neither is inductive. `TeardownInv`
  adds that nobody goes stale (`NeverSwept`), hence that the sweeper touches
  nothing, and that a channel is owned (`ClosedOnce`): it is in `Hub.conns`, or
  in the local variable of one `disconnect`, or closed, never two of these.
  `v_sweeper_crash` shows why `~Silence` is needed.

`OrderlyProofs` again, assuming `~Silence` and `~Overlap`:

- `LiveConnsAreListed` (`LiveIsListed`): a node has one handler at a time
  (`OneHandler`), and the registry and `Hub.conns` follow where it is
  (`TablesFollow`). `v_reconnect_unlisted` shows why `~Overlap` is needed.
- `NobodyIsForgotten` (`NoLostWaiter`), assuming `~SlowClient` as well, from
  `OrderlyInv`: a channel without a terminal event has room for one
  (`RoomKept`), so none is dropped; and from the moment `Send` notes a request,
  its teardown knows of it or its end is under way (`WaiterKept`, which is
  `NoLostWaiter` one step earlier). The proof takes one lemma per party:
  `HandlerKeeps`, `PeerKeeps`, `GatewayKeeps`.

`SchedulerProofs`, for any nodes, models, callers, charges and cooldown, with
one lemma per registry operation on what it does to a record (`RegisterEffect`,
`ReserveEffect`, ...):

- `IdleNodesServeFirst` (`NoQueueBesideIdle`): an action property, from `TypeOK`
  alone.
- `FailedNodesRest` (`FailedNodeRests`): from `RestInv`, by which the cooldown
  of a steady node outlasts what the property remembers of its failure.
- `NodesNeverOverbooked` (`NeverOverbooked`), `AccountingIsExact`
  (`ExactAccounting`): from `CountInv`, in which the two are joined by what a
  registration starts from: a record that is not in the table counts nothing.
  `TakeCounts` and `GiveCounts` say what a reservation and a release do to the
  number and the sum of what is held on a node, the `...Counts` lemmas what the
  registry's operations do to its counters.

`SumProofs`: what `SumFunctionOnSet` of the community modules computes. It is a
fold, defined by a choice of a recursive function, so the first lemma is that
there is one (`SumsExist`), the second that it does not matter which
(`SumsAgree`). Then: a sum may be taken apart at any member (`SumTake`), adds up
over disjoint sets (`SumUnion`), grows with its summands and with its set
(`SumMonotone`, `SumSubset`). The library's induction theorem for finite sets
takes an operator, which the provers cannot instantiate; each of these is
instead proved by a smallest counterexample: inclusion of the subsets of a
finite set is well-founded (`SmallestSubset`), the smallest set for which the
lemma fails is not empty, and without one of its members it holds.

`SettlementProofs`, for every price, fee, set of outcomes and of bindings:

- `ChargeHasAFloor`, `SplitIsExact`, `BilledIsNear`: of the pricing operators.
- `ReportsCannotInflate`: from `BilledIsNear` and the monotonicity of the charge
  (`GrossGrows`, which rests on integer division: `Division`, `DivisionGrows`,
  `CeilDivGrows`).
- `SettlementTypes`, `AbandonedIsUncharged` (`UnsettledIsUncharged`),
  `EverySettlementIsComplete` (`SettledInFull`), `SettledOnce`: from one
  invariant, `Books`. The ledger is finite, a usage row is marked exactly when
  its request has settled, requests without the mark have no entry, and those
  with it have exactly the entries of `Settlement`. So none of the keys a
  settlement inserts is taken (`SettleWrites`), nothing but a settlement and a
  sweep writes (`OnlyTheyWrite`), and a sweep writes in the name of a node
  (`SweepKeepsBooks`). `SettlementBalances` adds the entries up. Even the types
  need `Books`: a sum that is put into a local variable is a number only if it
  is over a finite set.
- `EscrowIsSolvent` (`EscrowCovers`): not inductive. `EscrowInv` adds what each
  binding under way may rely on: it has its node's row, and what it summed is at
  most what the node is owed by now. Settlements only add to both sides
  (`SettleKeepsEscrow`); a sweep takes at most its sum, and marks all that is
  owed to its node, which is at least that sum (`SweepKeepsEscrow`); no second
  sweep of the node runs meanwhile, since the row is locked
  (`QuietKeepsEscrow`).
- `NothingIsLost`, `EarningsAreExact` (`EarningsConserved`): `EarningsInv` says
  that whatever account a node has been swept into, it has been swept out of
  escrow; so a sweep that debits escrow finds the other key free too, and
  nothing is lost, whoever binds the node. That nothing is made needs the
  converse (`PairedInv`), which holds where a node's registrations have one
  owner: `OneOwnerPerNode` is a hypothesis of `EarningsAreExact`, and
  `v_double_sweep` shows why.
- `NoCycleOfWaiters` (`LocksAreOrdered`): whoever waits for a row waits for a
  transaction with more `Progress` than itself, so there is no cycle of waiters,
  of any length. `LockInv` says which rows a transaction can have locked by
  when.
- `OnlyPoolDeadlock`: the pool is the one thing left to wait for. It is never
  overdrawn (`PoolKept`), and some settlement or binding can go on
  (`OnlyThePoolStalls`), unless nothing is under way or all connections are
  taken, by settlements that ask for a second one and by what waits for their
  rows. For if a connection is free, the transaction with the most `Progress`
  can take its next step (`Furthest`); if none is, one of the holders waits for
  no connection, or all do (`StallsOfThePool`). The exception is real: with a
  `PoolSize` of 2, TLC reaches it.
- `LedgerBalances` (`DoubleEntry`): over all accounts, the ledger sums to what
  the requests on the house granted (charged to nobody, credited all the same),
  through aborts and sweeps. A settlement adds its balance (`SettleBalances`),
  and a sweep nothing: it debits what it credits, or does neither (`SweepAdds`,
  with the keys paired by `PairedInv`, hence `OneOwnerPerNode` here too).

`DeviceLoginProofs`, for any number of logins, polls, Macs and users, from one
inductive invariant `LoginInv` (checked with TLC on the instance of
`device_login` before it was proved), its parts by what they are about:

- `RowInv` (`RedeemsOnce`, `ApproverKeepsMac`): a poll that is redeeming has the
  row, and nobody has redeemed the login; an issued token is the approver's and
  has consumed its login. So a second poll finds the login consumed.
- `TokenInv` (`SavedTokensExist`): a token is answered only once it is issued.
- `RemovalInv` (`RemovedTokensStayDead`): the token of a removal is revoked and
  no registration carries it.
- `FailureInv` (`LoginsFailForAReason`): a poll nobody waits for was missed,
  what was redeemed is on its way to the command or was missed, and a code is
  called invalid only if it was redeemed or its row could not be read.
- `OwnersHaveApproved` (`OwnerHasApproved`): a node's owner has approved a login
  on that very Mac. `LoginInv` follows a token from the login to its row;
  `TokensStayHome` follows it on, through the file of the Mac, the process
  started from it and the registration, to the binding.

`AccountsProofs`, for any number of payments, webhooks, requests and payouts:

- `AccountsTypes`: `TypeOK` is inductive.
- `RateHolds` (`WithinRate`): not inductive. `LimitInv` adds what is left: what
  was taken in a span and what a request would find in the bucket are within the
  burst and the span's refill. `Allow` moves `Cost` from the one to the other
  (`LimitAllow`), a tick adds `Rate` at most and turns a span into one a tick
  longer (`LimitTick`); `Products` and `ProductsGrow` are the arithmetic.
- `OverdraftsAreBounded` (`OverdraftBounded`): not inductive, since the guard
  lets several requests through before the first is charged. `OverdraftInv`
  charges each at the guard: the balance less the dearest charge for every
  request that is `Pending` is within the bound already. `Admit` needs that the
  balance was above the guard's margin and that `peak` counts the new one
  (`CoveredAdmit`); `Finish` turns a pending charge into a real one that is no
  higher (`CoveredFinish`); deposits only help (`CoveredKept`).
- `DepositsAreAtomic` (`AcknowledgedIsCredited`): inductive together with
  `TypeOK`. Every action leaves the other parties' variables alone, so the proof
  looks at one party.
- `PayoutsLeaveOnce` (`PaidOnce`): not inductive. `PayoutInv` adds what the
  calls under way rely on: at most one has entered a payout's debit, and then
  none is committed; one that skipped the insertion has found the debit there.

`ProviderProofs`, for any number of requests, failed dials and late handlers:

- `ProviderTypes`, `HeartbeatsFollowConnection` (`BeatsWhileServing`): `TypeOK`
  with `LinkInv`: from its dial to its teardown a connection has a socket and is
  counted in `connGroup`, and a request is being started only in between. The
  timer is on without a socket only where a teardown has yet to stop it, and
  until that has left the group `run` does not go on.
- `CancelsArrive`, `OldWorkDies` (`OldWorkIsCancelled`): from `WorkInv`. What
  the chain took was noted before that chain could tear down, so
  `cancelAllInflight` finds it, and a process that is asleep has cancelled all
  its work.
- `DepthCounts` (`DepthIsWork`): each step changes `queueDepth` by what it
  changes the set of Tasks.
- `ProviderRefines` (`ImplementsProvider`): the refinement, from `ToldInv`, by
  which a Task's place tells what it may still say. Every step is one of the
  contract's or a stutter (`LinkChanges`, `TaskTells`, `ContractStep`).
- `EventsComeInOrder` (`SaysInOrder`): the provider speaks of a request only on
  a connection and while it works on it, says chunks after it accepted, and
  nothing after a completion or an error. Like `WorkedOnOnce`, read off the
  contract's actions (`ContractOrder`).

Assumed: the named `ASSUME`s of the modules, which every run evaluates, and
nothing else; the conditions `~Silence`, `~Overlap`, `~SlowClient` and
`OneOwnerPerNode` stand in the theorems that need them.

Model-checked only: liveness (`FailurePropagates`, `RequestsEnd`,
`TeardownEnds`, `SettlementsEnd`, `DepositsArrive`, `CancelledWorkEnds`,
`LossIsNoticed`), which rests on fairness, hence on `ENABLED`, and the prover
has no rules for it. Of `SettlementsEnd` the safety half is proved: no cycle of
waiters for rows (`NoCycleOfWaiters`), and no halt but that of an exhausted pool
(`OnlyPoolDeadlock`), which the `PoolSize` of its run excludes.

## 5. Plan

1. Done: Registry, Router, Hub, Dispatch, RequestContract, Scheduler, Pricing,
   Settlement, with their proofs; `NoLostWaiter` and `LiveIsListed` under the
   orderly environment; the scheduler's choice and cooldown.
2. Done: DeviceLogin, with its proofs.
3. Done: Accounts (deposits, rate limit, balance guard, payouts), with its
   proofs.
4. Done: ProviderClient, ProviderContract and the refinement between them, with
   proofs.
5. Done: the step simulation of `RequestContract`; the sums (counters of the
   scheduler, overdraft, ledger, escrow), on the lemmas of `SumProofs`; what the
   contracts rule out, read back on the systems; the balance of the whole
   ledger; the pool as the only cause of a standstill. Left: a terminal event's
   way from the Task of `ProviderClient` through a composed `Hub`, for one
   request.
6. Left: console sessions and API keys (a revoked one resolves to nobody).

Not modelled:

- `MemoryBilling`: sequential maps under one lock, for development and tests
  (its own comment: never where money is real). Idempotence of the same
  operations is checked where it is hard, with transactions.
- The rest of the console API: each handler is a session check and one SQL
  statement, atomic by itself; a model would restate the `WHERE` clauses.
- The canary loop: an ordinary request whose outcome no decision reads.
- End-to-end sealing and wire formats: data; control depends on message kinds.
- The OpenRouter listing, the dashboard, the console UI, the fake provider,
  scripts and deployment: no state of the system, or a load generator for tests.
