# TLA+ models of the AI gateway

A verification development of the gateway in `ai-gateway/` and of the load
balancing crates in `crates/`: TLA+ modules translated from the source, TLC
configurations that check them on small instances, and TLAPS proofs of theorems
that hold for every value of the constants. `PROJECT.json` is the index: the
components, the runs, the source lines each definition models, the hazards, the
findings and the theorems.

Paths below are relative to `src/ai-gateway/src/` unless they start with `crates/`.

## 1. Inventory

The gateway is one tokio process (several may share a Redis and a Postgres). A
request passes an axum/tower stack — admission limits, authentication, workspace
limits, request context, caches, logging —, then a router picks a provider service
and its dispatcher calls the upstream. Background services run beside the request
path under one supervisor (`meltdown`): when one of them ends with an error, the
whole process shuts down.

| Component | State | Operations | Interacts with | What is hard | Correct when | Module |
|---|---|---|---|---|---|---|
| Policy router, balancers (`router/`, `crates/weighted-balance`, `crates/latency-router`) | ready services of each endpoint type, a bounded `Change` channel | poll, apply a change, pick, call | receives changes of both monitors | changes are applied only while a request polls | every provider nobody holds out can be picked; a waiting request is served | `ProviderFailover` |
| Rate limit monitor (`discover/monitor/rate_limit`) | limited keys, restore timers, event channel | receive a 429 event, remove, restore | dispatcher (events), balancer (changes) | sends block on a full channel; duplicates; an error ends the process | a limited key is out until its timer, then back, once | `ProviderFailover` |
| Health monitor (`discover/monitor/health`) | unhealthy keys | periodic check of all routers, remove, insert | metrics, balancers | edits the balancers without knowing of the rate limit monitor; one blocked send stops all | removed providers return when healthy | `ProviderFailover` |
| Health metrics (`metrics/rolling_counter.rs`) | ring of atomic buckets and laps | incr, total | dispatcher, health monitor | the reset of a bucket races with increments and totals | no event counted twice or beyond its lap | `RollingCounter` |
| Dispatcher (`dispatcher/`), LLM cache (`crates/alephant-llm-kv-cache`) | attempts, learned region, buckets of cached responses, tap of the body | retry, regional retry, fallback, 429 signal, read and save | balancer, monitors, cache | what is repeated after a partial answer; a body cut short | no repetition of what may have been done; an entry is one response | `Dispatcher` |
| Database listener (`store/db_listener.rs`), key caches (`store/master_key_cache.rs`, `app_state.rs`) | poll cursor, last seen rows, caches | poll three tables, retry, miss, fill, invalidate | authentication, catalog | reads, fills and cursor overlap updates; steps fail separately | an update reaches the caches; a revoked key is not served for ever | `DatabaseListener` |
| Provider catalog (`discover/router/provider_db.rs`, `store/db_listener.rs`) | providers, models, fingerprint baseline | boot, probe, reload | router, listener | three queries, each may fail, updates in between | the catalog catches up, never regresses | `ProviderCatalog` |
| In-flight limit (`middleware/gateway_in_flight_limit`, `counted_body.rs`) | counter in Redis, counter in memory, slot of each body | acquire, release, fall back, ping | AppRedis | cancellation at any await, lost replies, crashes, change of the backend | at most the maximum in flight, no slot lost or given back twice | `InFlightLimit` |
| Workspace concurrency (`middleware/workspace_concurrency`) | Redis counter per workspace | INCR, DECR, EXPIRE | AppRedis, CountedBody | as above; the key expires under its requests | the count is what is under way and what leaked | `WorkspaceConcurrency` |
| Client address limit (`middleware/client_ip_rate_limit`) | sorted sets in Redis, queues in memory | count, evict, fall back, ping | AppRedis | switch of the backend, lost answers, full table | at most the limit in any window of a backend | `ClientIpLimit` |
| Identity limit (`middleware/identity_rate_limit.rs`) | window in Redis or memory | count, clean up | AppRedis | edge of the window, answer after the timeout, key without expiry | the cap, a true `retry_after`, a window that ends | `IdentityLimit` |
| Authentication, unified router, default models, policy (`middleware/auth.rs`, `router/unified_*`, `default_model/`, `content_filter/`) | none of its own | check the key, choose provider and model, filter, allow, send | key caches, policy service, catalog | rows change between the stage that read them and the one that uses them | what is sent names a cleared model with a fitting secret | `Admission` |
| MCP sessions (`agent/tools/mcp_streamable_http*`) | cached session, lock in Redis, flight in the process | load, initialize, call, expire, delete | agent tools | concurrent first calls, expiry during a call, lost replies, dropped futures | a tool runs at most once per call, the answer is true | `McpSessions` |
| Agent tools (`agent/tools`) | permits per workspace, audit events | check, record, call, settle | MCP sessions, policy, event log | failure after the tool ran; disconnect at any await | no execution without clearance, truthful billing, a closed trail | `AgentToolCall`, `EventLog` |
| Agent events (`agent/service.rs`, `agent/step_state.rs`) | claims of steps in Redis | claim, compare, send | event log | batches of one run interleave; claims expire | a step has one fingerprint; a batch is logged as a prefix | `AgentEvents`, `EventLog` |
| Observer of tool calls (`agent/tool_observer.rs`) | drafts and their aliases | merge a delta, complete | request logger | interleaved calls, names that come late, limits | a complete call is what the model asked for | `ChatToolObserver` |
| Protocol bridges (`ide_adapation/cursor_responses_openrouter_bridge.rs`, `unified_responses_chat_compat.rs`) | items announced, arguments gathered | rewrite one event | client, provider | any order of chunks, end by error | order and wholeness of what the client reads | `ResponsesBridge`, `ChatBridge` |
| x402 payments (`x402/`) | payment rpc, upstream call, log | policy, settle, sign, forward, record | payment service, upstream | error, timeout, disconnect or stop between payment and answer | served only if paid, charged only if served or accounted for | `X402Payment`, `PaidDelivery` |
| Request logger (`logger/`) | emitted flag, degraded flag | collect, store, send, observe | object store, Redis stream, HTTP | every sink fails separately | one record per request, consistent with its objects and events | `RequestLog` |
| Semantic cache, mappers, configuration, telemetry, test support | none that another part decides on | convert, search, record | – | formats, embeddings | – | – |

## 2. Plan and state

Done, in the order of importance: `ProviderFailover`, `DatabaseListener`,
`ProviderCatalog`, `InFlightLimit`, `X402Payment` with the abstract
`PaidDelivery`, `Dispatcher`, `McpSessions`, `AgentToolCall`, `AgentEvents`,
`ChatToolObserver`, `Admission`, `ClientIpLimit`, `IdentityLimit`,
`WorkspaceConcurrency`, `RequestLog`, the two bridges, `RollingCounter`. Every safety
property that a passing run checks is also proved.

Left:

- refinements that would be worth stating: a slot pool (acquire, release, lose) that
  `InFlightLimit` and `WorkspaceConcurrency` implement, and a versioned cell with a
  monotonic reader that `ProviderCatalog` implements;
- the health ratio over two `RollingCounter`s in place of the free choice of
  `healthy` in `ProviderFailover`;
- the NOTIFY handlers and the reconnection of the database listener.

### Modules and runs

Each component has a module, and `MC*` modules hold the instances. The theorems are
in the `*Proofs` modules:

| Module | Theorems about |
|---|---|
| `ProviderFailoverProofs`, `ProviderCatalogProofs` | the components of these names |
| `EventLogProofs` | lemmas: what sending an event may come to |
| `RequestsProofs` | in-flight slots, dispatcher and cache, x402, agent tools, tool observer; `MCRequests` |
| `GatewayProofs` | both bridges; `MCGateway` |
| `AccountingProofs` | request log; workspace, identity and address limits; health counters |
| `AgentProofs` | MCP sessions, agent events; `MCAgent` |
| `KeysProofs` | database listener, admission; `MCKeys` |

Five MC modules hold several components: `MCRequests`, `MCProgress`,
`MCAgent`, `MCKeys` and `MCGateway` have a variable `part` that names the component
that runs; the others rest in one initial state each. The components in one instance
share no variables, so nothing is lost by not interleaving them, and every
component is explored in full. `CHECK_DEADLOCK FALSE` stands where components come
to rest: their requests are finite in number and end. TLC counts such a run by its
parts, not by their actions; the counts it gives for single expressions show that
every action of every part is taken.

| Run | Components | Properties |
|---|---|---|
| `requests_safety` | in-flight slots, dispatcher, balancer of models, x402, agent tools, tool observer | `RequestsTypeOK`, `SlotsAccounted`, `RejectedOnlyWhenFull`, `CacheIsTrue`, `NotReplayed`, `NoKeyLost`, `PaymentsBalance`, `KeepsPromise`, `ToolCallsBalance`, `CallsPutTogether` |
| `gateway_safety` | balancer of providers, address, identity and workspace limits, both bridges, request log, health counters | `GatewayTypeOK`, `ProvidersKept`, `IpLimitHolds`, `IdentityLimitHolds`, `WindowNotExtended`, `CountAccounted`, `EventsInOrder`, `ChunksTrue`, `RecordsAgree`, `CountsTrue` |
| `agent_live` | MCP sessions, agent events | `AgentTypeOK`, `McpCallsTrue`, `OneInitializer`, `BatchesAgree`, `McpCallEnds`, `BatchEnds` |
| `progress_live` | x402, agent tools, dispatcher, in-flight slots, catalog | `RequestAnswered`, `ToolCallEnds`, `DispatchCompletes`, `SlotsComeBack`, `CatalogNeverRegresses`, `CatalogCatchesUp` |
| `failover_live` | failover of two routers | `RequestServed`, `BusyRouterIsChecked`, `LimitedKeyReturns` |
| `keys_safety` | database listener, admission | `QuietUpdateSeen`, `AllowlistUpdateSeen`, `SentIsAdmitted` |
| `listener_live` | database listener | `RevokedKeyForgotten` |
| `failover_health_reinserts`, `failover_model_shutdown`, `listener_poll_window`, `inflight_disconnect`, `inflight_restore` | violations expected | sections 3, 4, 6 and 9 |

What the safety runs check of an instance follows for all constants:
`StationsKeepTheirSpecs` and `PartsKeepTheirSpecs` show that every behaviour of
`MCRequests` and of `MCGateway` is, for each component, a behaviour of the component's
own specification (every step is one of its steps or leaves its variables alone), and
`RequestsAreSafe`, `GatewayIsSafe`, `AgentsAreSafe` and `KeysAreSafe` conclude the
safety properties of the runs from the theorems of the components;
`RequestsTypeCorrect`, `GatewayTypeCorrect` and `AgentTypeCorrect` do the same for the
types.

A property of a component is the conjunction of its named parts (`PaymentsBalance
== ServedOnlyIfPaid /\ RefusedNotCharged /\ SettledIsAccounted`); the parts
carry their own comments and, where proved, their own theorems.

## 3. ProviderFailover

| Variable | Code |
|---|---|
| `pool[r][e]` | the `ReadyCache` of the balancer of router r, endpoint type e |
| `request[r][e]` | a request waits in the `Buffer` in front of it |
| `monitored[r]` | the endpoint type whose senders survived in `AppState` (one entry per router id) |
| `chan[r]` | the `Change` channel, capacity `CHANNEL_CAPACITY` |
| `events[r]`, `signalling[r]` | the rate limit event channel; responses blocked in its `send` |
| `task[r]`, `limited[r]`, `timers[r]` | `monitor()`: where it is, `rate_limited_providers`, `pending_restores` |
| `unhealthy[r]`, `todo[r]`, `sending[r]` | the health check: `unhealthy_keys`, targets left in this round, sends left |
| `healthy[p]` | what `check_health` would answer |

One action per operation: `Request`, `ApplyChange` (poll_ready drains the channel),
`Dispatch`, `DispatchRateLimited`, `RejectNoServices` (the latency router answers
with an error instead of waiting), `SignalMonitor`, `RateLimitTick`, `ReceiveEvent`,
`SendRateLimitRemove`, `RestoreTimer`, `SendRateLimitInsert`, `HealthTick`,
`HealthCheck`, `HealthSend`, `Recover`, `ShutDown`. A `send(..).await` is a step
of its own: the task stays where it is until the channel has room, and its other
`select!` branches do not run. `KindOf[r]` is one of the four strategies; the model
strategies remove all keys of a provider together. Which ready service is picked
(weight, latency) is any of them.

| Run | Instance | Shows |
|---|---|---|
| `gateway_safety` | 2 providers, channel of 2, events of 1, dispatchers may fail | `ProvidersKept` = `NoKeyLost` and `RestoreScheduled` |
| `requests_safety` | 2 models of one provider, ModelLatency | `NoKeyLost` when a check sends several changes |
| `failover_live` | 2 routers, one ProviderWeighted and answered 429, one ModelLatency; 1 provider, channels of 1, dispatchers may fail | `RequestServed`, `BusyRouterIsChecked`, `LimitedKeyReturns` |
| `failover_health_reinserts` (violation) | as gateway_safety | the health monitor inserts a key the rate limit monitor holds out |
| `failover_model_shutdown` (violation) | 2 models, ModelWeighted | one 429 under a model strategy stops the process |

Bounds: two providers are enough for one monitor to hold out one while the other holds
out the other or the same; a Change channel of two holds a removal and an insertion at
once and is full with them, the event channel of one blocks the second response. The
safety runs have one router: routers share only the health monitor's round and the
health of providers, which is free there. The fairness run has two of different
strategies, since the checks of all routers are joined and a provider's errors are
counted over all of them; one provider, so that "every service is removed" happens; and
channels of one, so that every send blocks at some time. `Limiters` names, for each
router, the providers that may answer 429.

Fairness: tokio runs woken tasks, `select!` picks randomly among ready branches,
blocked senders are served in FIFO order, sleeps elapse, and a provider's errors
leave the window. Strong fairness is used only for the steps others disable again
and again: a restore (the task may be busy with other keys) and the sends of the two
monitors (each fills the channel of the other). Nothing is assumed of clients;
properties that need traffic say so: `Busy` (a router keeps receiving requests) and
`Undisturbed` (the other balancers are polled, and their traffic does not keep a
provider unhealthy for ever).

Proved (`ProviderFailoverProofs`), for all routers, targets, endpoint types,
capacities and strategies: `TypeCorrect`; `EveryLimitedKeyHasARestore`
(RestoreScheduled is inductive together with the type invariant);
`NoProviderIsLost` (NoKeyLost, inductive together with the type invariant);
`ProvidersAreKept`, the two together. The
lemmas `SettlesAppendOther`, `SettlesAppendInsert` and `SettlesTail` say what
sending and applying a change do to the state a balancer ends up in; `KeptFrame`,
`KeptAppend`, `KeptInsert` lift them to the two monitors. The argument: a monitor
forgets a key only when its insertion is sent or about to be, a balancer applies
changes in order, so the last change of a key that no monitor holds out is an
insertion.

## 4. DatabaseListener

Rows and cache entries are identified by `updated_at`; the clock advances with the
updates. `row` is the database, `cache` the virtual key map, the master key LRU and
the provider allowlist, `cursor` is `last_poll_time`, `stage`, `fetched` and `seen`
are the locals of `poll_database`, `missed` and `inflight` are requests between a
cache miss, their query and the fill. `during` is a history variable: what the last
update of an item overlapped (startup, a poll, a read of the row, a failed check or
reload of the allowlist). Actions: `Update` (the control plane), `Miss`, `Read`,
`ReadFails`, `Fill` (with the LRU's eviction), and for the listener `StartPoll`,
`QueryVirtualKeys`, `ApplyVirtualKey`, `QueryMasterKeys`, `InvalidateMasterKey`,
`RowsApplied`, `CheckProviderConfigs`, `ReloadAllowlist`, `PollFails`, `EndPoll`.

| Run | Instance | Shows |
|---|---|---|
| `keys_safety` | 1 virtual key, 2 master keys, LRU of 1, two updates, any query may fail | `QuietUpdateSeen`, `AllowlistUpdateSeen` |
| `listener_live` | 1 virtual and 1 master key | `RevokedKeyForgotten` |
| `listener_poll_window` (violation) | 1 virtual key, no failures | an update that overlaps a poll is skipped for good |

Bounds: two updates after startup (`MaxClock` 3) allow an update, its poll, and a
second update of the same or of another row during the first one's way into the
cache; two master keys for a cache of one exercise the eviction. Fairness: the
listener's task runs, its interval ticks, a query does not fail every time.

Proved (`KeysProofs`) for any sets of keys, any cache capacity and any
number of updates: `TypeCorrect`, `QuietUpdateIsNeverLost`, `AllowlistIsNeverLost`.
The inductive invariant of the second is `TypeOK /\ FetchedRows /\ SeenOld /\
ReadsCurrent /\ QuietSettled`: what the poll has fetched belongs to the table of
its stage and is no newer than the database (`FetchedRows`), no row was marked as
seen before it existed (`SeenOld`), what polls and requests have read of a quietly
updated key is current (`ReadsCurrent`), and `QuietSettled` extends the conclusion
to the part of a poll between the application of a row and the move of the cursor,
where `QuietUpdateSeen` alone says nothing. `AllowlistInv` does the same for the
snapshot between its reload and the end of the poll.

## 5. ProviderCatalog

`db` holds the versions of `providers` and `provider_models`, `catalog` what the
process publishes, `baseline` the fingerprint it compares with, `probe` and
`loaded` the locals of a load, `stage` where it is, `late` (history) whether the
baseline was taken after a forced reload. Actions: `Update`, `BootFingerprint`,
`Poll`, `Fingerprint`, `ReadProviders`, `ReadModelsAndPublish`, `ReloadFails`,
`Refingerprint`; every query may fail.

Run `progress_live` (versions up to 4: an update before, between and after the reads,
with failures) checks `CatalogNeverRegresses` and `CatalogCatchesUp`. Fairness: the task
runs, queries do not fail for ever. Proved (`ProviderCatalogProofs`) for any number of
updates: `TypeCorrect`, `CatalogIsMonotonic`, `BaselineNeverAhead`, from `ReadsOrdered`:
nothing read is newer than its table, a load is at least as new as the catalog in use
and, once it has read a table, at least as new as the fingerprint taken before it.

## 6. InFlightLimit

`pc`, `slot`, `released` are a request: where it is in `call`, its `HeldSlot`, the
flag of its `CountedBody`. `memory[g]` and `counter` are the two counters,
`releasing` the spawned Redis releases, `useRedis[g]` and `conn[g]` the backend in
use and the connection of `AppRedis`, shared by all commands of the process.
`leaked` and `forgotten` are history: slots of a counter nobody will give back.
A process starts in `Init`, and again in `Crash`, on whichever backend its
startup ping leaves it.
Actions: `Arrive`, `Evaluate` (the script runs), `Reply`, `EvaluateFails` (an error
or a lost reply: the request falls back to memory), `Respond`, `Cancel` (the client
disconnects and the future is dropped), `BodyEnds`, `BodyDropped`, `Decrement`,
`Ping` (the recovery task), `IdentityCountFails` (the identity limit's command on the
shared connection fails: an error drops the connection, while its timeout of a second
only drops the future and may leave the connection behind broken), `Crash`.

| Run | Instance | Shows |
|---|---|---|
| `requests_safety` | 2 processes, 3 requests, maximum 1, every failure | `SlotsAccounted` = `CapPerBackend` and `CountersExact`; `RejectedOnlyWhenFull` |
| `progress_live` | 1 process, 2 requests, maximum 2, every failure | `SlotsComeBack` |
| `inflight_disconnect` (violation) | 1 process, maximum 1, only disconnects | slots of cancelled requests are never given back: `FullGatewayRecovers` fails |
| `inflight_restore` (violation) | 1 process, maximum 1, only connections break | a gateway that fell back to memory stays there: `RedisRestored` fails |

`RedisRestored` is what the comment of `use_redis` promises ("background task restores
it"). The task pings over the connection `AppRedis` holds; a connection that broke is
held until a command of the identity limit fails on it, and that limit is opt-in: in
its absence every ping fails on the same connection.

Bounds: two processes share the Redis counter and one of them has two requests, so
that slots of both backends are held at once; three requests compete for one or two
slots. Each request stands for any number in succession. Fairness: the runtime
polls every task, upstreams answer, bodies end or are dropped, the mutex is fair,
the recovery interval ticks and Redis is reachable again and again. Nothing is assumed
of requests under an identity limit, so a connection may stay broken for good; slots
come back all the same, for a release that fails for good is among the lost ones.

Proved (`RequestsProofs`) for any processes, finite set of requests and maximum:
`InFlightTypeCorrect`, `SlotsAreAccountedFor` (CountersExact), `CapHolds`,
`RejectionsAreJust`, `SlotsBalance`. `Shape` relates `pc`, `slot`, `released` and
`releasing`: a request has the slot its point in `call` implies, its flag is set once
its body has ended, and a spawned release belongs to a request that is done.
`StepTracks` shows that in every step a counter, the set of requests that hold its slots
and its lost slots change together; `TracksCounts` turns this into the equation of
`CountersExact`, from which the cap and the justification of rejections follow.

## 7. The request's other stations

### X402Payment and PaidDelivery

`PaidDelivery` is the promise: a payment is settled once, and the service is
delivered for it to at most one buyer, after settlement. `X402Payment` is the
handler in `x402/service.rs`: `handler[q]` is the await a request has reached,
`sig`, `answer` its header and response, `rpc` and `forward` its two calls as the
payment service and the upstream see them, `settledFor` the payment service's
book, `result` and `logs` what was recorded. `window` (history) names the three
places where the code lets go of a settled payment: a lost reply of the
settlement, a secret that does not resolve after settlement, a client that
disconnects. Actions follow the awaits: `ResolveSnapshot`, `ReadBody`,
`EvaluatePolicy`, `ReceiveTerms`, `SettleReply`, `SettleFails`, `ResolveSecret`,
`ProxyPaidRequest`, `RecordServiceResult`, `WriteLog`, `BodyCompletes`,
`Disconnect`, `ProcessStops`, and `ServiceSettles`, `UpstreamServes` of the other
side, which may come at any time before the reply or after the timeout.

`PaymentsBalance`: the upstream is reached only for a payment settled for this
very request and never twice for one payment; a refused request was not charged;
a settled payment has a recorded result unless it went through a `window`.
`KeepsPromise`: the refinement. `RequestAnswered`: every handler ends. Bounds: two
requests that may carry the same signature or two different ones. `logs` counts the
copies of a log entry that arrive: none, one, or two, since an XADD that reports an error
may have taken effect before the entry is sent over HTTP. Fairness: the
runtime polls handlers, bodies end; nothing is assumed of the payment service, the
policy service and the upstream, whose silence is ended by timeouts. That Redis
answers or fails is an assumption: `x402/snapshot.rs:165`, `x402/forward_signature.rs:58`
and `x402/log.rs:128` wait for it without one.

Proved (`RequestsProofs`) for any requests and signatures: `X402TypeCorrect`,
`ServedIsPaid`, `RefusedIsNotCharged`, `SettledPaymentAccounted`,
`PaymentsAreBalanced` and the refinement `PromiseKept`. `X402Inv` adds to the type
what the properties leave open between two awaits: whom a signature may be settled
for while the reply is out (`SettledOwner`), that only a request with a signature
has called the service (`CalledWithSignature`), that a forwarded request has passed
settlement (`ForwardedAfterSettlement`), that a refusal leaves no settlement behind
that could still happen (`RefusedNotSettling`), and what a request that has ended,
or is about to write its log, has recorded (`EndAccounted`, `LogPending`).

### Dispatcher and the LLM cache

`phase`, `kind`, `home`, `tries`, `reply`, `sent` are one dispatch: where it is,
what it is (path, streamed, cached, endpoint), the endpoint chosen, attempts,
result so far, number of POSTs. `pos`, `tap`, `broken`, `pump`, `saver`, `free` are
the body, the channel to the saving task and that task; `kv` the cached entries,
`region` what was learned of the key's region. Actions: `Prepare`, `CacheLookup`,
`Attempt` (with its retries), `RegionalRetry`, `Fallback`, `SignalRateLimit`,
`PollBody`, `EndBody`, `BodyBreaks`, `Reconnect` (the event source posts again when
its stream breaks), `PumpStops`, `ClientLeaves`, `Collect`, `Probe`, `Put`,
`EntryExpires`, `RegionExpires`.

`CacheIsTrue`: an entry is the successful response to one POST of the endpoint its
key names, in order and without gaps, and is short only if its transfer was
interrupted. `NotReplayed`: once a POST that is not streamed has an outcome other
than those the code counts as safe to repeat, no further POST is sent, and
requests of media and heartbeats are sent once. `DispatchCompletes`. Bounds: two
dispatches of the four kinds in `MCValues` (one in the fairness run), a bucket of
one entry so that they compete for it, bodies of two chunks so that a cut can fall
inside, one reconnect, one retry (two in the fairness run). Fairness: tasks are polled
and calls end by the client's timeout. Two waits have none and are assumed to end:
the 429 event that a response hands to the rate limit monitor over a bounded channel,
and a body that the client neither polls nor drops.

Proved (`RequestsProofs`) for any dispatches, endpoints, retries, buckets and lengths of
bodies: `DispatchTypeCorrect`, `CacheAlwaysTrue`, `CallsNotReplayed`. `DispatchInv` has
three parts for each dispatch: which calls its phase leaves behind (`CallsByPhase`),
that what its tap holds is the beginning of the body of one call (`TapIsOneBody`),
and what its saving task carries (`SaverByPhase`); and one for each entry of the
cache (`EntryOK`). The second is what `CacheIsTrue` lacks: an entry is written long
after its body was read, when only the tap knows from which call its chunks came.
`NotReplayed` is an action property; `StepNotReplayed` derives it from `CallsByPhase`.

### McpSessions

`step`, `via`, `held`, `post`, `executed`, `outcome` are a call; `saved` and `lock`
are in Redis, `flight`, `channel`, `waitsFor` the single flight of a process, `live`
and `issued` the server. A call loads the session, joins or leads a flight
(`JoinFlight`, `Guard`, `InitializeSession`, `KeepSession`, `FinishFlight`,
`CloseFlight`), waits for the leader (`Receive`), calls (`ServerHandles`, `Answer`),
refreshes or deletes the session and gives the lock back (`Refresh`, `Delete`,
`Release`). `DropCall` is the drop of its future at any await; `LockExpires`,
`SavedExpires`, `SessionExpires` are the times to live.

`McpCallsTrue`: the server executes the tool at most once for a call; "completed"
means executed, "expired" and "denied" mean not. `OneInitializer`: one call at a
time initializes under the lock, and one per process without it. `McpCallEnds`:
a call whose leader fails, leaves or is dropped still ends. Bounds: two calls of one
process, two sessions of the server. Fairness: tasks run and the lock's time to
live ends; the server may be silent, requests have a timeout.

Proved (`AgentProofs`) for any calls, processes and sessions:
`McpTypeCorrect`, `ToolIsExecutedOnce`, `AnswersAreTrue`, `InitializersExclude`,
`McpCallsAreTrue`. `McpInv`: the server has executed exactly what it was sent and
handled (`ServerTruth`), which post a step may have out (`PostByStep`), which
answer a post may have led to (`OutcomeByPost`), and that an initializer owns the
lock or the flight it runs under (`InitializerOwns`); without the last, the
expiry of the lock would break exclusion.

### AgentToolCall, AgentEvents and EventLog

`EventLog` has the outcomes of sending an event: Redis, then HTTP; a copy may
arrive although the answer does not. `AgentToolCall` is a call of a tool:
`ReceiveCall` (with the permit of the workspace), `EmitRefusal`, `CheckBudget`,
`EmitRequested`, `Preflight`, `ExecuteTool`, `ExecuteMock`, `ToolReceives`,
`ToolAnswers`, `EmitTerminal`, `LeaveCall`. `lapse` (history) says where it left the
full trail: the sink failed, execution failed with an error, the transport lost the
answer, the client left. `ToolCallsBalance`: a high risk tool is called only after
its requested event is logged and a tool behind policy only when allowed; billable
means the tool received the call; a trail that was opened is closed unless it
lapsed; permits are exactly the calls that hold one and within the limit.
`ToolCallEnds`. The kinds of tool differ in what an answer may say: an `http` tool that
answers with an error fails the call, an `mcp-http` tool may also answer with a JSON-RPC
error (failed, executed, not billable, and the trail is closed), an OpenAPI tool may be
refused without having run. Bounds: two calls of one workspace with a limit of one, tools
of all five kinds. Fairness: the handlers' tasks run; policy, tool and event log have
timeouts.

Proved (`RequestsProofs`) for any calls, workspaces and limits: `ToolTypeCorrect`,
`ToolCallsAlwaysBalance`. `ToolInv` adds to the property how far the trail and the
transport are at each step of a call (`ProgressByStep`: nothing is on the wire before
the call is executed, an executed call of high risk has its event, one behind policy its
clearance), and says of the permits that the count is the cardinality of the calls
that hold one (`PermitInv`).

`AgentEvents` is a batch: `ClaimStep` (SET NX in Redis, skipped by an event without a
run or a step; a SET that reports an error may have taken effect), `ReadClaim`,
`AskPolicy`, `EmitAudit`, `EmitEvent` (which may still refuse the event as too large),
`LeaveBatch`, `ClaimExpires`. `BatchesAgree`: what is
logged of a batch is a prefix, all of it when accepted; under the strict
configuration no step is logged with two fingerprints unless its claim expired; a
reported conflict is one. `BatchEnds`. Bounds: two batches that agree
on one step and not on another, one with a third event of no step. Fairness: the
handlers' tasks run, and the policy and the event log have timeouts. The SET and the GET
of a claim have none (`agent/step_state.rs:102` and `105`, through the mutex of
`AppRedis`): `BatchEnds` assumes that Redis answers them or fails.

Proved (`AgentProofs`) for any batches, steps and processes: `EventTypeCorrect`,
`BatchesAlwaysAgree`. `EventInv`: what is logged ends at the cursor (`CursorByStep`,
`CopiesByCursor`); a claim in Redis is one of those ever made, and is missing only
before the first or after an expiry (`ClaimHistory`); a batch reads a claim only of a
step that was claimed (`ReadAfterClaim`), and has passed only steps it agrees with
(`PassedAgrees`). The last is needed because the claim may change between the check
and the log. The lemmas of `EventLogProofs` serve both components: an
accepted event has a copy, a refused one may have one, none has more than two.

### ChatToolObserver

The observer puts the calls of a streamed completion together from deltas:
`ObserveDelta`, `ObserveFinish`, `ObserveDone` over `drafts` and `aliases`. A delta
shows the index, the id, both or neither, and may have arguments, also empty ones
(`has`); `FindDraft` looks for an alias of the index, then of the id, then among the
drafts (`FindByFields`, with the take-over by name in `Candidate`); `Appended` and
`Truncates` are what the limit on characters leaves. `given` (history) is what the
provider sent. `CallsPutTogether`: the keys of two drafts differ; when the provider
always gives the index or always the id, a draft holds a prefix of one call and a
complete draft all of it. Bounds: two calls of one tool, two drafts, two characters, two
frames and three deltas, so that each limit (`MaxDrafts`, `MaxChars`, `MaxFrames`) is hit.

Proved (`RequestsProofs`) for any calls, limits and deltas: `ChatTypeCorrect`,
`CallsArePutTogether`. `ChatInv`: every name of a draft is an alias (`NamesKnown`), and the
alias of an index leads to a draft with an index (`IndexTaken`), without which a
draft known by its id could take over an index that another has and the keys would
collide; for a provider with consistent names, an alias leads to the draft of its own
call and the arguments are the call's up to what was cut or not read (`CallByName`,
with `WholeSoFar` for the limit on frames); and a call without a draft has sent nothing
while there is room (`NothingMissed`), so that a late first delta does not start in the
middle. The draft found need not be proved to be the right one for other providers,
only to have a free name.

### ResponsesBridge and ChatBridge

Both rewrite one stream into the other, event by event, for any order of chunks.
`ResponsesBridge` (chat chunks to Responses events): `EventsInOrder` – the terminal
event is the last, comes only with the end of the body and agrees with the finish
reason; an item is announced once and before its deltas; after the finish reason
"tool_calls" a Codex client sees every announced tool closed once, and with all its
arguments if the provider sends no choice after its finish reason (the code takes such
choices, and what they add to a closed tool is never part of a closing event).
`ChatBridge` (Responses events to chat chunks): `ChunksTrue` – the role comes first and
once, arguments carry the index of their own call, commentary stays hidden, the finish
reason agrees with what was announced. An error event is passed on and does not end the
stream: what follows it is rewritten like everything else. What the provider guarantees
is a variable (`namesFirst`: a tool is named in its first entry; `finishesLast`: no
choice follows the finish reason; `orderly`: items are announced before they are
referred to, and nothing follows the end); the properties say which parts need it.
Bounds: two tools and three chunks; a message, a comment, two calls and five events.

Proved (`GatewayProofs`) for any items, tools and numbers of chunks and events:
`BridgeTypeCorrect`, `EventsAlwaysInOrder`, `ChatBridgeTypeCorrect`, `ChunksAlwaysTrue`.
What a bridge has sent is a history of which its state remembers little, so both
invariants say what part of the history the state stands for. `ChatBridgeInv`: indexes
given out differ and are the number of calls so far (`IndexesDiffer`), each
announcement, call and delta is on the wire under its own index (`AnnouncedOnWire`,
`CallsOnWire`, `ArgumentsOnWire`). `BridgeInv`: an item is marked as added exactly when
its announcement was sent, and the arguments gathered for a tool are those of its deltas
(`EventsOK`); an announced tool is tracked (`TracksOK`); a tool is marked as closed
exactly when its closing events were sent, one right after the other (`ClosedOK`), which
is the case for every announced tool once the finish reason asked for it; and no
terminal event is sent while the body lasts. The lemmas about appended events
(`GoodAppend`, `ClosedAppend`, `GoodPlain`, `GoodAdded`, `GoodDelta`, `ToolsClosed`)
carry the invariant through one event at a time, in the order the handler sends them.

## 8. Limits, admission, accounting

### Admission

`virtualKey`, `masterKey`, `usable`, `overrides`, `allowlist` are the rows the
control plane changes at any time (`ChangeRow`), `req` the request with what each
stage captured. A stage is an action: `Precheck`, `Authenticate`, `CollectMedia` or
`CollectBody`, `DetermineProvider`, `InjectDefaultModel`, `PlanRoute`, `InitProxy`,
`MapRequest`, `EnforceModelPolicy`, `ConvertModel`, `CheckAllowlist`, `EvaluateCustom`,
`SendUpstream`; `FailStage` is any error that ends it. After a failure of a provider whose
model the gateway chose itself, `ChooseFallback` and `SendFallback` send the request once
more, to another provider with that provider's default.

A name of a model may start with a provider (`Prefix`) and has a form without it
(`Bare`). `req.model` is the name the policy checks, `req.wire` the one that is sent:
`ConvertModel` comes after the check and takes off the prefix of the provider, or puts in
what the converter's catalog has for the name (`mapped`). A row of a master key may name
a base URL (`url`), whichever its provider; authentication captures it with the row, and
the request goes there (`Destination`) even if the secret is read again from a row that
was replaced meanwhile, or is a spare key of the workspace (`SpareKeys`).

`SentIsAdmitted`:
- `ModelCleared`: the name that was checked is allowed by the lists captured at
  authentication, however it came into the body, unless the policy service put it there;
  and a model that is blocked in every spelling and allowed in none is not sent in any,
  unless the catalog put it there. More is not true: a model blocked in one spelling can
  be asked for in another, as `examples/self-hosted/README.md:73` says of media ("its
  matching prefix is removed from `model`", the policy "applies to the original model");
- `DefaultNeverRefused`: the gateway does not refuse its own default;
- `FilteredBeforeSent`: where an unavailable policy service denies, nothing but media is
  sent without consent;
- `KeyFitsTarget`: a secret goes to the URL of its row or to its provider as long as the
  key is the one authentication saw. If the row was replaced or could not be read
  meanwhile, another secret is sent, of the client's provider or custom; it goes where it
  is for unless one of the two rows names a URL or is custom, in which case it goes to the
  place of the other. The property states this exception and does not excuse more.

Bounds: one model under its bare name and under those of two providers, four pairs of lists
(nothing blocked, everything, and two that allow one spelling and block others), one
change during the request, proxies for `openai` and `anthropic`.

Proved (`KeysProofs`) for any models, spellings, lists, proxied providers and number of
changes: `AdmissionTypeCorrect`, `ModelIsCleared`, `DefaultIsNeverRefused`,
`SentIsFiltered`, `KeyFitsItsTarget`, `WhatIsSentIsAdmitted`. `StageInv` says what each
stage has established of the model and its spelling (`ModelStage`), the consents
(`ConsentStage`) and the provider and secret (`CarrierStage`); the properties speak only
of the last stages.

### ClientIpLimit

`zset` in Redis and `deques` in each process hold an `Entry` for each request they count
(sets: both are ordered by time, and only what is recent matters), `useRedis` is the
flag of the process, `checks` the requests whose script runs; `passed` and `refused`
(history) are the verdicts of each backend, `lives` counts the evictions of a queue.
`IpScript`, `IpAnswered`, `IpFails` (error or lost answer: the request is checked in
memory, the flag falls), `IpRecovers` (the ping task), `IpArrive`, `IpTick`.
`IpLimitHolds`: what one backend has granted in a window is within the limit, and it
refuses only when it is full. Bounds: two processes, two clients, three requests, limit
one, a window of two ticks, one tracked client so that eviction happens. The code reads
the clock just before it waits for the lock of the map (`memory.rs:41`); `Memory` does
both in one step, so that a queue is in the order of time. A request that waits for the
lock is counted by an earlier time than here, at most by the wait.

Proved (`AccountingProofs`) for any processes, clients, limits, windows and requests:
`IpTypeCorrect`, `IpLimitAlwaysHolds`. `IpInv` says that what a backend stores is what it
granted, and that it still stores whatever is recent enough to count (`ZsetTrue`,
`DequesTrue`): with both, the cardinality the code compares with the limit is that of
the window in the history.

### IdentityLimit

`window` is the count and expiry, `pending` the requests under way: when they read the
clock or sent their script. A request that is
counted gets a `Turn` (history): its number in the window, which window that is
(`windows`), and when; `admitted` and `hints` are the decisions. `IdArrive` reads the
clock or sends the script; `CheckMemory` counts by the time read before, once the request
has the lock (up to `LockWait` ticks later); `RunScript`, `AnswerScript`, `Unavailable`
(timeout or error), `Persist` (the key loses its expiry), `IdTick`. `Slip` is the age of
the clock a request is counted by, `Late` how long it may be under way.
`IdentityLimitHolds`: of any `2 * IdLimit + 1` admissions the last comes a window after
the first, less `Late`; `retry_after` names a time at which the window has ended, by less
than a second and `Late` too late, and exceeds the window by no more than `Slip`, rounded
up: a request that read the clock before another one opened the window is told to wait
longer than a window. `WindowNotExtended`: no
request, refused ones included, moves the end of a window that has not passed.
Bounds: three requests, limit one, two seconds of two ticks, a lock that takes up to one
tick, seven ticks: a request can fall before, on and after each edge, and read the clock
before and get the lock after it.

Proved (`AccountingProofs`) for any limit, length of the window, wait for the lock and
number of requests: `IdentityTypeCorrect`, `WindowKeepsItsEnd`,
`IdentityLimitAlwaysHolds`. The cap is an
argument by pigeonhole: no turn is given out twice, whether its request is admitted
or still waits for the answer, and turns of two windows that are not neighbours are
a window's length apart (`TurnsDiffer`), an admission follows its turn by less than
the time it may be under way (`AdmittedOK`); so among any `2 * IdLimit + 1` admissions in
a row, which cannot all have turns of two neighbouring windows, the first and the last
lie a window apart, less `Late`.

### WorkspaceConcurrency and RequestLog

`CountAccounted`: the count is never above the requests it stands for and the leaks
since its key was created, and exactly that unless the key expired under a request.
Bounds: four requests. `RequestLog` is the task that collects a body, stores large ones,
sends the record and the events: `RecordsAgree` – at most one record and one whenever
the task ran to its end; it refers to objects that are there; a body of a protected
route is stored, or an event about it observed, only by the denial log of the mapper,
which does not redact (`OnlyMapperDenialsLeak`; section 9); events stand beside their
record. That a record arrives is not said: a failed write is not repeated. The flag of
the degraded transport is read before the PING (`StartPing`) and not again, so a write
to Redis may begin after another task has degraded the process. Bounds: two requests of
the kinds in `MCLogKinds` (answered, denied, failed; protected; large; streamed).

Proved (`AccountingProofs`) for any requests: `RequestLogTypeCorrect`,
`RequestLoggedOnce`, `RecordsResolve`, `OnlyMapperDenialsLeakPayloads`,
`EventsFollowTheirRecord`, `RecordsAreConsistent`, `DegradationIsFinal`,
`WsTypeCorrect`, `WsCountAccounted`. `LogInv` relates the records, objects and
events of a request to the point its task has reached (`CopiesByTask`,
`ObjectsByTask`, `EventsByTask`); `WsInv` bounds the leaks by the requests that are
over (`LeaksBounded`), which bounds the counter.

### RollingCounter

Each access of `incr` and `total` to an atomic is a step: `ReadClock`, `LoadLap`,
`Exchange` (compare_exchange of the lap), `StoreZero`, `FetchAdd`; `StartTotal`,
`TotalLoadLap`, `TotalLoadCount`; `Elapse`. Each atomic has one order of
modifications and the accesses to a bucket's lap are ordered by acquire and release,
which the interleaving of single accesses represents; a relaxed read of a count that
is older than that is not modelled. `CountsTrue`: a bucket keeps at most one event
per thread from before its last clearing; a bucket no increment and change of lap
met in counts exactly the events of its lap; a total that met none is that of its
lap. Bounds: two threads, two buckets, two full laps, three increments. `begun` counts
the increments that have started; `sum.parts` is what a total has added of each bucket and
`sum.least` what had landed there when it began.

Proved (`AccountingProofs`) for any threads, buckets, laps and increments:
`CounterTypeCorrect`, `CountsAlwaysTrue`. `CounterInv`: a count and the increments under
way in its bucket are within those begun (`Begun`); no bucket is ahead of the clock
(`LapsPast`); the foreign events in a bucket, together with the threads that may still
add one (`Stale`), are fewer than the threads (`StaleBounded`), for the thread that gave
the bucket its lap is never among them; a bucket without a race counts its lap,
or has one thread about to clear it and nothing landed yet (`CalmTrue`); a total stands
between what had landed when it began and what has landed now (`SumTrue`).

## 9. Departures between code and documentation

With a run and a finding in `PROJECT.json`: `failover_health_reinserts`,
`failover_model_shutdown`, `listener_poll_window`, `inflight_disconnect`,
`inflight_restore`.

Met while modelling, without a run of their own (the properties above state what
remains true):

Failover and health
- a provider limited under one endpoint type keeps serving through the key of the
  other (every balancer is seeded with the keys of all endpoint types);
- of a router's balancers only the last one built keeps its senders
  (`app_state.rs:381`): the monitors never reach the others (`monitored`);
- a model key that a monitor inserts again has a dispatcher without the model pin
  of the one discovery built (`discover/monitor/health/provider.rs:335`);
- an idle router with a full channel blocks the health round of all routers, and the
  failing traffic of one router keeps a provider out of the others (hence `Busy` in
  `BusyRouterIsChecked` and `Undisturbed` in `RequestServed`);
- `total()` leaves out the buckets of the previous lap, so the window that
  `config/monitor.rs:53` calls rolling falls to zero at the start of each lap: an
  unhealthy provider then lacks the minimum of requests and is inserted again; and
  the configured window and buckets are not used (`EndpointMetrics::default`);
- a 429 of a fallback or regional endpoint is reported to the monitor of the
  original provider (`dispatcher/service.rs:1056`).

Caches and catalog
- rows updated between startup and the end of the first poll are skipped
  (`store/db_listener.rs:168`, window "boot"); a row read before an update is cached
  after its invalidation (`store/master_key_cache.rs:130`, window "read"); a change
  of `provider_configs` is lost when its check or reload fails
  (`store/db_listener.rs:298`, window "failure"); hard deletions and
  `providers.enabled` do not show in what the poll looks at (`store/router.rs:970`);
- the baseline taken after a forced reload may hide an update
  (`store/db_listener.rs:267`, `late`);
- a body that was cut short is saved and served from the LLM cache.

Limits
- while processes change backends, the maximum in flight holds per backend, not in
  total (`layer.rs:177`); the recovery task moves a gateway configured for memory to
  Redis (`layer.rs:116`), and so does that of the client address limit;
- a request that waits for the memory's lock is told to retry after more than the window
  (`middleware/identity_rate_limit.rs:51`);
- a client seen by n processes while Redis fails gets up to n + 1 times its limit;
- the count of a workspace drifts upward by every call that is dropped.

Requests, tools, log
- an event source posts again after its stream broke (`dispatcher/client.rs:338`);
- a request under a custom master key is merged with its prompt template and
  evaluated twice; media requests skip the content filter unless the key is custom;
  a default model may belong to another provider than the key's;
- a secret read again at dispatch goes to the URL captured at authentication, also when
  the row was replaced and when it is a spare key of the workspace
  (`dispatcher/target_endpoint.rs:55`);
- the model policy matches names as written, before the provider's prefix is taken off, and
  nobody checks the name the converter's catalog puts in its place; the fallback to
  another provider replaces a model the policy service chose, and neither the route
  planner nor the policy service sees it;
- an x402 log entry may be written twice, to the stream and over HTTP (`x402/log.rs:128`);
- `response.incomplete` is dropped in streams by the bridge to chat completions
  while whole responses map it to "length"; `response.failed` ends as "stop" or
  "tool_calls"; arguments of an item that was not announced go to index 0; arguments
  precede the announcement when the provider names the tool late; arguments in a choice
  after the finish reason follow the event that closed their tool
  (`cursor_responses_openrouter_bridge.rs:486`);
- a failed XADD loses the record without the HTTP fallback; the denial log of the
  mapper does not redact, which `config/dispatcher.rs:47` says it does;
- never reached from the request path: `policy_evaluator.rs`, `runtime_snapshot`,
  the `request_hash` of idempotency, `mcp_session_max_concurrent_per_session`, the
  error branch of the fallback log (compare `app.rs:75`), the resolution of bare
  model names in model support.

## 10. What is only model-checked, and what is not modelled

Liveness under fairness is beyond the prover: `RequestServed`, `BusyRouterIsChecked`,
`LimitedKeyReturns`, `RevokedKeyForgotten`, `SlotsComeBack`, `RequestAnswered`,
`ToolCallEnds`, `DispatchCompletes`, `CatalogCatchesUp`, `McpCallEnds`, `BatchEnds` are
only model-checked. No safety property of a passing run rests on TLC alone;
`BaselineNeverAhead` and `DegradationIsFinal` are proved and are no property of a run.
The five violations are counterexamples and need no proof.

The models state their histories elementwise or as functions and sets, and use no
recursion, so that no proof needs induction over data.

Assumptions of the proofs are the named ASSUMEs of the modules: positive capacities
and maxima, finite sets of requests, disjoint key sets, a provider per target,
values such as `None` that lie outside the sets they complement, `"redis"` no process,
at least one counting thread, the names of indexes and of ids apart (they are two
variants of `ChatStreamToolKey`, and the keys of events have different prefixes). TLC
evaluates them in every run.

Left out of the modelled components: the choice among ready services; the Redis
broadcast of health events (nothing reads it back); the NOTIFY handlers and the
reconnection of the listener; skewed clocks and equal
timestamps (the model grants the best clock); the wait for the lock between the clock
and the queue of the client address limit; the TTL of the in-flight counter (an
hour without traffic clears it); disabled layers; the three locks under which a
reload publishes the catalog (`store/db_listener.rs:436`); the lengths of back-offs
and the TiKV client of the cache; local keys, compatibility mode, Bedrock and Ollama
credentials and disabled authentication in `Admission`; how the client's address is
taken from headers; the registry of endpoint metrics and the health ratio.

Not modelled: the semantic cache (depends on embeddings), the mappers and the
conversions of whole requests and responses (formats, without state), configuration,
validation and types, telemetry, test support. These make up most of the
repository's lines: about a fifth of the implementation without its tests is mapped, and nearly all
of the code whose state several tasks, processes or services share.
