-------------------------- MODULE ProviderFailover --------------------------
(***************************************************************************)
(* Provider failover of the gateway's policy routers.                      *)
(*                                                                         *)
(* A router owns one load balancer per endpoint type.  Two background      *)
(* services of the process edit the set of provider services a balancer    *)
(* picks from, by sending Change events down a bounded channel:            *)
(*   - the rate limit monitor, one task per router, removes a key when an  *)
(*     upstream answers 429 and inserts it again when a timer elapses;     *)
(*   - the health monitor, one task for ALL routers, removes a key when    *)
(*     its provider's error ratio is high and inserts it when it drops.    *)
(* The balancer applies the events only while it is polled for a request.  *)
(*                                                                         *)
(* Routers are built before the two monitors start (App::new precedes the  *)
(* meltdown services in main.rs).  AppState keeps ONE monitor and ONE rate *)
(* limit channel per router id, so of the balancers of a router only the   *)
(* last one built keeps its senders; which one that is depends on the      *)
(* iteration order of a HashMap.                                           *)
(***************************************************************************)
EXTENDS Naturals, Sequences, FiniteSets

CONSTANTS
    Routers,      \* router ids
    Targets,      \* entries of a balance config: providers or models
    Endpoints,    \* endpoint types the router balances (Chat, Embeddings, ...)
    Providers,    \* inference providers
    ProviderOf,   \* target -> provider that serves it
    KindOf,       \* router -> its balancing strategy, one of Kinds
    ChangeCap,    \* capacity of the Change channel (CHANNEL_CAPACITY)
    EventCap,     \* capacity of the rate limit event channel
    Flappers,     \* providers whose health may change (bounds the environment)
    Limiters,     \* router -> providers that may answer its requests 429 (a bound)
    DispatcherMayFail, \* whether Dispatcher::new may fail after startup
    NoKey         \* no key: the rate limit task is not handling one

Kinds == {"ProviderWeighted", "ProviderLatency", "ModelWeighted", "ModelLatency"}

ASSUME ConstantsAssumption ==
    /\ ProviderOf \in [Targets -> Providers]
    /\ KindOf \in [Routers -> Kinds]
    /\ ChangeCap \in Nat \ {0}
    /\ EventCap \in Nat \ {0}
    /\ Flappers \subseteq Providers
    /\ DispatcherMayFail \in BOOLEAN

ASSUME LimitersAssumption == Limiters \in [Routers -> SUBSET Providers]

ModelKind(r) == KindOf[r] \in {"ModelWeighted", "ModelLatency"}

\* In the provider strategies a target is a provider.
ASSUME TargetIsProvider ==
    (\E r \in Routers : ~ModelKind(r)) =>
        \A t, u \in Targets : ProviderOf[t] = ProviderOf[u] => t = u

(* A service key: a target for one endpoint type.  Every balancer of the   *)
(* router is seeded with the keys of ALL endpoint types.                   *)
Keys == [target : Targets, endpoint : Endpoints]

Changes == [op : {"Remove", "Insert"}, key : Keys]

(* RateLimitEvent carries the endpoint (provider, endpoint type) that      *)
(* answered 429.  No caller ever attaches a model id to it.                *)
Events == [provider : Providers, endpoint : Endpoints]

ASSUME NoKeyAssumption == NoKey \notin Keys

VARIABLES
    up,         \* the process has not been told to shut down
    monitored,  \* router -> the endpoint type whose balancer kept its senders
    failover,   \* fallback policy: rate limit failover enabled
    pool,       \* router -> endpoint -> keys with a service in the ReadyCache
    request,    \* router -> endpoint -> a request waits in the Buffer
    chan,       \* router -> Change channel of the monitored balancer
    events,     \* router -> rate limit event channel
    signalling, \* router -> events of responses blocked in rate_limit_tx.send
    task,       \* router -> state of the rate limit monitor task
    limited,    \* router -> rate_limited_providers
    timers,     \* router -> keys of pending_restores
    unhealthy,  \* router -> unhealthy_keys of the health monitor
    todo,       \* router -> keys this health tick has not checked yet
    sending,    \* router -> changes the health check still has to send
    healthy     \* provider -> what check_health would answer now

vars == <<up, monitored, failover, pool, request, chan, events, signalling,
          task, limited, timers, unhealthy, todo, sending, healthy>>

balancerVars == <<pool, request>>
rateLimitVars == <<task, limited, timers>>
healthVars == <<unhealthy, todo, sending>>
configVars == <<monitored, failover>>

(* A rate limit monitor task waits in select!, or in one of its sends.     *)
TaskStates == [at : {"unspawned", "idle"}, key : {NoKey}]
                \cup [at : {"removing", "restoring"}, key : Keys]

Idle == [at |-> "idle", key |-> NoKey]

TypeOK ==
    /\ up \in BOOLEAN
    /\ monitored \in [Routers -> Endpoints]
    /\ failover \in BOOLEAN
    /\ pool \in [Routers -> [Endpoints -> SUBSET Keys]]
    /\ request \in [Routers -> [Endpoints -> BOOLEAN]]
    /\ chan \in [Routers -> Seq(Changes)]
    /\ \A r \in Routers : Len(chan[r]) <= ChangeCap
    /\ events \in [Routers -> Seq(Events)]
    /\ \A r \in Routers : Len(events[r]) <= EventCap
    /\ signalling \in [Routers -> SUBSET Events]
    /\ task \in [Routers -> TaskStates]
    /\ limited \in [Routers -> SUBSET Keys]
    /\ timers \in [Routers -> SUBSET Keys]
    /\ unhealthy \in [Routers -> SUBSET Keys]
    /\ todo \in [Routers -> SUBSET Keys]
    /\ sending \in [Routers -> SUBSET Changes]
    /\ healthy \in [Providers -> BOOLEAN]

Init ==
    /\ up = TRUE
    /\ monitored \in [Routers -> Endpoints]
    /\ failover \in BOOLEAN
    /\ pool = [r \in Routers |-> [e \in Endpoints |-> Keys]]
    /\ request = [r \in Routers |-> [e \in Endpoints |-> FALSE]]
    /\ chan = [r \in Routers |-> <<>>]
    /\ events = [r \in Routers |-> <<>>]
    /\ signalling = [r \in Routers |-> {}]
    /\ task = [r \in Routers |-> [at |-> "unspawned", key |-> NoKey]]
    /\ limited = [r \in Routers |-> {}]
    /\ timers = [r \in Routers |-> {}]
    /\ unhealthy = [r \in Routers |-> {}]
    /\ todo = [r \in Routers |-> {}]
    /\ sending = [r \in Routers |-> {}]
    /\ healthy = [p \in Providers |-> TRUE]

-----------------------------------------------------------------------------
(* The balancer: Buffer worker, poll_ready, call.                          *)

(* A client request reaches the Buffer in front of a balancer.             *)
Request(r, e) ==
    /\ up /\ ~request[r][e]
    /\ request' = [request EXCEPT ![r][e] = TRUE]
    /\ UNCHANGED <<up, configVars, pool, chan, events, signalling,
                   rateLimitVars, healthVars, healthy>>

(* The keys in the cache after a Change: evict or push.  IgnoreInsert is a *)
(* faulty variant.                                                         *)
Applied_IgnoreInsert(c, keys) == IF c.op = "Remove" THEN keys \ {c.key} ELSE keys

Applied(c, keys) == IF c.op = "Remove" THEN keys \ {c.key} ELSE keys \cup {c.key}

(* One turn of update_pending_from_discover: the worker polls the balancer *)
(* because a request waits, and takes the next Change off the channel.     *)
ApplyChange(r) ==
    LET e == monitored[r]
        c == Head(chan[r])
    IN  /\ up /\ request[r][e] /\ chan[r] # <<>>
        /\ chan' = [chan EXCEPT ![r] = Tail(@)]
        /\ pool' = [pool EXCEPT ![r][e] = Applied(c, @)]
        /\ UNCHANGED <<up, configVars, request, events, signalling,
                       rateLimitVars, healthVars, healthy>>

(* The discovery loop ends when the channel is empty (or its senders are   *)
(* gone).                                                                  *)
Drained(r, e) == e = monitored[r] => chan[r] = <<>>

(* A ready service is picked and its upstream answers; a 5xx answer may    *)
(* push the provider's error ratio over the threshold.                     *)
Dispatch(r, e, k) ==
    LET p == ProviderOf[k.target]
    IN  /\ up /\ request[r][e] /\ Drained(r, e)
        /\ k \in pool[r][e]
        /\ request' = [request EXCEPT ![r][e] = FALSE]
        /\ \/ UNCHANGED healthy
           \/ /\ p \in Flappers
              /\ healthy' = [healthy EXCEPT ![p] = FALSE]
        /\ UNCHANGED <<up, configVars, pool, chan, events, signalling,
                       rateLimitVars, healthVars>>

(* The picked service's upstream answers 429.  The dispatcher signals the  *)
(* monitor through the sender it was built with; only the monitored        *)
(* balancer's sender still has a receiver, the others log the error.       *)
DispatchRateLimited(r, e, k) ==
    LET ev == [provider |-> ProviderOf[k.target], endpoint |-> e]
    IN  /\ up /\ request[r][e] /\ Drained(r, e)
        /\ k \in pool[r][e]
        /\ ProviderOf[k.target] \in Limiters[r]
        /\ request' = [request EXCEPT ![r][e] = FALSE]
        /\ signalling' = IF e = monitored[r]
                         THEN [signalling EXCEPT ![r] = @ \cup {ev}]
                         ELSE signalling
        /\ UNCHANGED <<up, configVars, pool, chan, events,
                       rateLimitVars, healthVars, healthy>>

(* The latency router never waits: a model without a ready service is      *)
(* answered NoServicesAvailable.  The other balancers stay Pending.        *)
RejectNoServices(r, e) ==
    /\ up /\ request[r][e] /\ Drained(r, e)
    /\ KindOf[r] = "ModelLatency"
    /\ \E t \in Targets : \A k \in pool[r][e] : k.target # t
    /\ request' = [request EXCEPT ![r][e] = FALSE]
    /\ UNCHANGED <<up, configVars, pool, chan, events, signalling,
                   rateLimitVars, healthVars, healthy>>

(* rate_limit_tx.send(..).await finds room.                                *)
SignalMonitor(r, ev) ==
    /\ up /\ ev \in signalling[r]
    /\ Len(events[r]) < EventCap
    /\ signalling' = [signalling EXCEPT ![r] = @ \ {ev}]
    /\ events' = [events EXCEPT ![r] = Append(@, ev)]
    /\ UNCHANGED <<up, configVars, balancerVars, chan,
                   rateLimitVars, healthVars, healthy>>

-----------------------------------------------------------------------------
(* tx.send(change).await: waits for room in the channel.  TrySend drops    *)
(* the change when there is none, a faulty variant.                        *)
Send_TrySend(r, c) ==
    chan' = IF Len(chan[r]) < ChangeCap
            THEN [chan EXCEPT ![r] = Append(@, c)] ELSE chan

Send(r, c) ==
    /\ Len(chan[r]) < ChangeCap
    /\ chan' = [chan EXCEPT ![r] = Append(@, c)]

-----------------------------------------------------------------------------
(* The rate limit monitor.                                                 *)

(* The interval tick of RateLimitMonitor spawns the registered monitors.   *)
RateLimitTick ==
    /\ up
    /\ \E r \in Routers : task[r].at = "unspawned"
    /\ task' = [r \in Routers |->
                    IF task[r].at = "unspawned" THEN Idle ELSE task[r]]
    /\ UNCHANGED <<up, configVars, balancerVars, chan, events, signalling,
                   limited, timers, healthVars, healthy>>

(* create_key_for_endpoint: the key of the event's provider, for the       *)
(* event's endpoint type only.                                             *)
EventKeys(ev) == {k \in Keys : /\ ProviderOf[k.target] = ev.provider
                               /\ k.endpoint = ev.endpoint}

(* rate_limited_providers.contains(&key), and the faulty variant that      *)
(* forgets to look.                                                        *)
AlreadyLimited_Never(r, k) == FALSE

AlreadyLimited(r, k) == k \in limited[r]

(* pending_restores.push, and the faulty variant without it.               *)
ScheduleRestore_Forgotten(r, k) == UNCHANGED timers

ScheduleRestore(r, k) == timers' = [timers EXCEPT ![r] = @ \cup {k}]

(* The task takes an event.  It is ignored when the policy disables        *)
(* failover or the key is already limited; a key that cannot be built ends *)
(* the task, the monitor service and with it the whole process.            *)
ReceiveEvent(r) ==
    LET ev == Head(events[r])
    IN  /\ up /\ task[r].at = "idle" /\ events[r] # <<>>
        /\ events' = [events EXCEPT ![r] = Tail(@)]
        /\ \/ /\ ~failover
              /\ UNCHANGED <<up, task>>
           \/ /\ failover
              /\ ModelKind(r) \/ EventKeys(ev) = {}
              /\ up' = FALSE
              /\ UNCHANGED task
           \/ /\ failover /\ ~ModelKind(r)
              /\ \E k \in EventKeys(ev) :
                    task' = IF AlreadyLimited(r, k)
                            THEN task
                            ELSE [task EXCEPT ![r] = [at |-> "removing", key |-> k]]
              /\ UNCHANGED up
        /\ UNCHANGED <<configVars, balancerVars, chan, signalling,
                       limited, timers, healthVars, healthy>>

(* tx.send(Change::Remove).await returns; the restore timer is started and *)
(* the key is recorded.                                                    *)
SendRateLimitRemove(r) ==
    LET k == task[r].key
    IN  /\ up /\ task[r].at = "removing"
        /\ Send(r, [op |-> "Remove", key |-> k])
        /\ ScheduleRestore(r, k)
        /\ limited' = [limited EXCEPT ![r] = @ \cup {k}]
        /\ task' = [task EXCEPT ![r] = Idle]
        /\ UNCHANGED <<up, configVars, balancerVars, events, signalling,
                       healthVars, healthy>>

(* A pending restore elapses and the task builds a dispatcher for it.      *)
RestoreTimer(r, k) ==
    /\ up /\ task[r].at = "idle" /\ k \in timers[r]
    /\ timers' = [timers EXCEPT ![r] = @ \ {k}]
    /\ \/ /\ task' = [task EXCEPT ![r] = [at |-> "restoring", key |-> k]]
          /\ UNCHANGED up
       \/ /\ DispatcherMayFail
          /\ up' = FALSE
          /\ UNCHANGED task
    /\ UNCHANGED <<configVars, balancerVars, chan, events, signalling,
                   limited, healthVars, healthy>>

(* tx.send(Change::Insert).await returns; the key is forgotten.            *)
SendRateLimitInsert(r) ==
    LET k == task[r].key
    IN  /\ up /\ task[r].at = "restoring"
        /\ Send(r, [op |-> "Insert", key |-> k])
        /\ limited' = [limited EXCEPT ![r] = @ \ {k}]
        /\ task' = [task EXCEPT ![r] = Idle]
        /\ UNCHANGED <<up, configVars, balancerVars, events, signalling,
                       timers, healthVars, healthy>>

-----------------------------------------------------------------------------
(* The health monitor.                                                     *)

(* try_join_all has joined the checks of every router.  AllHealthy also    *)
(* waits for recovered providers: a faulty variant.                        *)
RoundJoined_AllHealthy ==
    \A r \in Routers : todo[r] = {} /\ sending[r] = {} /\ unhealthy[r] = {}

RoundJoined == \A r \in Routers : todo[r] = {} /\ sending[r] = {}

(* run_forever starts the next round of checks.                            *)
HealthTick ==
    /\ up /\ RoundJoined
    /\ todo' = [r \in Routers |-> Keys]
    /\ UNCHANGED <<up, configVars, balancerVars, chan, events, signalling,
                   rateLimitVars, unhealthy, sending, healthy>>

(* The keys of the same provider and endpoint type: the key itself in the  *)
(* provider strategies, every model of the provider in the model ones.     *)
Siblings(k) == {j \in Keys : /\ ProviderOf[j.target] = ProviderOf[k.target]
                             /\ j.endpoint = k.endpoint}

(* The body of the check loop for one target, up to its first send.        *)
HealthCheck(r, k) ==
    LET isHealthy == healthy[ProviderOf[k.target]]
        wasUnhealthy == k \in unhealthy[r]
    IN  /\ up /\ k \in todo[r] /\ sending[r] = {}
        /\ todo' = [todo EXCEPT ![r] = @ \ {k}]
        /\ \/ /\ ~isHealthy /\ ~wasUnhealthy
              /\ sending' = [sending EXCEPT ![r] =
                                [op : {"Remove"}, key : Siblings(k)]]
              /\ unhealthy' = IF ModelKind(r)
                              THEN [unhealthy EXCEPT ![r] = @ \cup Siblings(k)]
                              ELSE unhealthy
              /\ UNCHANGED up
           \/ /\ isHealthy /\ wasUnhealthy
              /\ unhealthy' = [unhealthy EXCEPT ![r] = @ \ {k}]
              /\ \/ /\ sending' = [sending EXCEPT ![r] =
                                      [op : {"Insert"}, key : Siblings(k)]]
                    /\ UNCHANGED up
                 \/ /\ DispatcherMayFail
                    /\ up' = FALSE
                    /\ UNCHANGED sending
           \/ /\ isHealthy # wasUnhealthy
              /\ UNCHANGED <<up, sending, unhealthy>>
        /\ UNCHANGED <<configVars, balancerVars, chan, events, signalling,
                       rateLimitVars, healthy>>

(* One of the check's sends returns.  The provider strategies record the   *)
(* key only now.                                                           *)
HealthSend(r, c) ==
    /\ up /\ c \in sending[r]
    /\ Send(r, c)
    /\ sending' = [sending EXCEPT ![r] = @ \ {c}]
    /\ unhealthy' = IF c.op = "Remove"
                    THEN [unhealthy EXCEPT ![r] = @ \cup {c.key}]
                    ELSE unhealthy
    /\ UNCHANGED <<up, configVars, balancerVars, events, signalling,
                   rateLimitVars, todo, healthy>>

(* The metrics window moves on and the provider's error ratio drops.       *)
Recover(p) ==
    /\ up /\ ~healthy[p]
    /\ healthy' = [healthy EXCEPT ![p] = TRUE]
    /\ UNCHANGED <<up, configVars, balancerVars, chan, events, signalling,
                   rateLimitVars, healthVars>>

(* After token.trigger() every service stops.                              *)
ShutDown == ~up /\ UNCHANGED vars

-----------------------------------------------------------------------------
Next ==
    \/ \E r \in Routers :
        \/ ApplyChange(r)
        \/ ReceiveEvent(r)
        \/ SendRateLimitRemove(r)
        \/ SendRateLimitInsert(r)
        \/ \E e \in Endpoints : \/ Request(r, e)
                                \/ RejectNoServices(r, e)
                                \/ \E k \in Keys : \/ Dispatch(r, e, k)
                                                  \/ DispatchRateLimited(r, e, k)
        \/ \E k \in Keys : RestoreTimer(r, k) \/ HealthCheck(r, k)
        \/ \E c \in Changes : HealthSend(r, c)
        \/ \E ev \in Events : SignalMonitor(r, ev)
    \/ RateLimitTick
    \/ HealthTick
    \/ \E p \in Providers : Recover(p)
    \/ ShutDown

Spec == Init /\ [][Next]_vars

(* Spawned tasks and woken futures run, select! starves none of its        *)
(* branches, senders blocked on a full channel are served in FIFO order, a *)
(* sleeping timer elapses, a provider without traffic leaves its error     *)
(* window.  Nothing is assumed of Request: clients promise nothing.        *)
Fairness ==
    /\ WF_vars(RateLimitTick)
    /\ WF_vars(HealthTick)
    /\ \A p \in Providers : WF_vars(Recover(p))
    /\ \A r \in Routers :
        /\ WF_vars(ApplyChange(r))
        /\ WF_vars(ReceiveEvent(r))
        /\ \A k \in Keys : SF_vars(RestoreTimer(r, k))
        /\ SF_vars(SendRateLimitRemove(r) \/ SendRateLimitInsert(r))
        /\ SF_vars(\E c \in Changes : HealthSend(r, c))
        /\ WF_vars(\E ev \in Events : SignalMonitor(r, ev))
        /\ WF_vars(\E k \in Keys : HealthCheck(r, k))
        /\ \A e \in Endpoints :
            WF_vars(\/ RejectNoServices(r, e)
                    \/ \E k \in Keys : Dispatch(r, e, k) \/ DispatchRateLimited(r, e, k))

LiveSpec == Spec /\ Fairness

-----------------------------------------------------------------------------
(* After the Change events of s are applied to a cache that does (present) *)
(* or does not hold a service for key k, it holds one.                     *)
SettlesIn(present, s, k) ==
    \/ present /\ \A i \in DOMAIN s : s[i].key # k
    \/ \E i \in DOMAIN s : /\ s[i] = [op |-> "Insert", key |-> k]
                          /\ \A j \in DOMAIN s : j > i => s[j].key # k

EndsInserted(r, k) ==
    SettlesIn(k \in pool[r][monitored[r]], chan[r], k)

(* A monitor holds the key out, or an insertion of it is being sent, or    *)
(* the balancer ends up with it.                                           *)
Kept(r, k) ==
    \/ k \in limited[r] \cup unhealthy[r]
    \/ [op |-> "Insert", key |-> k] \in sending[r]
    \/ EndsInserted(r, k)

(* NoKeyLost: two monitors edit one balancer without knowing of each       *)
(* other, through a channel that may be full.  A key that neither monitor  *)
(* holds out is in the balancer, or its insertion is on the way: no        *)
(* interleaving of removals and restores loses a provider for good.        *)
NoKeyLost == up => \A r \in Routers, k \in Keys : Kept(r, k)

(* The key whose restore is in progress.                                   *)
Restoring(r) == IF task[r].at = "restoring" THEN {task[r].key} ELSE {}

(* RestoreScheduled: every key the rate limit task holds out has exactly   *)
(* one restore ahead of it (a pending timer or the restore in progress),   *)
(* and no timer runs for a key that is not held out: duplicate 429 events  *)
(* neither leak a key nor schedule a second restore.                       *)
RestoreScheduled ==
    up => \A r \in Routers :
        /\ limited[r] = timers[r] \cup Restoring(r)
        /\ timers[r] \cap Restoring(r) = {}
        /\ task[r].at = "removing" => task[r].key \notin limited[r]

(* ProvidersKept: no interleaving of the two monitors loses a provider or  *)
(* schedules two restores of it.                                           *)
ProvidersKept == NoKeyLost /\ RestoreScheduled

(* LimitedProviderIsOut: while the rate limit monitor holds a key out for  *)
(* 429 answers of its balancer, a balancer that has caught up with its     *)
(* channel picks no service of that provider.                              *)
LimitedProviderIsOut ==
    up => \A r \in Routers : chan[r] = <<>> =>
        \A k \in limited[r], j \in pool[r][monitored[r]] :
            ProviderOf[j.target] # ProviderOf[k.target]

(* RateLimitKeepsGatewayUp: as long as dispatchers can be built, no        *)
(* upstream answer shuts the process down.                                 *)
RateLimitKeepsGatewayUp == ~DispatcherMayFail => up

Busy(r) == []<>(request[r][monitored[r]])

(* The health monitor joins the checks of all routers, and counts the      *)
(* errors of a provider over all of them: a balancer depends on the others *)
(* being polled and on their traffic not keeping a provider unhealthy.     *)
Undisturbed(r, e) ==
    \A q \in Routers, f \in Endpoints : <<q, f>> # <<r, e>> =>
        Busy(q) /\ <>[](\A p \in Providers : healthy[p])

(* RequestServed: a request that waits because every service was removed   *)
(* is served once one comes back; it does not wait for ever.               *)
RequestServed ==
    \A r \in Routers, e \in Endpoints :
        Undisturbed(r, e) => (request[r][e] ~> ~(up /\ request[r][e]))

(* BusyRouterIsChecked: as long as all routers keep receiving requests the *)
(* health monitor keeps checking each of them, although its sends block.   *)
BusyRouterIsChecked ==
    (\A q \in Routers : Busy(q)) => \A r \in Routers : []<>(~up \/ todo[r] # {})

(* LimitedKeyReturns: a key held out for rate limiting is given back, even *)
(* when the channel to the balancer is full, if requests keep coming.      *)
LimitedKeyReturns ==
    \A r \in Routers : Busy(r) =>
        \A k \in Keys : k \in limited[r] ~> ~(up /\ k \in limited[r])
=============================================================================
