----------------------------- MODULE McpSessions -----------------------------
(***************************************************************************)
(* Calls of MCP tools over streamable HTTP (agent/tools/mcp_streamable_    *)
(* http).  The calls of one caller to one target share a session: it is    *)
(* kept in Redis, made under a lock in Redis by one call of all gateways,  *)
(* or, when Redis is absent or fails, by one call of each gateway, whose   *)
(* other calls wait for it.  The server may forget a session at any time;  *)
(* a client may leave, and the time limit may end a call, at every await.  *)
(***************************************************************************)
EXTENDS Naturals, FiniteSets

CONSTANTS Calls,        \* calls with the same session key, each executed once
          Gateways,
          GatewayOf,    \* the gateway of each call
          None,         \* no session, no holder
          MaxSessions   \* bound on the sessions the server makes

Sessions == 1..MaxSessions

ASSUME McpAssumption ==
    /\ MaxSessions \in Nat
    /\ GatewayOf \in [Calls -> Gateways]
    /\ None \notin Calls /\ None \notin Sessions

VARIABLES
    redis,      \* whether the gateways have Redis
    step,       \* the await each call has reached
    via,        \* the branch that made its current request
    held,       \* the session it uses
    post,       \* its latest tools/call, as the server sees it
    executed,   \* how often the server executed its tool
    outcome,    \* its answer
    saved,      \* the session in the cache
    lock,       \* the call whose token holds the lock in Redis
    flight,     \* the call that initializes for each gateway
    channel,    \* the broadcast channel of each call's flight
    waitsFor,   \* the flight a call waits for
    live,       \* the sessions the server knows
    issued      \* how many it has made

mcpVars == <<redis, step, via, held, post, executed, outcome, saved, lock, flight, channel,
             waitsFor, live, issued>>

Branches == {"cache", "loser", "owner", "fresh", "local"}

McpTypeOK ==
    /\ redis \in BOOLEAN
    /\ step \in [Calls -> {"new", "load", "calling", "refresh", "delete", "guard", "init",
                           "keep", "await", "release", "done"}]
    /\ via \in [Calls -> Branches]
    /\ held \in [Calls -> 1..issued \cup {None}]
    /\ post \in [Calls -> {"none", "sent", "ok", "failed", "expired", "denied"}]
    /\ executed \in [Calls -> Nat]
    /\ outcome \in [Calls -> {"none", "completed", "failed", "error", "expired", "denied",
                              "dropped"}]
    /\ saved \in 1..issued \cup {None}
    /\ lock \in Calls \cup {None}
    /\ flight \in [Gateways -> Calls \cup {None}]
    /\ channel \in [Calls -> {"none", "open", "sent", "closed"}]
    /\ waitsFor \in [Calls -> Calls \cup {None}]
    /\ live \subseteq 1..issued
    /\ issued \in 0..MaxSessions

McpInit ==
    /\ redis \in BOOLEAN
    /\ step = [c \in Calls |-> "new"]
    /\ via = [c \in Calls |-> "cache"]
    /\ held = [c \in Calls |-> None]
    /\ post = [c \in Calls |-> "none"]
    /\ executed = [c \in Calls |-> 0]
    /\ outcome = [c \in Calls |-> "none"]
    /\ saved = None
    /\ lock = None
    /\ flight = [g \in Gateways |-> None]
    /\ channel = [c \in Calls |-> "none"]
    /\ waitsFor = [c \in Calls |-> None]
    /\ live = {}
    /\ issued = 0

server == <<live, issued>>
singleflight == <<flight, channel, waitsFor>>

\* Redis carries out a write, or fails; without Redis the cache is the no-op one.
Write(s) == saved' \in IF redis THEN {s, saved} ELSE {saved}

\* The branch returns its answer: the owner of the lock releases it first.
Finish(c, answer) ==
    /\ outcome' = [outcome EXCEPT ![c] = answer]
    /\ step' = [step EXCEPT ![c] = IF via[c] \in {"owner", "fresh"} THEN "release" ELSE "done"]

\* tools/call is posted with a session, or without one.
CallWith(c, s, branch) ==
    /\ step' = [step EXCEPT ![c] = "calling"]
    /\ via' = [via EXCEPT ![c] = branch]
    /\ held' = [held EXCEPT ![c] = s]
    /\ post' = [post EXCEPT ![c] = "sent"]

\* Without a usable session: initialize as the owner of the lock, else ask for the lock.
WithoutSession(c) == step' = [step EXCEPT ![c] = IF via[c] = "owner" THEN "init" ELSE "guard"]
-----------------------------------------------------------------------------
(* The cached session                                                       *)

\* execute_lifecycle_with_cache: method, URL and egress policy may refuse the target.
ArriveMcp(c) ==
    /\ step[c] = "new"
    /\ \/ step' = [step EXCEPT ![c] = "load"] /\ UNCHANGED outcome
       \/ /\ step' = [step EXCEPT ![c] = "done"]
          /\ outcome' = [outcome EXCEPT ![c] = "failed"]
    /\ UNCHANGED <<redis, via, held, post, executed, saved, lock, singleflight, server>>

\* load_reusable_cached_session: a hit, a miss or an error, or an entry past its time,
\* which is deleted like that of a session the server has forgotten.
Load(c) ==
    /\ step[c] = "load"
    /\ \/ saved # None /\ CallWith(c, saved, via[c])
       \/ WithoutSession(c) /\ UNCHANGED <<via, held, post>>
       \/ /\ saved # None
          /\ step' = [step EXCEPT ![c] = "delete"]
          /\ post' = [post EXCEPT ![c] = "expired"]
          /\ UNCHANGED <<via, held>>
    /\ UNCHANGED <<redis, executed, outcome, saved, lock, singleflight, server>>

\* The server, also after the gateway gave up: it executes the tool, refuses, fails
\* before or after executing it, or no longer knows the session.
ServerHandles(c) ==
    /\ post[c] = "sent"
    /\ \/ /\ held[c] \in live \cup {None}
          /\ executed' = [executed EXCEPT ![c] = @ + 1]
          /\ \E r \in {"ok", "failed"} : post' = [post EXCEPT ![c] = r]
       \/ /\ \E r \in {"denied", "failed"} \cup IF held[c] \in live THEN {} ELSE {"expired"} :
               post' = [post EXCEPT ![c] = r]
          /\ UNCHANGED executed
    /\ UNCHANGED <<redis, step, via, held, outcome, saved, lock, singleflight, server>>

\* As if an uncertain answer were taken for a forgotten session.
Answer_FailedExpired(c) ==
    /\ step[c] = "calling"
    /\ \/ /\ post[c] = "ok" /\ via[c] \notin {"fresh", "local"}
          /\ step' = [step EXCEPT ![c] = "refresh"] /\ UNCHANGED <<outcome, post>>
       \/ /\ post[c] = "ok" /\ via[c] \in {"fresh", "local"}
          /\ Finish(c, "completed") /\ UNCHANGED post
       \/ /\ post[c] \in {"expired", "failed"}
          /\ step' = [step EXCEPT ![c] = "delete"] /\ UNCHANGED outcome
          /\ post' = [post EXCEPT ![c] = "expired"]
       \/ /\ post[c] = "denied"
          /\ step' = [step EXCEPT ![c] = "delete"] /\ UNCHANGED <<outcome, post>>
       \/ Finish(c, "error") /\ UNCHANGED post
    /\ UNCHANGED <<redis, via, held, executed, saved, lock, singleflight, server>>

\* The answer to tools/call; a transport error, the timeout of the request, a JSON-RPC
\* error or a malformed answer end the call, whatever the server did.
Answer(c) ==
    /\ step[c] = "calling"
    /\ \/ /\ post[c] = "ok" /\ via[c] \notin {"fresh", "local"}
          /\ step' = [step EXCEPT ![c] = "refresh"] /\ UNCHANGED outcome
       \/ /\ post[c] = "ok" /\ via[c] \in {"fresh", "local"}
          /\ Finish(c, "completed")
       \/ /\ post[c] = "failed" /\ Finish(c, "failed")
       \/ /\ post[c] \in {"expired", "denied"}
          /\ step' = [step EXCEPT ![c] = "delete"] /\ UNCHANGED outcome
       \/ Finish(c, "error")
    /\ UNCHANGED <<redis, via, held, post, executed, saved, lock, singleflight, server>>

\* A completed call stores its session again, with a new expiry: this may bring back a
\* session that another call has found forgotten.
Refresh(c) ==
    /\ step[c] = "refresh"
    /\ Write(held[c])
    /\ Finish(c, "completed")
    /\ UNCHANGED <<redis, via, held, post, executed, lock, singleflight, server>>

\* The entry is deleted, even if it is not the one the call had loaded.  Only the 404 of
\* a cached session leads to another call.
Delete(c) ==
    /\ step[c] = "delete"
    /\ Write(None)
    /\ IF post[c] = "expired" /\ via[c] \notin {"fresh", "local"}
       THEN WithoutSession(c) /\ UNCHANGED outcome
       ELSE Finish(c, post[c])
    /\ UNCHANGED <<redis, via, held, post, executed, lock, singleflight, server>>
-----------------------------------------------------------------------------
(* A new session                                                            *)

\* get_or_try_init: the first call of a gateway initializes, the others wait for it.
JoinFlight(c) ==
    LET g == GatewayOf[c] IN
    /\ via' = [via EXCEPT ![c] = "local"]
    /\ \/ /\ flight[g] = None
          /\ flight' = [flight EXCEPT ![g] = c]
          /\ channel' = [channel EXCEPT ![c] = "open"]
          /\ step' = [step EXCEPT ![c] = "init"]
          /\ UNCHANGED waitsFor
       \/ /\ flight[g] # None
          /\ waitsFor' = [waitsFor EXCEPT ![c] = flight[g]]
          /\ step' = [step EXCEPT ![c] = "await"]
          /\ UNCHANGED <<flight, channel>>

\* SET NX: the lock is acquired, or held, then the call looks again for a session after
\* 25 ms, or Redis fails, perhaps after setting it.
Guard(c) ==
    /\ step[c] = "guard"
    /\ \/ ~redis /\ JoinFlight(c) /\ UNCHANGED lock
       \/ redis /\ JoinFlight(c) /\ lock' \in {lock, IF lock = None THEN c ELSE lock}
       \/ /\ redis
          /\ lock' = IF lock = None THEN c ELSE lock
          /\ via' = [via EXCEPT ![c] = IF lock = None THEN "owner" ELSE "loser"]
          /\ step' = [step EXCEPT ![c] = "load"]
          /\ UNCHANGED singleflight
    /\ UNCHANGED <<redis, held, post, executed, outcome, saved, server>>

\* Drop for SingleflightOwner: without a result the channel closes.
CloseFlight(c) ==
    IF via[c] = "local" /\ channel[c] = "open"
    THEN /\ flight' = [flight EXCEPT ![GatewayOf[c]] = None]
         /\ channel' = [channel EXCEPT ![c] = "closed"]
    ELSE UNCHANGED <<flight, channel>>

\* SingleflightOwner::finish: the entry is removed, then the waiters get the session.
FinishFlight(c) ==
    IF via[c] = "local"
    THEN /\ flight' = [flight EXCEPT ![GatewayOf[c]] = None]
         /\ channel' = [channel EXCEPT ![c] = "sent"]
    ELSE UNCHANGED <<flight, channel>>

\* initialize and notifications/initialized: a session, no session, or a failure.
InitializeSession(c) ==
    /\ step[c] = "init"
    /\ \/ /\ issued < MaxSessions
          /\ issued' = issued + 1
          /\ live' = live \cup {issued + 1}
          /\ held' = [held EXCEPT ![c] = issued + 1]
          /\ step' = [step EXCEPT ![c] = "keep"]
          /\ UNCHANGED <<via, post, outcome, flight, channel>>
       \/ /\ CallWith(c, None, IF via[c] = "owner" THEN "fresh" ELSE via[c])
          /\ FinishFlight(c)
          /\ UNCHANGED <<outcome, server>>
       \/ /\ Finish(c, "error")
          /\ CloseFlight(c)
          /\ UNCHANGED <<via, held, post, server>>
    /\ UNCHANGED <<redis, executed, saved, lock, waitsFor>>

\* The new session is stored, then used.
KeepSession(c) ==
    /\ step[c] = "keep"
    /\ Write(held[c])
    /\ CallWith(c, held[c], IF via[c] = "owner" THEN "fresh" ELSE via[c])
    /\ FinishFlight(c)
    /\ UNCHANGED <<redis, executed, outcome, lock, waitsFor, server>>

\* As if a waiter did not notice the end of the flight.
Receive_Ignores(c) ==
    /\ step[c] = "await"
    /\ channel[waitsFor[c]] = "sent"
    /\ CallWith(c, held[waitsFor[c]], "local") /\ UNCHANGED singleflight
    /\ UNCHANGED <<redis, executed, outcome, saved, lock, server>>

\* A waiter gets the session of the flight, or starts over when the channel closed.
Receive(c) ==
    /\ step[c] = "await"
    /\ \/ /\ channel[waitsFor[c]] = "sent"
          /\ CallWith(c, held[waitsFor[c]], "local")
          /\ UNCHANGED singleflight
       \/ /\ channel[waitsFor[c]] = "closed"
          /\ JoinFlight(c)
          /\ UNCHANGED <<held, post>>
    /\ UNCHANGED <<redis, executed, outcome, saved, lock, server>>

\* release_session_lock: the lock is deleted if it still holds the token; or Redis fails.
Release(c) ==
    /\ step[c] = "release"
    /\ lock' \in {lock, IF lock = c THEN None ELSE lock}
    /\ step' = [step EXCEPT ![c] = "done"]
    /\ UNCHANGED <<redis, via, held, post, executed, outcome, saved, singleflight, server>>

\* The time limit of the lifecycle, or the client's leaving: the call is dropped at its
\* await.  Its flight closes; its lock stays.
DropCall(c) ==
    /\ step[c] \notin {"new", "done"}
    /\ step' = [step EXCEPT ![c] = "done"]
    /\ outcome' = [outcome EXCEPT ![c] = IF @ = "none" THEN "dropped" ELSE @]
    /\ CloseFlight(c)
    /\ UNCHANGED <<redis, via, held, post, executed, saved, lock, waitsFor, server>>

\* As if the lock could expire before its owner is done.
LockExpires_Short ==
    /\ lock # None
    /\ lock' = None
    /\ UNCHANGED <<redis, step, via, held, post, executed, outcome, saved, singleflight, server>>

\* The lock outlives the call that holds it: session_lock_ttl_secs_for_timeout.
LockExpires ==
    /\ lock # None
    /\ step[lock] = "done" \/ via[lock] \notin {"owner", "fresh"}
    /\ lock' = None
    /\ UNCHANGED <<redis, step, via, held, post, executed, outcome, saved, singleflight, server>>

SavedExpires ==
    /\ saved # None
    /\ saved' = None
    /\ UNCHANGED <<redis, step, via, held, post, executed, outcome, lock, singleflight, server>>

\* The server forgets a session.
SessionExpires ==
    /\ \E s \in live : live' = live \ {s}
    /\ UNCHANGED <<redis, step, via, held, post, executed, outcome, saved, lock, singleflight,
                   issued>>

CallStep(c) ==
    \/ Load(c) \/ Answer(c) \/ Refresh(c) \/ Delete(c) \/ Guard(c) \/ InitializeSession(c)
    \/ KeepSession(c) \/ Receive(c) \/ Release(c)

McpNext ==
    \/ \E c \in Calls : ArriveMcp(c) \/ CallStep(c) \/ ServerHandles(c) \/ DropCall(c)
    \/ LockExpires \/ SavedExpires \/ SessionExpires

McpSpec == McpInit /\ [][McpNext]_mcpVars

\* The runtime polls every call, each request has its timeout, the lock its time to live.
\* Neither the server nor the time limit of the whole lifecycle is assumed to help.
McpFairness == WF_mcpVars(LockExpires) /\ \A c \in Calls : WF_mcpVars(CallStep(c))

McpLiveSpec == McpSpec /\ McpFairness
-----------------------------------------------------------------------------
(* Properties                                                               *)

\* A tool is executed at most once for a call, although a call may be posted again: only
\* the 404 of a forgotten session is, never a lost or failed answer
\* (execute_with_cached_session, call_cached_session_for_guard).
ToolExecutedOnce == \A c \in Calls : executed[c] <= 1

\* What the caller is told is true: a completed tool was executed; one refused for its
\* session or its credentials was not, so the caller may try again.
AnswerIsTrue ==
    \A c \in Calls :
        /\ outcome[c] = "completed" => executed[c] = 1
        /\ outcome[c] \in {"expired", "denied"} => executed[c] = 0

\* A call executes its tool at most once and its caller is told the truth about it.
McpCallsTrue == ToolExecutedOnce /\ AnswerIsTrue

\* No two calls that hold the lock initialize a session at the same time, and no two
\* calls of one gateway do when Redis is absent or fails, although a holder may be
\* cancelled, the lock may expire and its release may be lost.
OneInitializer ==
    \A c, d \in {x \in Calls : step[x] \in {"init", "keep"}} :
        c # d => \/ via[c] # via[d]
                 \/ via[c] = "local" /\ GatewayOf[c] # GatewayOf[d]

\* Every call ends, without help of its overall time limit: nobody waits for a flight
\* whose owner was cancelled, nor for a lock nobody releases (Drop for
\* SingleflightOwner, the loop of execute_fresh_lifecycle_guarded).
McpCallEnds == \A c \in Calls : step[c] = "load" ~> step[c] = "done"
=============================================================================
