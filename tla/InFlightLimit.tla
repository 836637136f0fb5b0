---------------------------- MODULE InFlightLimit ----------------------------
(***************************************************************************)
(* The cap on concurrent requests of GatewayInFlightLimitLayer.            *)
(*                                                                         *)
(* A request takes a slot before the inner services run and gives it back  *)
(* when the body of its response ends or is dropped (CountedBody).  Slots  *)
(* are counted in Redis, shared by all gateway processes, or, while Redis  *)
(* fails, in the memory of the process; use_redis says which, and a        *)
(* background task sets it again when a ping succeeds.  The commands of a  *)
(* process go one after the other over one connection, whose mutex is held *)
(* until the reply has come.                                               *)
(***************************************************************************)
EXTENDS Naturals, FiniteSets

CONSTANTS
    Gateways,  \* gateway processes
    Requests,  \* each stands for any number of requests in succession
    Home,      \* request -> the process that serves it
    Max,       \* max_concurrent
    MayErr,    \* whether connecting may fail and Redis may reply errors
    MayBreak,  \* whether an open connection may be lost
    MayCancel, \* whether clients may disconnect before the response
    MayCrash   \* whether processes may crash and restart

ASSUME InFlightConstants ==
    /\ IsFiniteSet(Requests)
    /\ Home \in [Requests -> Gateways]
    /\ Max \in Nat \ {0}
    /\ MayErr \in BOOLEAN /\ MayBreak \in BOOLEAN
    /\ MayCancel \in BOOLEAN /\ MayCrash \in BOOLEAN

VARIABLES
    pc,        \* request -> where it is in call
    slot,      \* request -> its HeldSlot
    released,  \* request -> the flag of its CountedBody
    memory,    \* gateway -> counter of its MemoryInFlightLimiter
    counter,   \* the counter in Redis
    releasing, \* requests whose spawned Redis release has yet to run
    useRedis,  \* gateway -> use_redis
    conn,      \* gateway -> connection of its AppRedis
    leaked,    \* history: slots of counter that nobody will give back
    forgotten  \* history: gateway -> such slots of its memory counter

inFlightVars == <<pc, slot, released, memory, counter, releasing, useRedis, conn,
          leaked, forgotten>>

requestVars == <<pc, slot, released>>
redisVars == <<useRedis, conn>>
history == <<leaked, forgotten>>

(* waiting for the connection; the script has granted or denied a slot and *)
(* the reply is on its way; inner services run; the body streams; the body *)
(* has ended and is not dropped yet.                                       *)
Points == {"idle", "waiting", "granted", "denied", "rejected", "inner", "body", "ended"}
Slots == {"none", "memory", "redis"}
Connections == {"none", "open", "broken"}

(* The scripts and the mutex keep both counters within the maximum.        *)
InFlightTypeOK ==
    /\ pc \in [Requests -> Points]
    /\ slot \in [Requests -> Slots]
    /\ released \in [Requests -> BOOLEAN]
    /\ memory \in [Gateways -> 0 .. Max]
    /\ counter \in 0 .. Max
    /\ releasing \in SUBSET Requests
    /\ useRedis \in [Gateways -> BOOLEAN]
    /\ conn \in [Gateways -> Connections]
    /\ leaked \in Nat
    /\ forgotten \in [Gateways -> Nat]

(* GatewayInFlightLimitLayer::new: with the Redis backend the first ping   *)
(* decides whether Redis is used; the memory backend starts without it.    *)
Started(uses, connection) ==
    \/ uses /\ connection = "open"
    \/ ~uses /\ connection = "none"

InFlightInit ==
    /\ pc = [r \in Requests |-> "idle"]
    /\ slot = [r \in Requests |-> "none"]
    /\ released = [r \in Requests |-> FALSE]
    /\ memory = [g \in Gateways |-> 0]
    /\ counter = 0
    /\ releasing = {}
    /\ useRedis \in [Gateways -> BOOLEAN]
    /\ conn \in [Gateways -> Connections]
    /\ \A g \in Gateways : Started(useRedis[g], conn[g])
    /\ leaked = 0
    /\ forgotten = [g \in Gateways |-> 0]

-----------------------------------------------------------------------------
(* Requests of g that hold a memory slot; requests that hold a Redis slot, *)
(* or whose release of one is on its way.                                  *)
MemoryHeld(g) == {r \in Requests : Home[r] = g /\ slot[r] = "memory" /\ ~released[r]}
RedisHeld == {r \in Requests : slot[r] = "redis" /\ ~released[r]} \cup releasing

(* History: the holders among R leave without giving their Redis slots     *)
(* back.                                                                   *)
Leak(R) == leaked' = leaked + Cardinality(RedisHeld \cap R)

(* No request of g holds the mutex of the connection.                      *)
Unlocked(g) == \A r \in Requests : Home[r] = g => pc[r] \notin {"granted", "denied"}

(* A command of g takes effect: a missing connection is opened first.      *)
Executes(g) ==
    /\ conn[g] # "broken"
    /\ conn' = [conn EXCEPT ![g] = "open"]

(* A command of g fails and has no effect.  A MultiplexedConnection that   *)
(* is lost stays lost, and only a missing connection is opened.            *)
Fails(g) ==
    \/ conn[g] = "broken" /\ UNCHANGED conn
    \/ /\ MayErr /\ conn[g] # "broken"
       /\ conn' \in {conn, [conn EXCEPT ![g] = "open"]}
    \/ /\ MayBreak /\ conn[g] # "broken"
       /\ conn' = [conn EXCEPT ![g] = "broken"]

(* MemoryInFlightLimiter::try_acquire and the answer of call.              *)
AcquireMemory(r) ==
    LET g == Home[r]
        free == memory[g] < Max
    IN  /\ pc' = [pc EXCEPT ![r] = IF free THEN "inner" ELSE "rejected"]
        /\ slot' = [slot EXCEPT ![r] = IF free THEN "memory" ELSE "none"]
        /\ memory' = IF free THEN [memory EXCEPT ![g] = @ + 1] ELSE memory

(* try_acquire: use_redis is read once.                                    *)
Arrive(r) ==
    /\ pc[r] \in {"idle", "rejected"} /\ r \notin releasing
    /\ IF useRedis[Home[r]]
       THEN /\ pc' = [pc EXCEPT ![r] = "waiting"]
            /\ UNCHANGED <<slot, memory>>
       ELSE AcquireMemory(r)
    /\ UNCHANGED <<released, counter, releasing, redisVars, history>>

(* acquire_in_flight.lua: INCR, and DECR again when the maximum is passed. *)
(* Inclusive, a faulty variant, takes one more.                            *)
Grants_Inclusive == counter <= Max

Grants == counter + 1 <= Max

Evaluate(r) ==
    /\ pc[r] = "waiting" /\ Unlocked(Home[r])
    /\ Executes(Home[r])
    /\ pc' = [pc EXCEPT ![r] = IF Grants THEN "granted" ELSE "denied"]
    /\ slot' = IF Grants THEN [slot EXCEPT ![r] = "redis"] ELSE slot
    /\ counter' = IF Grants THEN counter + 1 ELSE counter
    /\ UNCHANGED <<released, memory, releasing, useRedis, history>>

Reply(r) ==
    /\ \/ pc[r] = "granted" /\ pc' = [pc EXCEPT ![r] = "inner"]
       \/ pc[r] = "denied" /\ pc' = [pc EXCEPT ![r] = "rejected"]
    /\ UNCHANGED <<slot, released, memory, counter, releasing, redisVars, history>>

(* The EVAL fails, before the script has run or after: the request turns   *)
(* to the memory counter.                                                  *)
EvaluateFails(r) ==
    /\ \/ pc[r] = "waiting" /\ Unlocked(Home[r]) /\ Fails(Home[r])
       \/ /\ MayBreak /\ pc[r] \in {"granted", "denied"}
          /\ conn' = [conn EXCEPT ![Home[r]] = "broken"]
    /\ useRedis' = [useRedis EXCEPT ![Home[r]] = FALSE]
    /\ AcquireMemory(r)
    /\ Leak({r})
    /\ UNCHANGED <<released, counter, releasing, forgotten>>

(* The inner services answer; the body is wrapped in a CountedBody.        *)
Respond(r) ==
    /\ pc[r] = "inner"
    /\ pc' = [pc EXCEPT ![r] = "body"]
    /\ UNCHANGED <<slot, released, memory, counter, releasing, redisVars, history>>

(* The client disconnects and the future of call is dropped: nothing in it *)
(* gives the slot back.                                                    *)
Cancel(r) ==
    /\ MayCancel /\ pc[r] \in {"waiting", "granted", "denied", "inner"}
    /\ pc' = [pc EXCEPT ![r] = "idle"]
    /\ slot' = [slot EXCEPT ![r] = "none"]
    /\ Leak({r})
    /\ forgotten' = IF slot[r] = "memory" THEN [forgotten EXCEPT ![Home[r]] = @ + 1]
                    ELSE forgotten
    /\ UNCHANGED <<released, memory, counter, releasing, redisVars>>

(* CountedBody::fire_release: on_release runs once.  A memory slot is      *)
(* given back at once, for a Redis slot a task is spawned.  Twice is a     *)
(* faulty variant that ignores the flag, Leaks one that forgets Redis.     *)
FireRelease_Twice(r) ==
    /\ memory' = IF slot[r] = "memory" /\ memory[Home[r]] > 0
                 THEN [memory EXCEPT ![Home[r]] = @ - 1] ELSE memory
    /\ releasing' = IF slot[r] = "redis" THEN releasing \cup {r} ELSE releasing

FireRelease_Leaks(r) ==
    /\ memory' = IF ~released[r] /\ slot[r] = "memory" /\ memory[Home[r]] > 0
                 THEN [memory EXCEPT ![Home[r]] = @ - 1] ELSE memory
    /\ UNCHANGED releasing

FireRelease(r) ==
    /\ memory' = IF ~released[r] /\ slot[r] = "memory" /\ memory[Home[r]] > 0
                 THEN [memory EXCEPT ![Home[r]] = @ - 1] ELSE memory
    /\ releasing' = IF ~released[r] /\ slot[r] = "redis"
                    THEN releasing \cup {r} ELSE releasing

(* poll_frame returns the end of the body or an error.                     *)
BodyEnds(r) ==
    /\ pc[r] = "body"
    /\ pc' = [pc EXCEPT ![r] = "ended"]
    /\ FireRelease(r)
    /\ released' = [released EXCEPT ![r] = TRUE]
    /\ UNCHANGED <<slot, counter, redisVars, history>>

(* The body is dropped, after its end or before.                           *)
BodyDropped(r) ==
    /\ pc[r] \in {"body", "ended"}
    /\ pc' = [pc EXCEPT ![r] = "idle"]
    /\ FireRelease(r)
    /\ slot' = [slot EXCEPT ![r] = "none"]
    /\ released' = [released EXCEPT ![r] = FALSE]
    /\ UNCHANGED <<counter, redisVars, history>>

(* decr_floor_refresh_ttl; the reply may be lost, and a failure is logged. *)
Decrement(r) ==
    /\ r \in releasing /\ Unlocked(Home[r])
    /\ releasing' = releasing \ {r}
    /\ \/ /\ Executes(Home[r]) \/ (MayBreak /\ conn[Home[r]] # "broken"
                                    /\ conn' = [conn EXCEPT ![Home[r]] = "broken"])
          /\ counter' = IF counter > 0 THEN counter - 1 ELSE 0
          /\ UNCHANGED leaked
       \/ /\ Fails(Home[r])
          /\ UNCHANGED counter
          /\ Leak({r})
    /\ UNCHANGED <<requestVars, memory, useRedis, forgotten>>

(* The background task pings Redis while it is not in use, whichever       *)
(* backend is configured.                                                  *)
Ping(g) ==
    /\ ~useRedis[g] /\ Unlocked(g)
    /\ \/ Executes(g) /\ useRedis' = [useRedis EXCEPT ![g] = TRUE]
       \/ Fails(g) /\ UNCHANGED useRedis
    /\ UNCHANGED <<requestVars, memory, counter, releasing, history>>

(* A request under an identity limit that is counted in Redis is counted   *)
(* over the same connection.  An error drops it; the timeout of a second   *)
(* drops the wait only, and the connection stays, lost or not.             *)
IdentityCountFails(g) ==
    /\ Unlocked(g)
    /\ \/ /\ conn[g] = "broken" \/ MayErr \/ MayBreak
          /\ conn' = [conn EXCEPT ![g] = "none"]
       \/ /\ MayBreak /\ conn[g] = "open"
          /\ conn' = [conn EXCEPT ![g] = "broken"]
    /\ UNCHANGED <<requestVars, memory, counter, releasing, useRedis, history>>

(* A process dies with its requests and spawned tasks, and starts again.   *)
Crash(g) ==
    /\ MayCrash
    /\ pc' = [r \in Requests |-> IF Home[r] = g THEN "idle" ELSE pc[r]]
    /\ slot' = [r \in Requests |-> IF Home[r] = g THEN "none" ELSE slot[r]]
    /\ released' = [r \in Requests |-> IF Home[r] = g THEN FALSE ELSE released[r]]
    /\ memory' = [memory EXCEPT ![g] = 0]
    /\ releasing' = {r \in releasing : Home[r] # g}
    /\ \E uses \in BOOLEAN, connection \in Connections :
        /\ Started(uses, connection)
        /\ useRedis' = [useRedis EXCEPT ![g] = uses]
        /\ conn' = [conn EXCEPT ![g] = connection]
    /\ Leak({r \in Requests : Home[r] = g})
    /\ forgotten' = [forgotten EXCEPT ![g] = 0]
    /\ UNCHANGED counter

-----------------------------------------------------------------------------
InFlightNext ==
    \/ \E r \in Requests :
        \/ Arrive(r) \/ Evaluate(r) \/ Reply(r) \/ EvaluateFails(r) \/ Respond(r)
        \/ Cancel(r) \/ BodyEnds(r) \/ BodyDropped(r) \/ Decrement(r)
    \/ \E g \in Gateways : Ping(g) \/ IdentityCountFails(g) \/ Crash(g)

InFlightSpec == InFlightInit /\ [][InFlightNext]_inFlightVars

(* The runtime polls every task, upstreams answer, bodies end or are       *)
(* dropped, the mutex is fair, the interval ticks and Redis is reachable   *)
(* again and again.                                                        *)
InFlightFairness ==
    /\ \A r \in Requests :
        /\ WF_inFlightVars(Reply(r) \/ Respond(r) \/ BodyEnds(r) \/ BodyDropped(r))
        /\ SF_inFlightVars(Decrement(r))
    /\ \A g \in Gateways : SF_inFlightVars(Ping(g) /\ useRedis'[g])

InFlightLiveSpec == InFlightSpec /\ InFlightFairness

-----------------------------------------------------------------------------
(* CapPerBackend: whatever errors, lost replies, disconnects, repeated     *)
(* releases and crashes happen, never more than Max requests hold slots of *)
(* one backend: a slot is not given back before its request is done.       *)
CapPerBackend ==
    /\ Cardinality(RedisHeld) <= Max
    /\ \A g \in Gateways : Cardinality(MemoryHeld(g)) <= Max

(* CountersExact: each counter is the number of slots held and of those    *)
(* lost by a disconnect, a failed or unanswered command or a crash: the    *)
(* response path itself loses none and gives none back twice, also across  *)
(* changes of the backend.                                                 *)
CountersExact ==
    /\ counter = Cardinality(RedisHeld) + leaked
    /\ \A g \in Gateways : memory[g] = Cardinality(MemoryHeld(g)) + forgotten[g]

(* SlotsAccounted: the cap holds on each backend, and each counter is what *)
(* is held and what is lost.                                               *)
SlotsAccounted == CapPerBackend /\ CountersExact

(* RejectedOnlyWhenFull: a request is turned away only while every slot is *)
(* held or lost.                                                           *)
RejectedOnlyWhenFull ==
    [][\A r \in Requests :
        /\ pc[r] = "waiting" /\ pc'[r] = "denied" => Cardinality(RedisHeld) + leaked >= Max
        /\ pc[r] \in {"idle", "waiting"} /\ pc'[r] = "rejected"
            => Cardinality(MemoryHeld(Home[r])) + forgotten[Home[r]] >= Max]_inFlightVars

(* SlotsComeBack: a full counter gets below the maximum again unless every *)
(* one of its slots is lost.                                               *)
SlotsComeBack ==
    /\ counter = Max ~> (counter < Max \/ leaked = Max)
    /\ \A g \in Gateways : memory[g] = Max ~> (memory[g] < Max \/ forgotten[g] = Max)

(* FullGatewayRecovers: a full gateway admits requests again.              *)
FullGatewayRecovers == counter = Max ~> counter < Max

(* RedisRestored: after an error the background task brings the gateway    *)
(* back to Redis, as the comment of use_redis says.                        *)
RedisRestored == \A g \in Gateways : ~useRedis[g] ~> useRedis[g]
=============================================================================
