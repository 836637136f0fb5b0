----------------------------- MODULE Dispatcher -----------------------------
(***************************************************************************)
(* One dispatch of a request to a provider (dispatcher/service.rs): the    *)
(* cached answer, the attempts at the provider, the retry at its regional  *)
(* endpoint, the fallback to another provider, the body on its way to the  *)
(* client, and the task that saves the body in the LLM cache.  A client    *)
(* may leave at every await; the upstream may answer, fail or break off.   *)
(***************************************************************************)
EXTENDS Naturals, Sequences, FiniteSets

CONSTANTS Dispatches,     \* requests for one prompt, so they share cache keys
          RequestKinds,          \* the kinds of request that arrive
          MaxRetries,     \* of fallback-policy.retry or global.retries; 0: none
          BucketSize,     \* slots per cache key
          BodyLen,        \* chunks of a response body
          MaxReconnects   \* bound on the reconnects of one event source

\* path: how the request came in and what is configured for it; stream, reads and
\* writes: its flags; endpoint: where resolve() takes the base URL from ("regional"
\* if the provider has a second base URL for the region "cn").
AllKinds ==
    [path : {"direct", "router", "unified", "media", "heartbeat", "validated"},
     stream : BOOLEAN, reads : BOOLEAN, writes : BOOLEAN,
     endpoint : {"fixed", "global", "regional"}]

ASSUME DispatchAssumption ==
    /\ RequestKinds \subseteq AllKinds /\ \A k \in RequestKinds : k.path = "media" => ~k.stream
    /\ MaxRetries \in Nat /\ MaxReconnects \in Nat
    /\ BucketSize \in Nat \ {0} /\ BodyLen \in Nat \ {0}

Upstreams == {"origin", "cn", "other"}

\* A cache key: the URL, and the body, in which a stream asks for a stream.
CacheKeys == Upstreams \X BOOLEAN

\* Outcomes of one call: an HTTP response, or an error of the transport.
Responses == {"ok", "client", "auth", "limited", "server"}
Failures == {"connect", "transport"}
Outcomes == Responses \cup Failures

VARIABLES
    phase,     \* where the dispatch of each request is
    kind,      \* its kind
    home,      \* the endpoint resolve() chose: "origin" or the learned "cn"
    tries,     \* attempts made at it
    reply,     \* the result so far: [from, call, out], call numbers the POST
    sent,      \* POSTs sent to any upstream
    pos,       \* chunks of the body the client has polled
    tap,       \* chunks in the channel of the saving task, as <<call, index>>
    broken,    \* history: the transfer of the body was cut short
    pump,      \* the background reader of an event stream
    saver,     \* the saving task
    free,      \* the slot its probe found free; 0: none
    kv,        \* the cache: entries by key and slot
    region     \* whether the key's region was learned to be "cn"

dispatchVars == <<phase, kind, home, tries, reply, sent, pos, tap, broken, pump, saver,
                  free, kv, region>>

Phases == {"new", "prepare", "lookup", "attempt", "regional", "fallback", "signal", "body",
           "ended", "left"}
NoReply == [from |-> "none", call |-> 0, out |-> "none"]
Empty == [from |-> "none", by |-> "none", out |-> "none", chunks |-> <<>>]

\* The request is sent once: no retry, no fallback, no cache.
Single(d) == kind[d].path \in {"media", "heartbeat"}

\* llm_kv_read_ok and llm_kv_write_enabled.
Reads(d) == kind[d].reads /\ kind[d].path \notin {"media", "heartbeat", "validated"}
Writes(d) == kind[d].writes /\ kind[d].path \notin {"media", "heartbeat", "validated"}

\* get_retry_config: direct requests have none.
Retries(d) == IF Single(d) \/ kind[d].path = "direct" THEN 0 ELSE MaxRetries

DispatchTypeOK ==
    /\ phase \in [Dispatches -> Phases]
    /\ kind \in [Dispatches -> AllKinds]
    /\ home \in [Dispatches -> {"origin", "cn"}]
    /\ \A d \in Dispatches : tries[d] \in 0..Retries(d) + 1
    /\ \A d \in Dispatches : reply[d] = NoReply
          \/ reply[d] \in [from : Upstreams, call : 1..sent[d], out : Outcomes]
    /\ sent \in [Dispatches -> 0..MaxRetries + 3 + MaxReconnects]
    /\ pos \in [Dispatches -> 0..BodyLen]
    /\ \A d \in Dispatches : Len(tap[d]) <= BodyLen
    /\ broken \in [Dispatches -> BOOLEAN]
    /\ pump \in [Dispatches -> {"none", "open", "reconnecting", "closed"}]
    /\ saver \in [Dispatches -> {"none", "collecting", "probing", "putting", "done"}]
    /\ free \in [Dispatches -> 0..BucketSize]
    /\ DOMAIN kv = CacheKeys /\ \A k \in CacheKeys : DOMAIN kv[k] = 1..BucketSize
    /\ region \in BOOLEAN

DispatchInit ==
    /\ phase = [d \in Dispatches |-> "new"]
    /\ kind \in [Dispatches -> RequestKinds]
    /\ home = [d \in Dispatches |-> "origin"]
    /\ tries = [d \in Dispatches |-> 0]
    /\ reply = [d \in Dispatches |-> NoReply]
    /\ sent = [d \in Dispatches |-> 0]
    /\ pos = [d \in Dispatches |-> 0]
    /\ tap = [d \in Dispatches |-> <<>>]
    /\ broken = [d \in Dispatches |-> FALSE]
    /\ pump = [d \in Dispatches |-> "none"]
    /\ saver = [d \in Dispatches |-> "none"]
    /\ free = [d \in Dispatches |-> 0]
    /\ kv = [k \in CacheKeys |-> [i \in 1..BucketSize |-> Empty]]
    /\ region = FALSE

body == <<pos, tap, broken, pump>>
cache == <<saver, free, kv>>

At(d, s) == phase[d] = s
Goto(d, s) == phase' = [phase EXCEPT ![d] = s]
-----------------------------------------------------------------------------
(* Before the upstream is called                                            *)

\* extract_request_context and the provider allowlist may refuse.
StartDispatch(d) ==
    /\ At(d, "new")
    /\ Goto(d, "prepare") \/ Goto(d, "ended")
    /\ UNCHANGED <<kind, home, tries, reply, sent, body, cache, region>>

\* TargetEndpointResolver::resolve (a stream does not use the learned region, and the
\* lookup may fail), then the body, prompt cache, content filter, model policy,
\* validation and cache headers: each may refuse the request, none has sent it.
Prepare(d) ==
    /\ At(d, "prepare")
    /\ \/ /\ \E known \in {FALSE, region /\ kind[d].endpoint = "regional" /\ ~kind[d].stream} :
               home' = [home EXCEPT ![d] = IF known THEN "cn" ELSE "origin"]
          /\ Goto(d, "lookup")
       \/ Goto(d, "ended") /\ UNCHANGED home
    /\ UNCHANGED <<kind, tries, reply, sent, body, cache, region>>

\* read_bucket: a hit needs every slot; errors, a closed gate and the time limit miss.
\* Then the key of the provider is put into the request, or there is none.
CacheLookup(d) ==
    /\ At(d, "lookup")
    /\ \/ /\ Reads(d)
          /\ \A i \in 1..BucketSize : kv[<<home[d], kind[d].stream>>][i] # Empty
          /\ Goto(d, "ended")
       \/ Goto(d, "attempt") \/ Goto(d, "ended")
    /\ UNCHANGED <<kind, home, tries, reply, sent, body, cache, region>>
-----------------------------------------------------------------------------
(* The calls                                                                *)

\* As if an uncertain transport error were retried.
Retryable_Uncertain(d, out) == out \in {"server", "connect", "transport"}

\* The predicate of the retries and of the fallback: not a call whose fate is unknown,
\* except for a stream that has not started.
Retryable(d, out) ==
    out \in IF kind[d].stream THEN {"server", "connect", "transport"} ELSE {"server", "connect"}

\* should_attempt_regional_endpoint_retry.
RegionalRetryDue(d, r) ==
    /\ ~Single(d) /\ ~kind[d].stream
    /\ kind[d].endpoint = "regional" /\ home[d] = "origin"
    /\ r.out = "auth"

\* should_attempt_cross_provider_default_model_fallback: only for an implicit model of
\* the unified API, after retries, and not after a response of the regional endpoint.
FallbackDue(d, r) ==
    /\ kind[d].path = "unified" /\ ~kind[d].stream
    /\ MaxRetries > 0
    /\ ~(r.from = "cn" /\ r.out \in Responses)
    /\ Retryable(d, r.out)

\* The result of dispatch_sync or dispatch_stream: a response, whose body is wrapped but
\* not yet polled, or an error.  A checked business failure turns a 200 into an error
\* response.
Result(d, e, out) == [from |-> e, call |-> sent[d] + 1, out |-> out]
Counted(d) == [sent EXCEPT ![d] = @ + 1]

\* Streams report any status but success as an error.
IsResponse(d, r) == r.out \in IF kind[d].stream THEN {"ok"} ELSE Responses

\* The dispatch has its result.  An error is returned; otherwise the saving task is
\* spawned (it ends at once unless the status is a success) and a 429 is reported to
\* the rate limit monitor before the response is returned.
Deliver(d, r) ==
    /\ reply' = [reply EXCEPT ![d] = r]
    /\ IF IsResponse(d, r)
       THEN /\ Goto(d, IF r.out = "limited" THEN "signal" ELSE "body")
            /\ saver' = [saver EXCEPT ![d] =
                           IF ~Writes(d) THEN "none"
                           ELSE IF r.out = "ok" THEN "collecting" ELSE "done"]
            /\ pump' = [pump EXCEPT ![d] =
                           IF kind[d].stream /\ ~Single(d) THEN "open" ELSE "none"]
       ELSE Goto(d, "ended") /\ UNCHANGED <<saver, pump>>

\* The next call, with the result so far.
Again(d, s, r) ==
    /\ reply' = [reply EXCEPT ![d] = r]
    /\ Goto(d, s)
    /\ UNCHANGED <<saver, pump>>

AfterRegional(d, r) == IF FallbackDue(d, r) THEN Again(d, "fallback", r) ELSE Deliver(d, r)

AfterAttempts(d, r) ==
    IF RegionalRetryDue(d, r) THEN Again(d, "regional", r) ELSE AfterRegional(d, r)

\* As if the tap kept the body of failed attempts.
Attempt_TapsFailures(d) ==
    /\ At(d, "attempt")
    /\ \E out \in Outcomes : LET r == Result(d, home[d], out) IN
         /\ IF Retryable(d, out) /\ tries[d] < Retries(d)
            THEN Again(d, "attempt", r) ELSE AfterAttempts(d, r)
         /\ tap' = [tap EXCEPT ![d] = IF out = "server" /\ Writes(d)
                                     THEN <<<<r.call, 1>>>> ELSE @]
    /\ sent' = Counted(d)
    /\ tries' = [tries EXCEPT ![d] = @ + 1]
    /\ UNCHANGED <<kind, home, pos, broken, free, kv, region>>

\* RetryWithResult (sync) and Retryable (stream): an attempt, then after the back-off the
\* next one, while the result is retryable and attempts are left.
Attempt(d) ==
    /\ At(d, "attempt")
    /\ \E out \in Outcomes : LET r == Result(d, home[d], out) IN
         IF Retryable(d, out) /\ tries[d] < Retries(d)
         THEN Again(d, "attempt", r) ELSE AfterAttempts(d, r)
    /\ sent' = Counted(d)
    /\ tries' = [tries EXCEPT ![d] = @ + 1]
    /\ UNCHANGED <<kind, home, pos, tap, broken, free, kv, region>>

\* retry_once: any response of the regional endpoint replaces the first one, and its
\* success is remembered; an error of the retry keeps the first response.
RegionalRetry(d) ==
    /\ At(d, "regional")
    /\ \/ \E out \in Responses :
            /\ AfterRegional(d, Result(d, "cn", out))
            /\ region' = (region \/ out = "ok")
            /\ sent' = Counted(d)
       \/ /\ AfterRegional(d, reply[d])
          /\ sent' \in {sent, Counted(d)}
          /\ UNCHANGED region
    /\ UNCHANGED <<kind, home, tries, pos, tap, broken, free, kv>>

\* try_cross_provider_default_model_fallback: no other model, an error on the way to the
\* call or of the call keep the original result; any response replaces it.
Fallback(d) ==
    /\ At(d, "fallback")
    /\ \/ \E out \in Responses : Deliver(d, Result(d, "other", out)) /\ sent' = Counted(d)
       \/ Deliver(d, reply[d]) /\ sent' \in {sent, Counted(d)}
    /\ UNCHANGED <<kind, home, tries, pos, tap, broken, free, kv, region>>

\* The send of a 429 to the rate limit monitor, which may block for long.
SignalRateLimit(d) ==
    /\ At(d, "signal")
    /\ Goto(d, "body")
    /\ UNCHANGED <<kind, home, tries, reply, sent, body, cache, region>>
-----------------------------------------------------------------------------
(* The body                                                                 *)

\* The channel of the saving task exists only for requests that write.
Tapped(d, chunk) == IF Writes(d) THEN Append(tap[d], chunk) ELSE tap[d]

\* The client polls the next chunk, which is copied to the saving task.
PollBody(d) ==
    /\ At(d, "body") /\ pos[d] < BodyLen
    /\ pos' = [pos EXCEPT ![d] = @ + 1]
    /\ tap' = [tap EXCEPT ![d] = Tapped(d, <<reply[d].call, pos[d] + 1>>)]
    /\ UNCHANGED <<phase, kind, home, tries, reply, sent, broken, pump, cache, region>>

EndBody(d) ==
    /\ At(d, "body") /\ pos[d] = BodyLen
    /\ Goto(d, "ended")
    /\ pump' = [pump EXCEPT ![d] = IF @ = "none" THEN @ ELSE "closed"]
    /\ UNCHANGED <<kind, home, tries, reply, sent, pos, tap, broken, cache, region>>

\* The upstream breaks off, or the total timeout of the call: the client's body ends
\* with an error.  The reader of an event stream goes on.
BodyBreaks(d) ==
    /\ At(d, "body")
    /\ Goto(d, "ended")
    /\ broken' = [broken EXCEPT ![d] = TRUE]
    /\ pump' = [pump EXCEPT ![d] = IF @ = "open" THEN "reconnecting" ELSE @]
    /\ UNCHANGED <<kind, home, tries, reply, sent, pos, tap, cache, region>>

\* The event source sends its request again, although nobody reads the stream any
\* more; it stops at the first message it cannot deliver or at a status error.
Reconnect(d) ==
    /\ pump[d] = "reconnecting"
    /\ sent[d] < MaxRetries + 3 + MaxReconnects
    /\ sent' = Counted(d)
    /\ \E p \in {"open", "reconnecting", "closed"} : pump' = [pump EXCEPT ![d] = p]
    /\ UNCHANGED <<phase, kind, home, tries, reply, pos, tap, broken, cache, region>>

PumpStops(d) ==
    /\ pump[d] = "open" /\ phase[d] \in {"ended", "left"}
    /\ pump' = [pump EXCEPT ![d] = "closed"]
    /\ UNCHANGED <<phase, kind, home, tries, reply, sent, pos, tap, broken, cache, region>>

\* The client leaves: the dispatch is dropped at its await, or its body is; a call in
\* flight may have reached the upstream.
ClientLeaves(d) ==
    /\ phase[d] \notin {"new", "ended", "left"}
    /\ Goto(d, "left")
    /\ broken' = [broken EXCEPT ![d] = At(d, "body")]
    /\ sent' \in {sent, IF phase[d] \in {"attempt", "regional", "fallback"}
                       THEN Counted(d) ELSE sent}
    /\ UNCHANGED <<kind, home, tries, reply, pos, tap, pump, cache, region>>
-----------------------------------------------------------------------------
(* The saving task                                                          *)

\* As if the saver waited for the end of the body.
Collect_WholeOnly(d) ==
    /\ saver[d] = "collecting" /\ phase[d] = "ended" /\ ~broken[d]
    /\ saver' = [saver EXCEPT ![d] = "probing"]
    /\ UNCHANGED <<phase, kind, home, tries, reply, sent, body, free, kv, region>>

\* The channel ends when the body is gone, complete or not.
Collect(d) ==
    /\ saver[d] = "collecting" /\ phase[d] \in {"ended", "left"}
    /\ saver' = [saver EXCEPT ![d] = "probing"]
    /\ UNCHANGED <<phase, kind, home, tries, reply, sent, body, free, kv, region>>

\* llm_kv_write_slot_keys: the endpoint that answered, after retries and fallback.
WriteKey(d) == <<reply[d].from, kind[d].stream>>

\* The first slot seen free; an occupied one is seen free while the back-off gate of
\* the backend is closed; an error or a full bucket ends the task.
Probe(d) ==
    /\ saver[d] = "probing"
    /\ LET empty == {i \in 1..BucketSize : kv[WriteKey(d)][i] = Empty} IN
       \/ \E i \in 1..BucketSize :
            /\ i = 1 \/ (i \in empty /\ \A j \in 1..i - 1 : j \notin empty)
            /\ saver' = [saver EXCEPT ![d] = "putting"]
            /\ free' = [free EXCEPT ![d] = i]
       \/ saver' = [saver EXCEPT ![d] = "done"] /\ UNCHANGED free
    /\ UNCHANGED <<phase, kind, home, tries, reply, sent, body, kv, region>>

\* The put, which may fail or be dropped by the gate.
Put(d) ==
    /\ saver[d] = "putting"
    /\ saver' = [saver EXCEPT ![d] = "done"]
    /\ kv' \in {kv, [kv EXCEPT ![WriteKey(d)][free[d]] =
                       [from |-> reply[d].from, by |-> d, out |-> reply[d].out,
                        chunks |-> tap[d]]]}
    /\ UNCHANGED <<phase, kind, home, tries, reply, sent, body, free, region>>

\* The time to live of an entry, and of the learned region.
EntryExpires ==
    /\ \E k \in CacheKeys, i \in 1..BucketSize :
         kv[k][i] # Empty /\ kv' = [kv EXCEPT ![k][i] = Empty]
    /\ UNCHANGED <<phase, kind, home, tries, reply, sent, body, saver, free, region>>

RegionExpires ==
    /\ region /\ region' = FALSE
    /\ UNCHANGED <<phase, kind, home, tries, reply, sent, body, cache>>

DispatchStep(d) ==
    \/ Prepare(d) \/ CacheLookup(d) \/ Attempt(d) \/ RegionalRetry(d) \/ Fallback(d)
    \/ SignalRateLimit(d) \/ PollBody(d) \/ EndBody(d) \/ BodyBreaks(d)

SaverStep(d) == Collect(d) \/ Probe(d) \/ Put(d)

DispatchNext ==
    \/ \E d \in Dispatches :
          \/ StartDispatch(d) \/ DispatchStep(d) \/ SaverStep(d) \/ ClientLeaves(d)
          \/ Reconnect(d) \/ PumpStops(d)
    \/ EntryExpires \/ RegionExpires

DispatchSpec == DispatchInit /\ [][DispatchNext]_dispatchVars

\* The runtime polls every task, and calls end by the client's timeout.  That the rate limit
\* monitor takes the event a 429 waits to hand over, and that a client polls or drops the
\* body it was given, are assumptions: neither wait has a timeout.
DispatchFairness ==
    \A d \in Dispatches : WF_dispatchVars(DispatchStep(d)) /\ WF_dispatchVars(SaverStep(d))

DispatchLiveSpec == DispatchSpec /\ DispatchFairness
-----------------------------------------------------------------------------
(* Properties                                                               *)

\* A cache entry is the beginning of the body of one successful response, stored under
\* the key of the endpoint that gave it: no bytes of a failed attempt, of a checked
\* business failure or of another provider (the tap of wrap_stream, shared by all
\* attempts; llm_kv_write_slot_keys).
EntryIsOneResponse ==
    \A k \in CacheKeys, i \in 1..BucketSize : LET entry == kv[k][i] IN
        entry # Empty =>
            /\ entry.out = "ok" /\ entry.from = k[1]
            /\ \E c \in 1..sent[entry.by] :
                  entry.chunks = [j \in 1..Len(entry.chunks) |-> <<c, j>>]

\* An entry that lacks the end of its body comes from a transfer that was cut short by
\* the upstream or the client; such an entry is saved and served like any other (the
\* saving task takes the end of its channel for the end of the body).
CutEntryWasInterrupted ==
    \A k \in CacheKeys, i \in 1..BucketSize : LET entry == kv[k][i] IN
        entry # Empty /\ Len(entry.chunks) < BodyLen => broken[entry.by]

\* What is served from the cache later is one provider's own answer, and whole unless its
\* transfer was interrupted.
CacheIsTrue == EntryIsOneResponse /\ CutEntryWasInterrupted

\* A call that is not a stream is never sent again once it succeeded, was refused or
\* may have been executed without an answer: neither by the retries nor by the regional
\* retry, the fallback or a reconnect (the when() of RetryWithResult).  Media calls and
\* calls with heartbeats are not sent again whatever became of them (their branches of
\* dispatch and dispatch_sync_with_retry).
NotReplayed ==
    [][\A d \in Dispatches :
         \/ ~kind[d].stream /\ reply[d].out \in {"ok", "client", "limited", "transport"}
         \/ Single(d) /\ sent[d] > 0
         => sent'[d] = sent[d]]_dispatchVars

\* Every dispatch ends and so does its saving task, with a slow client, a silent upstream
\* or a body that breaks off (the timeouts of the client, the drop of the channel).
DispatchCompletes ==
    \A d \in Dispatches :
        /\ At(d, "prepare") ~> phase[d] \in {"ended", "left"}
        /\ saver[d] = "collecting" ~> saver[d] = "done"
=============================================================================
