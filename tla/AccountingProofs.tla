-------------------------- MODULE AccountingProofs --------------------------
(***************************************************************************)
(* What the gateway keeps account of, for any number of requests: the log, *)
(* in which a request has at most one record, with the objects it refers   *)
(* to; the shared count of a workspace, which is never above what the      *)
(* counted requests and the leaks explain; the windows of an identity and  *)
(* of a client address, which admit no more than their limit; and the      *)
(* counters of health, which lose an event only at a change of lap.        *)
(***************************************************************************)
EXTENDS WorkspaceConcurrency, RequestLog, IdentityLimit, ClientIpLimit, RollingCounter,
        FiniteSetTheorems, SequenceTheorems, TLAPS

(* The log                                                                 *)

Sides == {"request", "response"}
Unsent == {"none", "collect", "putRequest", "putResponse", "observe", "send", "ping", "xadd", "http"}
Stored == {"observe", "send", "ping", "xadd", "http", "after", "done"}

\* A task that has not handed its record over has no copy anywhere; one that has,
\* has one; a task that an error ended has at most one.
CopiesByTask ==
    \A r \in LogRequests :
        /\ logTask[r] \in Unsent => copies[r].redis = 0 /\ copies[r].http = 0
        /\ logTask[r] \in {"after", "done"} => copies[r].redis + copies[r].http = 1
        /\ copies[r].redis + copies[r].http <= 1

\* The objects of a request, by what its task has stored.
ObjectsByTask ==
    \A r \in LogRequests :
        /\ logTask[r] \in {"none", "collect", "putRequest"} =>
              \A side \in Sides : <<r, side>> \notin inStore
        /\ logTask[r] \in {"putRequest", "putResponse"} => Large(r) # {}
        /\ logTask[r] = "putResponse" => <<r, "request">> \in inStore
        /\ logTask[r] \in Stored \/ copies[r].redis + copies[r].http > 0 =>
              \A side \in Sides : <<r, side>> \in inStore <=> Large(r) # {}
        /\ \A side \in Sides : <<r, side>> \in inStore => Large(r) # {}

\* Only what is observed is emitted, the early events aside at the end of the task.
EventsByTask ==
    \A r \in observedEvents : Observed(r) /\ (EarlyEvents(r) \/ logTask[r] = "done")

LogInv == RequestLogTypeOK /\ CopiesByTask /\ ObjectsByTask /\ EventsByTask

\* No task runs and nothing is stored.
LEMMA LogInitInv == RequestLogInit => LogInv
<1> SUFFICES ASSUME RequestLogInit  PROVE LogInv
  OBVIOUS
<1>1. RequestLogTypeOK
  <2>1. copies \in [LogRequests -> [redis : 0 .. 1, http : 0 .. 1]]
    BY DEF RequestLogInit
  <2> QED  BY <2>1 DEF RequestLogInit, RequestLogTypeOK, LogTaskStates
<1>2. \A r \in LogRequests : logTask[r] = "none" /\ copies[r].redis = 0 /\ copies[r].http = 0
  BY DEF RequestLogInit
<1>3. inStore = {} /\ observedEvents = {}
  BY DEF RequestLogInit
<1> QED
  BY <1>1, <1>2, <1>3 DEF LogInv, CopiesByTask, ObjectsByTask, EventsByTask, Stored

\* One step per action.
LEMMA LogStepInv == LogInv /\ [RequestLogNext]_logVars => LogInv'
<1> SUFFICES ASSUME LogInv, [RequestLogNext]_logVars  PROVE LogInv'
  OBVIOUS
<1> USE DEF LogInv, RequestLogTypeOK, CopiesByTask, ObjectsByTask, EventsByTask,
        LogTaskStates, Unsent, Stored, Sides
<1>1. CASE UNCHANGED logVars
  BY <1>1 DEF logVars, Large, Redacted, Observed, EarlyEvents
<1>2. ASSUME about' = about
      PROVE  \A r \in LogRequests : /\ Large(r)' = Large(r) /\ Observed(r)' = Observed(r)
                                    /\ EarlyEvents(r)' = EarlyEvents(r)
  BY <1>2 DEF Large, Redacted, Observed, EarlyEvents
<1>3. ASSUME NEW r \in LogRequests, LogResponse(r)  PROVE LogInv'
  BY <1>2, <1>3 DEF LogResponse, LogGoto, Unserved, Emit
<1>4. ASSUME NEW r \in LogRequests, LogDenial(r)  PROVE LogInv'
  BY <1>2, <1>4 DEF LogDenial, LogGoto, Unserved, Emit
<1>5. ASSUME NEW r \in LogRequests, Answer(r)  PROVE LogInv'
  BY <1>2, <1>5 DEF Answer, LogGoto, ReturnsError
<1>6. ASSUME NEW r \in LogRequests, Malformed(r)  PROVE LogInv'
  BY <1>2, <1>6 DEF Malformed, LogGoto
<1>7. ASSUME NEW r \in LogRequests, Collect(r)  PROVE LogInv'
  BY <1>2, <1>7 DEF Collect, LogGoto
<1>8. ASSUME NEW r \in LogRequests, PutObject(r)  PROVE LogInv'
  BY <1>2, <1>8 DEF PutObject, LogGoto, SideOf
<1>9. ASSUME NEW r \in LogRequests, PutFails(r)  PROVE LogInv'
  BY <1>2, <1>9 DEF PutFails, LogGoto
<1>10. ASSUME NEW r \in LogRequests, ObserveChat(r)  PROVE LogInv'
  <2>1. EarlyEvents(r) => Observed(r)
    BY DEF EarlyEvents
  <2> QED  BY <1>2, <1>10, <2>1 DEF ObserveChat, LogGoto, MayEmit
<1>11. ASSUME NEW r \in LogRequests, SendHttp(r)  PROVE LogInv'
  BY <1>2, <1>11 DEF SendHttp, LogGoto
<1>12. ASSUME NEW r \in LogRequests, Degrade(r)  PROVE LogInv'
  BY <1>2, <1>12 DEF Degrade, LogGoto
<1>13. ASSUME NEW r \in LogRequests, Pinged(r)  PROVE LogInv'
  BY <1>2, <1>13 DEF Pinged, LogGoto
<1>17. ASSUME NEW r \in LogRequests, StartPing(r)  PROVE LogInv'
  BY <1>2, <1>17 DEF StartPing, LogGoto
<1>14. ASSUME NEW r \in LogRequests, Deliver(r)  PROVE LogInv'
  BY <1>2, <1>14 DEF Deliver, LogGoto, Written, SinkOf
<1>15. ASSUME NEW r \in LogRequests, DeliverFails(r)  PROVE LogInv'
  BY <1>2, <1>15 DEF DeliverFails, LogGoto, Written, SinkOf, OnError
<1>16. ASSUME NEW r \in LogRequests, ObserveRest(r)  PROVE LogInv'
  BY <1>2, <1>16 DEF ObserveRest, LogGoto, MayEmit
<1> QED
  BY <1>1, <1>3, <1>4, <1>5, <1>6, <1>7, <1>8, <1>9, <1>10, <1>11, <1>12, <1>13, <1>14, <1>15, <1>16, <1>17
  DEF RequestLogNext

(* The pipeline, the log tasks and the transport keep the invariant         *)
(* (LoggerService::log and LogTransport::send).                             *)
THEOREM LogInvariant == RequestLogSpec => []LogInv
<1> QED  BY LogInitInv, LogStepInv, PTL DEF RequestLogSpec

(* Every variable keeps its type; in particular no sink gets a second copy. *)
THEOREM RequestLogTypeCorrect == RequestLogSpec => []RequestLogTypeOK
<1>1. LogInv => RequestLogTypeOK
  BY DEF LogInv
<1> QED  BY <1>1, LogInvariant, PTL

(* A request has at most one record, whatever fails, and a task that ran to *)
(* its end delivered it (no retry and no fallback after a failed write).    *)
THEOREM RequestLoggedOnce == RequestLogSpec => []LoggedOnce
<1>1. LogInv => LoggedOnce
  BY DEF LogInv, CopiesByTask, LoggedOnce, Copies
<1> QED  BY <1>1, LogInvariant, PTL

(* A record that arrived finds its objects (resolve_cloud_log_bodies       *)
(* stores both bodies before the record is sent).                           *)
THEOREM RecordsResolve == RequestLogSpec => []RecordResolves
<1>1. LogInv => RecordResolves
  BY DEF LogInv, ObjectsByTask, Sides, RecordResolves, Copies
<1> QED  BY <1>1, LogInvariant, PTL

(* A protected route's bodies and events stay in the gateway, except for    *)
(* what the mapper denies (redaction comes before the sizes are looked at   *)
(* and the agent context is read; emit_mapper_policy_deny_log asks for      *)
(* none).                                                                   *)
THEOREM OnlyMapperDenialsLeakPayloads == RequestLogSpec => []OnlyMapperDenialsLeak
<1>1. LogInv => OnlyMapperDenialsLeak
  <2> SUFFICES ASSUME LogInv, NEW r \in LogRequests, about[r].protected,
                      \/ r \in observedEvents
                      \/ \E side \in Sides : <<r, side>> \in inStore
               PROVE  about[r].path = "mapperDenied"
    BY DEF OnlyMapperDenialsLeak, Sides
  <2>1. Observed(r) \/ Large(r) # {}
    BY DEF LogInv, ObjectsByTask, EventsByTask
  <2> QED  BY <2>1 DEF Large, Observed, Redacted
<1> QED  BY <1>1, LogInvariant, PTL

(* Events other than the early ones exist only beside their record          *)
(* (LoggerService::log emits them after the transport's answer).            *)
THEOREM EventsFollowTheirRecord == RequestLogSpec => []EventsFollowRecord
<1>1. LogInv => EventsFollowRecord
  BY DEF LogInv, RequestLogTypeOK, CopiesByTask, EventsByTask, EventsFollowRecord, Copies
<1> QED  BY <1>1, LogInvariant, PTL

(* The record of a request, its objects and its events agree, whatever fails *)
(* in the transport.                                                         *)
THEOREM RecordsAreConsistent == RequestLogSpec => []RecordsAgree
<1>1. LoggedOnce /\ RecordResolves /\ OnlyMapperDenialsLeak /\ EventsFollowRecord => RecordsAgree
  BY DEF RecordsAgree
<1> QED  BY <1>1, RequestLoggedOnce, RecordsResolve, OnlyMapperDenialsLeakPayloads, EventsFollowTheirRecord, PTL

(* A degraded process stays degraded, and a task goes to Redis after that   *)
(* only if it had read the flag before (RedisStreamLogTransport::send reads *)
(* it once, ahead of the PING).                                             *)
THEOREM DegradationIsFinal == RequestLogSpec => DegradedForGood
<1> DEFINE Final == degraded => /\ degraded'
                                /\ \A r \in LogRequests :
                                     /\ logTask'[r] = "ping" => logTask[r] = "ping"
                                     /\ logTask'[r] = "xadd" => logTask[r] \in {"ping", "xadd"}
<1>1. LogInv /\ [RequestLogNext]_logVars => [Final]_logVars
  <2> SUFFICES ASSUME LogInv, RequestLogNext  PROVE Final
    OBVIOUS
  <2> USE DEF LogInv, RequestLogTypeOK, LogGoto
  <2>1. PICK r \in LogRequests :
           \/ LogResponse(r) \/ LogDenial(r) \/ Answer(r)
           \/ Malformed(r) \/ Collect(r) \/ PutObject(r) \/ PutFails(r) \/ ObserveChat(r)
           \/ SendHttp(r) \/ StartPing(r) \/ Degrade(r) \/ Pinged(r)
           \/ Deliver(r) \/ DeliverFails(r) \/ ObserveRest(r)
    BY DEF RequestLogNext
  <2>2. CASE LogResponse(r) \/ LogDenial(r) \/ Answer(r) \/ Malformed(r) \/ Collect(r)
    BY <2>2 DEF LogResponse, LogDenial, Answer, Malformed, Collect, Emit, ReturnsError
  <2>3. CASE PutObject(r) \/ PutFails(r) \/ ObserveChat(r) \/ ObserveRest(r)
    BY <2>3 DEF PutObject, PutFails, ObserveChat, ObserveRest
  <2>4. CASE SendHttp(r) \/ StartPing(r) \/ Degrade(r) \/ Pinged(r) \/ Deliver(r)
             \/ DeliverFails(r)
    BY <2>4 DEF SendHttp, StartPing, Degrade, Pinged, Deliver, DeliverFails, OnError
  <2> QED  BY <2>1, <2>2, <2>3, <2>4
<1> QED  BY <1>1, LogInvariant, PTL DEF RequestLogSpec, DegradedForGood

-----------------------------------------------------------------------------
(* The count                                                               *)

\* Requests that can still change the count, for better or worse.
Fresh == {r \in WsRequests : ws[r] = "new"}

(* Every leak is a request that is through: together with those that are   *)
(* counted and those to come the leaks stay within the requests there are. *)
LeaksBounded ==
    Cardinality(Counted) + Cardinality(Fresh) + stray.leaked <= Cardinality(WsRequests)

WsTypes ==
    /\ counter \in Nat
    /\ ws \in [WsRequests -> WsStates]
    /\ stray \in [leaked : Nat, expired : BOOLEAN]

WsInv == WsTypes /\ LeaksBounded /\ CountAccounted

\* The two sets are finite.
LEMMA WsFinite ==
    /\ IsFiniteSet(Counted) /\ Cardinality(Counted) \in Nat
    /\ IsFiniteSet(Fresh) /\ Cardinality(Fresh) \in Nat
    /\ Cardinality(WsRequests) \in Nat
<1>1. Counted \in SUBSET WsRequests /\ Fresh \in SUBSET WsRequests
  BY DEF Counted, Fresh
<1>2. IsFiniteSet(Counted) /\ IsFiniteSet(Fresh)
  BY <1>1, WsAssumption, FS_Subset
<1> QED  BY <1>2, WsAssumption, FS_CardinalityType

\* How the sets change when a request moves from one state to another.
LEMMA WsMoves ==
  ASSUME WsTypes, NEW r \in WsRequests, NEW s \in WsStates, WsTo(r, s)
  PROVE  /\ Cardinality(Counted') = Cardinality(Counted)
              + (IF s \in {"calling", "body", "ended"} THEN 1 ELSE 0)
              - (IF ws[r] \in {"calling", "body", "ended"} THEN 1 ELSE 0)
         /\ Cardinality(Fresh') = Cardinality(Fresh)
              + (IF s = "new" THEN 1 ELSE 0) - (IF ws[r] = "new" THEN 1 ELSE 0)
         /\ ws' \in [WsRequests -> WsStates]
         /\ ws[r] \in {"calling", "body", "ended"} => Cardinality(Counted) > 0
<1>1. ws' \in [WsRequests -> WsStates] /\ ws'[r] = s /\ \A q \in WsRequests \ {r} : ws'[q] = ws[q]
  BY DEF WsTypes, WsTo
<1>2. Counted' = IF s \in {"calling", "body", "ended"} THEN Counted \cup {r} ELSE Counted \ {r}
  BY <1>1 DEF Counted
<1>3. Fresh' = IF s = "new" THEN Fresh \cup {r} ELSE Fresh \ {r}
  BY <1>1 DEF Fresh
<1>4. (r \in Counted <=> ws[r] \in {"calling", "body", "ended"}) /\ (r \in Fresh <=> ws[r] = "new")
  BY DEF Counted, Fresh
<1>5. /\ Cardinality(Counted \cup {r})
           = IF r \in Counted THEN Cardinality(Counted) ELSE Cardinality(Counted) + 1
      /\ Cardinality(Counted \ {r})
           = IF r \in Counted THEN Cardinality(Counted) - 1 ELSE Cardinality(Counted)
  BY WsFinite, FS_AddElement, FS_RemoveElement
<1>6. /\ Cardinality(Fresh \cup {r})
           = IF r \in Fresh THEN Cardinality(Fresh) ELSE Cardinality(Fresh) + 1
      /\ Cardinality(Fresh \ {r})
           = IF r \in Fresh THEN Cardinality(Fresh) - 1 ELSE Cardinality(Fresh)
  BY WsFinite, FS_AddElement, FS_RemoveElement
<1>7. Cardinality(Counted') = Cardinality(Counted)
        + (IF s \in {"calling", "body", "ended"} THEN 1 ELSE 0)
        - (IF ws[r] \in {"calling", "body", "ended"} THEN 1 ELSE 0)
  BY <1>2, <1>4, <1>5, WsFinite
<1>8. Cardinality(Fresh') = Cardinality(Fresh)
        + (IF s = "new" THEN 1 ELSE 0) - (IF ws[r] = "new" THEN 1 ELSE 0)
  BY <1>3, <1>4, <1>6, WsFinite
<1>9. r \in Counted => Cardinality(Counted) > 0
  <2>1. r \in Counted => Cardinality(Counted) # 0
    BY WsFinite, FS_EmptySet
  <2> QED  BY <2>1, WsFinite
<1> QED  BY <1>1, <1>4, <1>7, <1>8, <1>9

\* No request is counted and none has leaked.
LEMMA WsInitInv == WsInit => WsInv
<1> SUFFICES ASSUME WsInit  PROVE WsInv
  OBVIOUS
<1>1. Counted = {} /\ Fresh = WsRequests
  BY DEF WsInit, Counted, Fresh
<1>2. Cardinality(Counted) = 0
  BY <1>1, FS_EmptySet
<1>3. Cardinality(Fresh) = Cardinality(WsRequests)
  BY <1>1
<1> QED
  BY <1>2, <1>3, WsFinite DEF WsInit, WsInv, WsTypes, LeaksBounded, CountAccounted, WsStates

\* Each request moves the count and what explains it together.
LEMMA WsStepInv == WsInv /\ [WsNext]_wsVars => WsInv'
<1> SUFFICES ASSUME WsInv, [WsNext]_wsVars  PROVE WsInv'
  OBVIOUS
<1>0. /\ Cardinality(Counted) \in Nat /\ Cardinality(Fresh) \in Nat
      /\ Cardinality(WsRequests) \in Nat
  BY WsFinite
<1> USE <1>0 DEF WsInv, WsTypes, LeaksBounded, CountAccounted, WsStates
<1>1. CASE UNCHANGED wsVars
  BY <1>1 DEF wsVars, Counted, Fresh
<1>2. ASSUME NEW r \in WsRequests, Incr(r)  PROVE WsInv'
  BY <1>2, WsMoves DEF Incr
<1>3. ASSUME NEW r \in WsRequests, IncrFails(r)  PROVE WsInv'
  BY <1>3, WsMoves DEF IncrFails, WsLeak
<1>4. ASSUME NEW r \in WsRequests, Respond(r)  PROVE WsInv'
  BY <1>4, WsMoves DEF Respond
<1>5. ASSUME NEW r \in WsRequests, Leave(r)  PROVE WsInv'
  BY <1>5, WsMoves DEF Leave, WsLeak
<1>6. ASSUME NEW r \in WsRequests, EndOfBody(r)  PROVE WsInv'
  BY <1>6, WsMoves DEF EndOfBody
<1>7. ASSUME NEW r \in WsRequests, Decr(r)  PROVE WsInv'
  BY <1>7, WsMoves DEF Decr
<1>8. ASSUME NEW r \in WsRequests, DecrFails(r)  PROVE WsInv'
  BY <1>8, WsMoves DEF DecrFails, WsLeak
<1>9. CASE Expire
  <2>1. Counted' = Counted /\ Fresh' = Fresh
    BY <1>9 DEF Expire, Counted, Fresh
  <2>2. Counted = {} => Cardinality(Counted) = 0
    BY FS_EmptySet
  <2>3. stray' \in [leaked : Nat, expired : BOOLEAN] /\ stray'.leaked = 0 /\ counter' = 0
    BY <1>9 DEF Expire
  <2>4. ~stray'.expired => Counted = {}
    BY <1>9 DEF Expire
  <2>5. UNCHANGED ws
    BY <1>9 DEF Expire
  <2> QED  BY <2>1, <2>2, <2>3, <2>4, <2>5
<1> QED
  BY <1>1, <1>2, <1>3, <1>4, <1>5, <1>6, <1>7, <1>8, <1>9 DEF WsNext

(* The layer's increments, decrements, failures and expiries keep the       *)
(* invariant (workspace_concurrency's service, body and Redis scripts).     *)
THEOREM WsInvariant == WsSpec => []WsInv
<1> QED  BY WsInitInv, WsStepInv, PTL DEF WsSpec

(* The counter never passes the number of requests: each INCR is one        *)
(* request's, sent once.                                                    *)
THEOREM WsTypeCorrect == WsSpec => []WsTypeOK
<1>1. WsInv => WsTypeOK
  BY WsFinite DEF WsInv, WsTypes, LeaksBounded, CountAccounted, WsTypeOK
<1> QED  BY <1>1, WsInvariant, PTL

(* The counter is what the counted requests and the leaks explain, exactly  *)
(* so unless the key expired under a request (DECR_FLOOR hides nothing).    *)
THEOREM WsCountAccounted == WsSpec => []CountAccounted
<1>1. WsInv => CountAccounted
  BY DEF WsInv
<1> QED  BY <1>1, WsInvariant, PTL

-----------------------------------------------------------------------------
(* The limit of an identity                                                *)
Turns == [nth : Nat, window : Nat, t : Nat]
Pendings == [sent : Nat, ran : BOOLEAN, turn : Turns, left : Nat]
Admissions == [at : Nat, turn : Turns]
Hints == [at : Nat, after : Nat, ends : Nat]

\* The requests whose script has run, and the turns that were given out.
Ran == {r \in DOMAIN pending : pending[r].ran}
Given == {admitted[k].turn : k \in DOMAIN admitted} \cup {pending[r].turn : r \in Ran}

\* The types the induction uses.
IdentityTypes ==
    /\ ticks \in 0..MaxTicks /\ backend \in {"memory", "redis"}
    /\ window \in [count : Nat, expires : Int]
    /\ window.expires \in -1..ticks + IdWindow
    /\ cleanedAt \in -1..ticks /\ persisted \in -1..ticks
    /\ seen \in 0..MaxSeen /\ DOMAIN pending \subseteq 1..seen
    /\ pending \in [DOMAIN pending -> Pendings]
    /\ windows \in Nat
    /\ admitted \in Seq(Admissions) /\ hints \in Seq(Hints)

\* How much has been counted and decided.
Waiting == DOMAIN pending \ Ran
CountsBounded ==
    /\ window.count + Cardinality(Waiting) <= seen
    /\ Len(admitted) + Len(hints) + Cardinality(DOMAIN pending) <= seen

\* The memory decides at once; Redis has dropped every window that ended.
BackendOK ==
    /\ backend = "memory" => /\ Ran = {} /\ persisted = Never
                             /\ window.expires = Never => window.count = 0
    /\ backend = "redis" /\ window.expires # Never => ticks < window.expires

\* A request is decided in time, and was counted after its script was sent.
PendingOK ==
    \A r \in DOMAIN pending :
        /\ pending[r].sent <= ticks /\ ticks <= pending[r].sent + Late
        /\ pending[r].ran => /\ pending[r].sent <= pending[r].turn.t
                             /\ pending[r].left \in 1..IdWindow

\* A turn of an earlier window lies before the current one, and one of a window before
\* that a whole window before now, but for the age of the time requests are counted by.
TurnOK(x) ==
    /\ 1 <= x.nth /\ x.t <= ticks /\ x.window <= windows
    /\ x.window = windows => x.nth <= window.count
    /\ x.window + 2 <= windows => x.t + IdWindow <= ticks + Slip
    /\ x.window < windows /\ window.expires # Never => x.t + IdWindow <= window.expires + Slip
TurnsOK == \A x \in Given : TurnOK(x)

\* No turn is given out twice, and turns of windows that are not neighbours are a window
\* apart, less the age of the time they were counted by.
TurnsDiffer ==
    /\ \A i, j \in DOMAIN admitted : admitted[i].turn = admitted[j].turn => i = j
    /\ \A r, q \in Ran : pending[r].turn = pending[q].turn => r = q
    /\ \A i \in DOMAIN admitted, r \in Ran : admitted[i].turn # pending[r].turn
    /\ \A x, y \in Given : x.nth = y.nth /\ x.window = y.window => x = y
    /\ \A x, y \in Given : x.window + 2 <= y.window => x.t + IdWindow <= y.t + Slip

\* How long after it was counted a request is decided.
Wait == IF backend = "redis" THEN TicksPerSecond ELSE 0

\* Requests are admitted within the limit, in time and in order.
AdmittedOK ==
    /\ \A k \in DOMAIN admitted :
          /\ admitted[k].turn.nth <= IdLimit /\ admitted[k].at <= ticks
          /\ admitted[k].turn.t <= admitted[k].at /\ admitted[k].at <= admitted[k].turn.t + Wait
    /\ \A i, j \in DOMAIN admitted : i <= j => admitted[i].at <= admitted[j].at

IdentityInv ==
    /\ IdentityTypes /\ CountsBounded /\ BackendOK /\ PendingOK
    /\ TurnsOK /\ TurnsDiffer /\ AdmittedOK /\ HintIsTrue

\* A window lasts at least one tick.
LEMMA IdWindowType == IdWindow \in Nat /\ IdWindow >= 1
BY IdentityAssumption DEF IdWindow

\* Division rounds down.
LEMMA Division ==
    ASSUME NEW d \in Nat \ {0}, NEW a \in Nat
    PROVE  a \div d \in Nat /\ d * (a \div d) <= a /\ a < d * (a \div d) + d
<1>1. a \div d \in Nat
  OBVIOUS
<1>2. d * (a \div d) <= a
  OBVIOUS
<1>3. a < d * (a \div d) + d
  OBVIOUS
<1> QED  BY <1>1, <1>2, <1>3

\* What is left of a window, in whole seconds, rounded up.
LEMMA RetryAfterOK ==
    ASSUME NEW left \in Nat, left >= 1, NEW s, s = RetryAfter(left)
    PROVE  /\ s \in Nat /\ left <= s * TicksPerSecond /\ s * TicksPerSecond < left + TicksPerSecond
           /\ (s - 1) * TicksPerSecond < left
<1> DEFINE d == TicksPerSecond
           a == left + d - 1
           q == a \div d
<1>1. d \in Nat \ {0} /\ a \in Nat /\ left \in Nat /\ left >= 1
  BY IdentityAssumption
<1> HIDE DEF d, a
<1>3. q \in Nat /\ d * q <= a /\ a < d * q + d
  BY <1>1, Division
<1>4. a = left + d - 1
  BY DEF a
<1>5. s = IF q < 1 THEN 1 ELSE q
  BY DEF RetryAfter, a, d
<1> HIDE DEF q
<1>6. left <= d * q /\ d * q < left + d /\ d * q \in Nat
  BY <1>1, <1>3, <1>4
<1>7. q # 0
  <2>1. d * 0 = 0
    BY <1>1
  <2> QED  BY <1>1, <1>6, <2>1
<1>8. s = q /\ s \in Nat
  BY <1>3, <1>5, <1>7
<1>9. s * d = d * q /\ (s - 1) * d = s * d - d
  BY <1>1, <1>8
<1>10. (s - 1) * d < left
  BY <1>1, <1>6, <1>9
<1> QED  BY <1>6, <1>8, <1>9, <1>10 DEF d

\* A sequence and what is appended to it.
LEMMA SeqAppends ==
    ASSUME NEW S, NEW s \in Seq(S), NEW e \in S
    PROVE  /\ Append(s, e) \in Seq(S) /\ Len(s) \in Nat /\ Len(Append(s, e)) = Len(s) + 1
           /\ DOMAIN s = 1..Len(s) /\ DOMAIN Append(s, e) = 1..Len(s) + 1
           /\ \A k \in 1..Len(s) : Append(s, e)[k] = s[k] /\ s[k] \in S
           /\ Append(s, e)[Len(s) + 1] = e
<1>1. \A k \in 1..Len(s) : s[k] \in S
  BY ElementOfSeq
<1> QED  BY <1>1

\* The fields of a turn and of a script's record.
LEMMA TurnFields ==
    ASSUME ticks \in Nat, NEW n \in Nat, NEW w \in Nat, NEW x, x = Turn(n, w)
    PROVE  x \in Turns /\ x.nth = n /\ x.window = w /\ x.t = ticks
BY DEF Turn, Turns

\* A refusal that names the time left of the window is true.
HintTrue(h) ==
    /\ h.at + h.after * TicksPerSecond >= h.ends
    /\ h.after > 1 => h.at + h.after * TicksPerSecond < h.ends + TicksPerSecond + Late
    /\ (h.after - 1) * TicksPerSecond < IdWindow + Slip

\* Such is the refusal of a request counted by the time t, with `left' left of the window.
LEMMA HintOK ==
    ASSUME ticks \in Nat, NEW t \in Nat, t <= ticks, ticks <= t + Late,
           NEW left \in 1..IdWindow + Slip,
           NEW h, h = [at |-> ticks, after |-> RetryAfter(left), ends |-> t + left]
    PROVE  h \in Hints /\ HintTrue(h)
<1> DEFINE s == RetryAfter(left)
<1>0. TicksPerSecond \in Nat /\ Late \in Nat /\ Slip \in Nat /\ IdWindow \in Nat
  BY IdentityAssumption, IdWindowType DEF Late, Slip
<1>1. left \in Nat /\ left >= 1 /\ left <= IdWindow + Slip
  BY <1>0
<1>2. /\ s \in Nat /\ left <= s * TicksPerSecond /\ s * TicksPerSecond < left + TicksPerSecond
      /\ (s - 1) * TicksPerSecond < left
  BY <1>1, RetryAfterOK
<1> HIDE DEF s
<1>3. h.at = ticks /\ h.after = s /\ h.ends = t + left
  BY DEF s
<1>4. s * TicksPerSecond \in Nat /\ (s - 1) * TicksPerSecond \in Int
  BY <1>0, <1>2
<1>5. h \in Hints
  BY <1>1, <1>2 DEF Hints, s
<1>6. (s - 1) * TicksPerSecond < IdWindow + Slip
  BY <1>0, <1>1, <1>2, <1>4
<1>7. ticks + s * TicksPerSecond >= t + left /\ ticks + s * TicksPerSecond < t + left + TicksPerSecond + Late
  BY <1>0, <1>1, <1>2, <1>4
<1> QED  BY <1>3, <1>5, <1>6, <1>7 DEF HintTrue

\* Whose scripts have not run is finite, and so are all that are out.
LEMMA PendingFinite ==
    ASSUME IdentityTypes
    PROVE  /\ IsFiniteSet(DOMAIN pending) /\ IsFiniteSet(Waiting)
           /\ Cardinality(DOMAIN pending) \in Nat /\ Cardinality(Waiting) \in Nat
           /\ Waiting \subseteq DOMAIN pending
<1>0. 1 \in Int /\ seen \in Int
  BY IdentityAssumption DEF IdentityTypes
<1>1. IsFiniteSet(1..seen)
  BY <1>0, FS_Interval
<1>2. IsFiniteSet(DOMAIN pending)
  BY <1>1, FS_Subset DEF IdentityTypes
<1>3. Waiting \subseteq DOMAIN pending
  BY DEF Waiting
<1> QED  BY <1>2, <1>3, FS_Subset, FS_CardinalityType

\* The types of what occurs in the arithmetic.
LEMMA IdentityNumbers ==
    ASSUME IdentityTypes
    PROVE  /\ ticks \in Nat /\ MaxTicks \in Nat /\ IdWindow \in Nat /\ IdWindow >= 1
           /\ TicksPerSecond \in Nat /\ TicksPerSecond >= 1 /\ windows \in Nat
           /\ Late \in Nat /\ Slip \in Nat /\ Wait \in Nat /\ Late = Slip + Wait
           /\ window.count \in Nat /\ window.expires \in Int /\ seen \in Nat /\ MaxSeen \in Nat
           /\ IdLimit \in Nat /\ IdLimit >= 1
<1>1. IdWindow \in Nat /\ IdWindow >= 1
  BY IdWindowType
<1>2. ticks \in Nat /\ windows \in Nat /\ window.count \in Nat /\ window.expires \in Int /\ seen \in Nat
  BY IdentityAssumption DEF IdentityTypes
<1>3. Late \in Nat /\ Slip \in Nat /\ Wait \in Nat /\ Late = Slip + Wait
  BY IdentityAssumption DEF IdentityTypes, Late, Slip, Wait
<1> QED  BY <1>1, <1>2, <1>3, IdentityAssumption

\* The types of what the histories and the scripts under way hold.
LEMMA GivenTypes ==
    ASSUME IdentityTypes
    PROVE  /\ \A x \in Given : x.nth \in Nat /\ x.window \in Nat /\ x.t \in Nat
           /\ \A r \in DOMAIN pending : pending[r] \in Pendings
           /\ DOMAIN admitted = 1..Len(admitted) /\ Len(admitted) \in Nat
           /\ \A k \in DOMAIN admitted : admitted[k] \in Admissions
           /\ DOMAIN hints = 1..Len(hints) /\ Len(hints) \in Nat
           /\ \A k \in DOMAIN hints : hints[k] \in Hints
<1>1. \A r \in DOMAIN pending : pending[r] \in Pendings
  BY DEF IdentityTypes
<1>2. /\ DOMAIN admitted = 1..Len(admitted) /\ Len(admitted) \in Nat
      /\ \A k \in DOMAIN admitted : admitted[k] \in Admissions
  BY ElementOfSeq, LenProperties DEF IdentityTypes
<1>3. /\ DOMAIN hints = 1..Len(hints) /\ Len(hints) \in Nat
      /\ \A k \in DOMAIN hints : hints[k] \in Hints
  BY ElementOfSeq, LenProperties DEF IdentityTypes
<1>4. \A r \in DOMAIN pending : pending[r].turn \in Turns
  BY <1>1 DEF Pendings
<1>5. \A k \in DOMAIN admitted : admitted[k].turn \in Turns
  BY <1>2 DEF Admissions
<1>6. \A x \in Given : x \in Turns
  BY <1>4, <1>5 DEF Given, Ran
<1> QED  BY <1>1, <1>2, <1>3, <1>6 DEF Turns

\* A request is counted by the time `moment': in the window that lasts, in one that is new
\* because the last has ended, or in one without an end, which it gets.
Counts(moment) ==
    /\ ticks' = ticks /\ backend' = backend
    /\ \/ /\ windows' = windows /\ window'.count = window.count + 1
          /\ \/ window'.expires = window.expires
             \/ window.expires = Never /\ window'.expires = moment + IdWindow
       \/ /\ windows' = windows + 1 /\ window'.count = 1
          /\ window.expires # Never /\ window.expires <= moment
          /\ window'.expires = moment + IdWindow

\* It gets a turn that nobody had.
LEMMA CountsOK ==
    ASSUME IdentityTypes, TurnsOK, window' \in [count : Nat, expires : Int],
           NEW moment \in Nat, moment <= ticks, ticks <= moment + Slip, Counts(moment),
           NEW new \in Turns, window'.count = new.nth, windows' = new.window, ticks = new.t
    PROVE  /\ TurnOK(new)'
           /\ \A x \in Given :
                 /\ TurnOK(x)' /\ x # new /\ ~(x.nth = new.nth /\ x.window = new.window)
                 /\ x.window + 2 <= new.window => x.t + IdWindow <= new.t + Slip
                 /\ ~(new.window + 2 <= x.window)
<1>0. /\ ticks \in Nat /\ IdWindow \in Nat /\ windows \in Nat /\ window.count \in Nat
      /\ window.expires \in Int /\ window'.count \in Nat /\ window'.expires \in Int
      /\ windows' \in Nat /\ ticks' = ticks /\ window'.count >= 1 /\ Slip \in Nat
      /\ Slip' = Slip
  BY IdentityNumbers DEF Counts, Slip
<1>a. new.nth \in Nat /\ new.window \in Nat /\ new.t \in Nat
  BY <1>0
<1>b. ~(new.window < windows')
  BY <1>0, <1>a
<1>c. windows' \in Nat /\ windows' < windows' + 2
  BY <1>0
<1>d. ~(new.window + 2 <= windows')
  BY <1>c
<1>1. TurnOK(new)'
  BY <1>0, <1>a, <1>b, <1>d DEF TurnOK
<1>2. ASSUME NEW x \in Given
      PROVE  /\ TurnOK(x)' /\ ~(x.nth = new.nth /\ x.window = new.window)
             /\ x.window + 2 <= new.window => x.t + IdWindow <= new.t + Slip
             /\ ~(new.window + 2 <= x.window)
  <2>1. x.nth \in Nat /\ x.window \in Nat /\ x.t \in Nat
    BY GivenTypes
  <2>2. /\ 1 <= x.nth /\ x.t <= ticks /\ x.window <= windows
        /\ x.window = windows => x.nth <= window.count
        /\ x.window + 2 <= windows => x.t + IdWindow <= ticks + Slip
        /\ x.window < windows /\ window.expires # Never => x.t + IdWindow <= window.expires + Slip
    BY DEF TurnsOK, TurnOK
  <2>3. CASE /\ windows' = windows /\ window'.count = window.count + 1
             /\ \/ window'.expires = window.expires
                \/ window.expires = Never /\ window'.expires = moment + IdWindow
    BY <1>0, <2>1, <2>2, <2>3 DEF TurnOK
  <2>4. CASE /\ windows' = windows + 1 /\ window'.count = 1
             /\ window.expires # Never /\ window.expires <= moment
             /\ window'.expires = moment + IdWindow
    BY <1>0, <2>1, <2>2, <2>4 DEF TurnOK
  <2> QED  BY <2>3, <2>4 DEF Counts
<1> QED  BY <1>1, <1>2

\* The steps that count nothing leave the turns that are given out, or take some back.
LEMMA TurnsKept ==
    ASSUME TurnsDiffer, Given' \subseteq Given, Slip' = Slip
    PROVE  /\ (\A x, y \in Given : x.nth = y.nth /\ x.window = y.window => x = y)'
           /\ (\A x, y \in Given : x.window + 2 <= y.window => x.t + IdWindow <= y.t + Slip)'
BY DEF TurnsDiffer

\* Time passes.
LEMMA IdTickOK ==
    ASSUME IdentityInv, IdTick
    PROVE  IdentityInv'
<1>0. /\ IdentityTypes /\ CountsBounded /\ BackendOK /\ PendingOK /\ TurnsOK /\ TurnsDiffer
      /\ AdmittedOK /\ HintIsTrue
  BY DEF IdentityInv
<1>1. /\ ticks \in Nat /\ IdWindow \in Nat /\ windows \in Nat /\ window.count \in Nat
      /\ window.expires \in Int /\ MaxTicks \in Nat /\ TicksPerSecond \in Nat /\ Late \in Nat
      /\ Slip \in Nat
      /\ seen \in Nat
  BY <1>0, IdentityNumbers
<1>2. /\ ticks < MaxTicks /\ ticks' = ticks + 1 /\ backend' = backend /\ cleanedAt' = cleanedAt
      /\ pending' = pending /\ seen' = seen /\ admitted' = admitted /\ hints' = hints
      /\ persisted' = persisted
      /\ \A r \in DOMAIN pending : ticks < pending[r].sent + Late
  BY DEF IdTick
<1>3. \/ /\ backend = "redis" /\ window.expires # Never /\ window.expires <= ticks + 1
         /\ window' = NoWindow /\ windows' = windows + 1
      \/ /\ ~(backend = "redis" /\ window.expires # Never /\ window.expires <= ticks + 1)
         /\ window' = window /\ windows' = windows
  BY DEF IdTick, Expired
<1>4. NoWindow \in [count : Nat, expires : Int] /\ NoWindow.count = 0 /\ NoWindow.expires = Never
  BY DEF NoWindow, Never
<1>5. Never = -1
  BY DEF Never
<1>6. /\ Ran' = Ran /\ Given' = Given /\ Waiting' = Waiting
      /\ Slip' = Slip /\ Late' = Late /\ Wait' = Wait
  BY <1>2 DEF Ran, Given, Waiting, Slip, Late, Wait
<1>7. IdentityTypes'
  <2>1. ticks' \in 0..MaxTicks /\ cleanedAt' \in -1..ticks' /\ persisted' \in -1..ticks'
    BY <1>0, <1>1, <1>2 DEF IdentityTypes
  <2>2. /\ window' \in [count : Nat, expires : Int] /\ window'.expires \in -1..ticks' + IdWindow
        /\ windows' \in Nat
    <3>1. CASE window' = NoWindow /\ windows' = windows + 1
      BY <1>1, <1>2, <1>4, <1>5, <3>1
    <3>2. CASE window' = window /\ windows' = windows
      <4>1. window \in [count : Nat, expires : Int] /\ window.expires \in -1..ticks + IdWindow
        BY <1>0 DEF IdentityTypes
      <4>2. window.expires \in -1..ticks' + IdWindow
        BY <1>1, <1>2, <4>1
      <4> QED  BY <1>1, <3>2, <4>1, <4>2
    <3> QED  BY <1>3, <3>1, <3>2
  <2> QED  BY <1>0, <1>2, <2>1, <2>2 DEF IdentityTypes
<1>8. CountsBounded'
  <2>1. Cardinality(Waiting) \in Nat
    BY <1>0, PendingFinite
  <2>2. window'.count <= window.count /\ window'.count \in Nat
    BY <1>1, <1>3, <1>4
  <2> QED  BY <1>0, <1>1, <1>2, <1>6, <2>1, <2>2 DEF CountsBounded
<1>9. BackendOK'
  BY <1>0, <1>1, <1>2, <1>3, <1>4, <1>6 DEF BackendOK
<1>10. PendingOK'
  <2> SUFFICES ASSUME NEW r \in DOMAIN pending
               PROVE  /\ pending[r].sent <= ticks + 1 /\ ticks + 1 <= pending[r].sent + Late
                      /\ pending[r].ran => /\ pending[r].sent <= pending[r].turn.t
                                           /\ pending[r].left \in 1..IdWindow
    BY <1>2, <1>6 DEF PendingOK
  <2>1. pending[r].sent \in Nat
    BY <1>0, GivenTypes DEF Pendings
  <2>2. pending[r].sent <= ticks /\ ticks < pending[r].sent + Late
    BY <1>0, <1>2 DEF PendingOK
  <2> QED  BY <1>0, <1>1, <2>1, <2>2 DEF PendingOK
<1>11. TurnsOK'
  <2> SUFFICES ASSUME NEW x \in Given  PROVE TurnOK(x)'
    BY <1>6 DEF TurnsOK
  <2>1. x.nth \in Nat /\ x.window \in Nat /\ x.t \in Nat
    BY <1>0, GivenTypes
  <2>2. /\ 1 <= x.nth /\ x.t <= ticks /\ x.window <= windows
        /\ x.window = windows => x.nth <= window.count
        /\ x.window + 2 <= windows => x.t + IdWindow <= ticks + Slip
        /\ x.window < windows /\ window.expires # Never => x.t + IdWindow <= window.expires + Slip
    BY <1>0 DEF TurnsOK, TurnOK
  <2>3. CASE /\ backend = "redis" /\ window.expires # Never /\ window.expires <= ticks + 1
             /\ window' = NoWindow /\ windows' = windows + 1
    BY <1>1, <1>2, <1>4, <1>6, <2>1, <2>2, <2>3 DEF TurnOK
  <2>4. CASE window' = window /\ windows' = windows
    BY <1>1, <1>2, <1>6, <2>1, <2>2, <2>4 DEF TurnOK
  <2> QED  BY <1>3, <2>3, <2>4
<1>12. TurnsDiffer'
  BY <1>0, <1>2, <1>6 DEF TurnsDiffer
<1>13. AdmittedOK'
  <2>1. \A k \in DOMAIN admitted : admitted[k].at \in Nat
    BY <1>0, GivenTypes DEF Admissions
  <2> QED  BY <1>0, <1>1, <1>2, <1>6, <2>1 DEF AdmittedOK
<1>14. HintIsTrue'
  BY <1>0, <1>2, <1>6 DEF HintIsTrue
<1> QED  BY <1>7, <1>8, <1>9, <1>10, <1>11, <1>12, <1>13, <1>14 DEF IdentityInv

\* The key loses its expiry.
LEMMA PersistOK ==
    ASSUME IdentityInv, Persist
    PROVE  IdentityInv'
<1>0. /\ IdentityTypes /\ CountsBounded /\ BackendOK /\ PendingOK /\ TurnsOK /\ TurnsDiffer
      /\ AdmittedOK /\ HintIsTrue
  BY DEF IdentityInv
<1>1. /\ ticks \in Nat /\ IdWindow \in Nat
  BY <1>0, IdentityNumbers
<1>2. /\ backend = "redis" /\ ticks' = ticks /\ backend' = backend /\ cleanedAt' = cleanedAt
      /\ pending' = pending /\ seen' = seen /\ admitted' = admitted /\ hints' = hints
      /\ persisted' = ticks /\ windows' = windows
      /\ window' = [window EXCEPT !.expires = Never]
  BY DEF Persist
<1>3. /\ window' \in [count : Nat, expires : Int] /\ window'.count = window.count
      /\ window'.expires = Never
  BY <1>0, <1>2 DEF IdentityTypes, Never
<1>4. /\ Ran' = Ran /\ Given' = Given /\ Waiting' = Waiting
      /\ Slip' = Slip /\ Late' = Late /\ Wait' = Wait
  BY <1>2 DEF Ran, Given, Waiting, Slip, Late, Wait
<1>5. IdentityTypes'
  <2>1. persisted' \in -1..ticks' /\ window'.expires \in -1..ticks' + IdWindow
    BY <1>1, <1>2, <1>3 DEF Never
  <2> QED  BY <1>0, <1>2, <1>3, <2>1 DEF IdentityTypes
<1>6. CountsBounded' /\ BackendOK' /\ PendingOK'
  BY <1>0, <1>2, <1>3, <1>4 DEF CountsBounded, BackendOK, PendingOK
<1>7. TurnsOK'
  BY <1>0, <1>2, <1>3, <1>4 DEF TurnsOK, TurnOK
<1>8. TurnsDiffer'
  BY <1>0, <1>2, <1>4 DEF TurnsDiffer
<1>9. AdmittedOK'
  BY <1>0, <1>2, <1>4 DEF AdmittedOK
<1>10. HintIsTrue'
  BY <1>0, <1>2, <1>4 DEF HintIsTrue
<1> QED  BY <1>5, <1>6, <1>7, <1>8, <1>9, <1>10 DEF IdentityInv

\* A request comes.
LEMMA IdArriveOK ==
    ASSUME IdentityInv, IdArrive
    PROVE  IdentityInv'
<1> DEFINE n == seen + 1
           new == [sent |-> ticks, ran |-> FALSE, turn |-> Turn(0, 0), left |-> 0]
<1>0. /\ IdentityTypes /\ CountsBounded /\ BackendOK /\ PendingOK /\ TurnsOK /\ TurnsDiffer
      /\ AdmittedOK /\ HintIsTrue
  BY DEF IdentityInv
<1>1. /\ ticks \in Nat /\ IdWindow \in Nat /\ window.count \in Nat /\ Late \in Nat
      /\ seen \in Nat /\ MaxSeen \in Nat /\ Len(admitted) \in Nat /\ Len(hints) \in Nat
  BY <1>0, IdentityNumbers, GivenTypes
<1>2. /\ ticks' = ticks /\ backend' = backend /\ cleanedAt' = cleanedAt
      /\ seen < MaxSeen /\ seen' = n /\ admitted' = admitted /\ hints' = hints
      /\ persisted' = persisted /\ windows' = windows /\ window' = window
      /\ pending' = [q \in DOMAIN pending \cup {n} |-> IF q = n THEN new ELSE pending[q]]
  BY DEF IdArrive
<1>3. n \notin DOMAIN pending /\ n \in 1..n /\ DOMAIN pending \subseteq 1..n
  BY <1>0, <1>1 DEF IdentityTypes
<1>4. new \in Pendings /\ new.sent = ticks /\ new.ran = FALSE
  <2>1. Turn(0, 0) \in Turns
    BY <1>1, TurnFields
  <2> QED  BY <1>1, <2>1 DEF Pendings
<1> HIDE DEF new
<1>5. /\ DOMAIN pending' = DOMAIN pending \cup {n} /\ pending'[n] = new
      /\ \A q \in DOMAIN pending : pending'[q] = pending[q]
  BY <1>2, <1>3
<1> HIDE DEF n
<1>6. Ran' = Ran
  BY <1>3, <1>4, <1>5 DEF Ran
<1>7. Given' = Given /\ Slip' = Slip /\ Late' = Late /\ Wait' = Wait
  <2>a. \A q \in Ran : pending'[q].turn = pending[q].turn
    BY <1>5 DEF Ran
  <2>b. admitted' = admitted
    BY <1>2
  <2>1. Given' = Given
    BY <1>6, <2>a, <2>b DEF Given
  <2>2. Slip' = Slip /\ Late' = Late /\ Wait' = Wait
    BY <1>2 DEF Slip, Late, Wait
  <2> QED  BY <2>1, <2>2
<1>8. Waiting' = Waiting \cup {n} /\ n \notin Waiting
  BY <1>3, <1>5, <1>6 DEF Waiting, Ran
<1>9. IdentityTypes'
  <2>1. pending' \in [DOMAIN pending' -> Pendings]
    <3>1. \A q \in DOMAIN pending' : pending'[q] \in Pendings
      BY <1>0, <1>4, <1>5, GivenTypes
    <3>2. pending' = [q \in DOMAIN pending' |-> pending'[q]]
      BY <1>2
    <3> QED  BY <3>1, <3>2
  <2>2. seen' \in 0..MaxSeen
    BY <1>1, <1>2 DEF n
  <2> QED  BY <1>0, <1>2, <1>3, <1>5, <2>1, <2>2 DEF IdentityTypes
<1>10. CountsBounded'
  <2>1. /\ Cardinality(Waiting) \in Nat /\ Cardinality(DOMAIN pending) \in Nat
        /\ IsFiniteSet(Waiting) /\ IsFiniteSet(DOMAIN pending)
    BY <1>0, PendingFinite
  <2>2. Cardinality(Waiting') = Cardinality(Waiting) + 1
    BY <1>8, <2>1, FS_AddElement
  <2>3. Cardinality(DOMAIN pending') = Cardinality(DOMAIN pending) + 1
    BY <1>3, <1>5, <2>1, FS_AddElement
  <2>4. /\ window.count + Cardinality(Waiting) <= seen
        /\ Len(admitted) + Len(hints) + Cardinality(DOMAIN pending) <= seen
    BY <1>0 DEF CountsBounded
  <2>5. /\ window.count + Cardinality(Waiting') <= seen'
        /\ Len(admitted) + Len(hints) + Cardinality(DOMAIN pending') <= seen'
    BY <1>1, <1>2, <2>1, <2>2, <2>3, <2>4 DEF n
  <2> QED  BY <1>2, <2>5 DEF CountsBounded
<1>11. BackendOK'
  BY <1>0, <1>2, <1>6 DEF BackendOK
<1>12. PendingOK'
  <2> SUFFICES ASSUME NEW q \in DOMAIN pending'
               PROVE  /\ pending'[q].sent <= ticks /\ ticks <= pending'[q].sent + Late
                      /\ pending'[q].ran => /\ pending'[q].sent <= pending'[q].turn.t
                                            /\ pending'[q].left \in 1..IdWindow
    BY <1>2, <1>7 DEF PendingOK
  <2>1. CASE q = n
    BY <1>1, <1>4, <1>5, <2>1
  <2>2. CASE q \in DOMAIN pending
    BY <1>0, <1>5, <2>2 DEF PendingOK
  <2> QED  BY <1>5, <2>1, <2>2
<1>13. TurnsOK'
  BY <1>0, <1>2, <1>7 DEF TurnsOK, TurnOK
<1>14. TurnsDiffer'
  <2>1. \A r \in Ran : pending'[r] = pending[r]
    BY <1>5 DEF Ran
  <2>2. \A i, j \in DOMAIN admitted' : admitted'[i].turn = admitted'[j].turn => i = j
    BY <1>0, <1>2 DEF TurnsDiffer
  <2>3. \A q1, q2 \in Ran' : pending'[q1].turn = pending'[q2].turn => q1 = q2
    BY <1>0, <1>6, <2>1 DEF TurnsDiffer
  <2>4. \A i \in DOMAIN admitted', q \in Ran' : admitted'[i].turn # pending'[q].turn
    <3>1. admitted' = admitted
      BY <1>2
    <3> QED  BY <1>0, <1>6, <2>1, <3>1 DEF TurnsDiffer
  <2>5. Given' \subseteq Given /\ Slip' = Slip
    BY <1>7
  <2> QED  BY <1>0, <2>2, <2>3, <2>4, <2>5, TurnsKept DEF TurnsDiffer
<1>15. AdmittedOK'
  BY <1>0, <1>2, <1>7 DEF AdmittedOK
<1>16. HintIsTrue'
  BY <1>0, <1>2, <1>7 DEF HintIsTrue
<1> QED  BY <1>9, <1>10, <1>11, <1>12, <1>13, <1>14, <1>15, <1>16 DEF IdentityInv

\* A turn that nobody had keeps the turns apart.
LEMMA TurnAdded ==
    ASSUME TurnsDiffer, Slip' = Slip, NEW new, TurnOK(new)', Given' \subseteq Given \cup {new},
           \A x \in Given :
                 /\ TurnOK(x)' /\ x # new /\ ~(x.nth = new.nth /\ x.window = new.window)
                 /\ x.window + 2 <= new.window => x.t + IdWindow <= new.t + Slip
                 /\ ~(new.window + 2 <= x.window),
           new.window \in Nat
    PROVE  /\ TurnsOK'
           /\ (\A x, y \in Given : x.nth = y.nth /\ x.window = y.window => x = y)'
           /\ (\A x, y \in Given : x.window + 2 <= y.window => x.t + IdWindow <= y.t + Slip)'
<1>1. TurnsOK'
  BY DEF TurnsOK
<1>2. ASSUME NEW x \in Given', NEW y \in Given', x.nth = y.nth, x.window = y.window
      PROVE  x = y
  BY <1>2 DEF TurnsDiffer
<1>3. ASSUME NEW x \in Given', NEW y \in Given', x.window + 2 <= y.window
      PROVE  x.t + IdWindow <= y.t + Slip
  <2>1. ~(new.window + 2 <= new.window)
    OBVIOUS
  <2>2. CASE x \in Given /\ y \in Given
    BY <1>3, <2>2 DEF TurnsDiffer
  <2>3. CASE x = new
    BY <1>3, <2>1, <2>3
  <2>4. CASE x \in Given /\ y = new
    BY <1>3, <2>4
  <2> QED  BY <2>2, <2>3, <2>4
<1> QED  BY <1>1, <1>2, <1>3

\* The script of a request runs: the request is counted.
LEMMA RunScriptOK ==
    ASSUME IdentityInv, NEW r \in DOMAIN pending, RunScript(r)
    PROVE  IdentityInv'
<1> DEFINE left == window'.expires - ticks
<1>0. /\ IdentityTypes /\ CountsBounded /\ BackendOK /\ PendingOK /\ TurnsOK /\ TurnsDiffer
      /\ AdmittedOK /\ HintIsTrue
  BY DEF IdentityInv
<1>1. /\ ticks \in Nat /\ IdWindow \in Nat /\ IdWindow >= 1 /\ windows \in Nat
      /\ window.count \in Nat /\ window.expires \in Int /\ Late \in Nat /\ seen \in Nat
      /\ Slip \in Nat
  BY <1>0, IdentityNumbers
<1>2. /\ ticks' = ticks /\ backend' = backend /\ cleanedAt' = cleanedAt /\ seen' = seen
      /\ windows' = windows /\ admitted' = admitted /\ hints' = hints /\ persisted' = persisted
      /\ pending[r].ran = FALSE
  <2>1. pending[r].ran \in BOOLEAN
    BY <1>0, GivenTypes DEF Pendings
  <2> QED  BY <2>1 DEF RunScript
<1>3. window' = [count |-> window.count + 1,
                 expires |-> IF window.expires = Never THEN ticks + IdWindow ELSE window.expires]
  BY DEF RunScript
<1>4. /\ window' \in [count : Nat, expires : Int] /\ window'.count = window.count + 1
      /\ window'.expires = IF window.expires = Never THEN ticks + IdWindow ELSE window.expires
      /\ window'.count \in Nat /\ window'.expires \in Int
  BY <1>1, <1>3
<1>5. backend = "redis" /\ Slip' = Slip /\ Late' = Late /\ Wait' = Wait
  BY <1>2 DEF RunScript, Slip, Late, Wait
<1>6. left \in 1..IdWindow
  <2>1. window.expires # Never => ticks < window.expires
    BY <1>0, <1>5 DEF BackendOK
  <2>2. window.expires <= ticks + IdWindow
    BY <1>0, <1>1 DEF IdentityTypes
  <2> QED  BY <1>1, <1>4, <2>1, <2>2
<1>7. PICK new \in Turns : /\ new = Turn(window'.count, windows) /\ new.nth = window'.count
                           /\ new.window = windows /\ new.t = ticks
  BY <1>1, <1>4, TurnFields
<1> DEFINE p == [pending[r] EXCEPT !.ran = TRUE, !.turn = new, !.left = left]
<1>8. pending' = [pending EXCEPT ![r] = p]
  BY <1>7 DEF RunScript
<1> HIDE DEF left
<1>9. /\ p \in Pendings /\ p.sent = pending[r].sent /\ p.turn = new /\ p.left = left
      /\ p.sent \in Nat
  <2>1. pending[r] \in Pendings
    BY <1>0, GivenTypes
  <2>2. left \in Nat
    BY <1>1, <1>6
  <2> QED  BY <1>7, <2>1, <2>2 DEF Pendings
<1>10. p.ran = TRUE
  <2>1. pending[r] \in Pendings
    BY <1>0, GivenTypes
  <2> QED  BY <2>1 DEF Pendings
<1> HIDE DEF p
<1>11. /\ DOMAIN pending' = DOMAIN pending /\ pending'[r] = p
       /\ \A q \in DOMAIN pending : q # r => pending'[q] = pending[q]
  BY <1>8
<1>12. r \notin Ran /\ Ran' = Ran \cup {r}
  <2>1. r \notin Ran
    BY <1>2 DEF Ran
  <2> QED  BY <1>10, <1>11, <2>1 DEF Ran
<1>13. \A q \in Ran : pending'[q] = pending[q] /\ q # r
  BY <1>11, <1>12 DEF Ran
<1>14. Given' = Given \cup {new}
  BY <1>2, <1>9, <1>11, <1>12, <1>13 DEF Given
<1>15. Counts(ticks)
  BY <1>2, <1>4 DEF Counts
<1>16. /\ TurnOK(new)'
       /\ \A x \in Given :
                 /\ TurnOK(x)' /\ x # new /\ ~(x.nth = new.nth /\ x.window = new.window)
                 /\ x.window + 2 <= new.window => x.t + IdWindow <= new.t + Slip
                 /\ ~(new.window + 2 <= x.window)
  <2>1. window'.count = new.nth /\ windows' = new.window /\ ticks = new.t
    BY <1>2, <1>7
  <2>2. ticks \in Nat /\ ticks <= ticks /\ ticks <= ticks + Slip
    BY <1>1
  <2> QED  BY <1>0, <1>4, <1>7, <1>15, <2>1, <2>2, CountsOK
<1>17. IdentityTypes'
  <2>1. pending' \in [DOMAIN pending' -> Pendings]
    <3>1. \A q \in DOMAIN pending' : pending'[q] \in Pendings
      BY <1>0, <1>9, <1>11, GivenTypes
    <3>2. pending' = [q \in DOMAIN pending' |-> pending'[q]]
      BY <1>8
    <3> QED  BY <3>1, <3>2
  <2>2. window'.expires \in -1..ticks + IdWindow
    <3>1. window.expires \in -1..ticks + IdWindow
      BY <1>0 DEF IdentityTypes
    <3> QED  BY <1>1, <1>4, <3>1
  <2> QED  BY <1>0, <1>2, <1>4, <1>11, <2>1, <2>2 DEF IdentityTypes
<1>18. CountsBounded'
  <2>1. /\ Cardinality(Waiting) \in Nat /\ IsFiniteSet(Waiting)
    BY <1>0, PendingFinite
  <2>2. r \in Waiting /\ Waiting' = Waiting \ {r}
    BY <1>11, <1>12 DEF Waiting
  <2>3. Cardinality(Waiting') = Cardinality(Waiting) - 1
    BY <2>1, <2>2, FS_RemoveElement
  <2>4. window.count + Cardinality(Waiting) <= seen
    BY <1>0 DEF CountsBounded
  <2>5. window'.count + Cardinality(Waiting') <= seen
    BY <1>1, <1>4, <2>1, <2>3, <2>4
  <2> QED  BY <1>0, <1>2, <1>11, <2>5 DEF CountsBounded
<1>19. BackendOK'
  BY <1>1, <1>2, <1>4, <1>5, <1>6 DEF BackendOK, left
<1>20. PendingOK'
  <2> SUFFICES ASSUME NEW q \in DOMAIN pending
               PROVE  /\ pending'[q].sent <= ticks /\ ticks <= pending'[q].sent + Late
                      /\ pending'[q].ran => /\ pending'[q].sent <= pending'[q].turn.t
                                            /\ pending'[q].left \in 1..IdWindow
    BY <1>2, <1>5, <1>11 DEF PendingOK
  <2>1. CASE q = r
    BY <1>0, <1>6, <1>7, <1>9, <1>11, <2>1 DEF PendingOK
  <2>2. CASE q # r
    BY <1>0, <1>11, <2>2 DEF PendingOK
  <2> QED  BY <2>1, <2>2
<1>21. /\ TurnsOK'
       /\ (\A x, y \in Given : x.nth = y.nth /\ x.window = y.window => x = y)'
       /\ (\A x, y \in Given : x.window + 2 <= y.window => x.t + IdWindow <= y.t + Slip)'
  BY <1>0, <1>1, <1>5, <1>7, <1>14, <1>16, TurnAdded
<1>22. TurnsDiffer'
  <2>1. \A q \in Ran : pending[q].turn # new
    BY <1>16 DEF Given
  <2>2. \A k \in DOMAIN admitted : admitted[k].turn # new
    BY <1>16 DEF Given
  <2>3. pending'[r].turn = new
    BY <1>9, <1>11
  <2>4. \A q1, q2 \in Ran' : pending'[q1].turn = pending'[q2].turn => q1 = q2
    BY <1>0, <1>12, <1>13, <2>1, <2>3 DEF TurnsDiffer
  <2>5. \A i \in DOMAIN admitted', q \in Ran' : admitted'[i].turn # pending'[q].turn
    BY <1>0, <1>2, <1>12, <1>13, <2>2, <2>3 DEF TurnsDiffer
  <2>6. \A i, j \in DOMAIN admitted' : admitted'[i].turn = admitted'[j].turn => i = j
    BY <1>0, <1>2 DEF TurnsDiffer
  <2> QED  BY <1>21, <2>4, <2>5, <2>6 DEF TurnsDiffer
<1>23. AdmittedOK'
  BY <1>0, <1>2, <1>5 DEF AdmittedOK
<1>24. HintIsTrue'
  BY <1>0, <1>2, <1>5 DEF HintIsTrue
<1> QED  BY <1>17, <1>18, <1>19, <1>20, <1>21, <1>22, <1>23, <1>24 DEF IdentityInv

\* A request that is no longer out.
Drops(r) ==
    /\ DOMAIN pending' = DOMAIN pending \ {r}
    /\ \A q \in DOMAIN pending' : pending'[q] = pending[q]
    /\ pending' \in [DOMAIN pending' -> Pendings]
    /\ Ran' = Ran \ {r}
    /\ \A q \in Ran' : pending'[q] = pending[q] /\ q \in Ran
    /\ Cardinality(DOMAIN pending') + 1 = Cardinality(DOMAIN pending)
    /\ Cardinality(Waiting') <= Cardinality(Waiting)
    /\ Cardinality(Waiting') \in Nat /\ Cardinality(DOMAIN pending') \in Nat

\* Taking its script out of the pending ones drops a request.
LEMMA DropsOK ==
    ASSUME IdentityTypes, NEW r \in DOMAIN pending,
           pending' = [q \in DOMAIN pending \ {r} |-> pending[q]]
    PROVE  Drops(r)
<1>1. DOMAIN pending' = DOMAIN pending \ {r}
  OBVIOUS
<1>2. \A q \in DOMAIN pending' : pending'[q] = pending[q]
  OBVIOUS
<1>3. \A q \in DOMAIN pending' : pending'[q] \in Pendings
  BY <1>1, <1>2, GivenTypes
<1>4. pending' \in [DOMAIN pending' -> Pendings]
  <2>1. pending' = [q \in DOMAIN pending' |-> pending'[q]]
    OBVIOUS
  <2> QED  BY <1>3, <2>1
<1>5. Ran' = Ran \ {r}
  BY <1>1, <1>2 DEF Ran
<1>6. \A q \in Ran' : pending'[q] = pending[q] /\ q \in Ran
  BY <1>1, <1>2, <1>5 DEF Ran
<1>7. /\ IsFiniteSet(DOMAIN pending) /\ IsFiniteSet(Waiting)
      /\ Cardinality(DOMAIN pending) \in Nat /\ Cardinality(Waiting) \in Nat
  BY PendingFinite
<1>8. Waiting' \subseteq Waiting
  BY <1>1, <1>5 DEF Waiting
<1>9. /\ Cardinality(Waiting') <= Cardinality(Waiting) /\ Cardinality(Waiting') \in Nat
  BY <1>7, <1>8, FS_Subset, FS_CardinalityType
<1>10. Cardinality(DOMAIN pending') = Cardinality(DOMAIN pending) - 1 /\ IsFiniteSet(DOMAIN pending')
  BY <1>1, <1>7, FS_RemoveElement
<1>11. Cardinality(DOMAIN pending') \in Nat
  BY <1>10, FS_CardinalityType
<1>12. Cardinality(DOMAIN pending') + 1 = Cardinality(DOMAIN pending)
  BY <1>7, <1>10, <1>11
<1> QED  BY <1>1, <1>2, <1>4, <1>5, <1>6, <1>9, <1>11, <1>12 DEF Drops

\* What a decision adds to the histories.
Decided(turn) ==
    /\ admitted' \in Seq(Admissions) /\ hints' \in Seq(Hints)
    /\ Len(admitted') + Len(hints') = Len(admitted) + Len(hints) + 1
    /\ Len(admitted') \in Nat /\ Len(hints') \in Nat
    /\ \A k \in DOMAIN admitted' :
          \/ k \in DOMAIN admitted /\ admitted'[k].turn = admitted[k].turn
          \/ k = Len(admitted) + 1 /\ k \notin DOMAIN admitted /\ admitted'[k].turn = turn
    /\ AdmittedOK' /\ HintIsTrue'

\* A request whose turn came at most the time of an answer ago is decided.
LEMMA DecideOK ==
    ASSUME IdentityTypes, AdmittedOK, HintIsTrue, NEW turn \in Turns, turn.t <= ticks,
           ticks <= turn.t + Wait, NEW moment \in Nat, moment <= ticks, ticks <= moment + Late,
           NEW left \in 1..IdWindow + Slip, Decide(turn, moment, left),
           ticks' = ticks, backend' = backend
    PROVE  Decided(turn)
<1>1. /\ ticks \in Nat /\ Late \in Nat /\ Wait \in Nat /\ IdLimit \in Nat /\ TicksPerSecond \in Nat
  BY IdentityNumbers
<1>2. /\ admitted \in Seq(Admissions) /\ hints \in Seq(Hints)
      /\ DOMAIN admitted = 1..Len(admitted) /\ Len(admitted) \in Nat
      /\ DOMAIN hints = 1..Len(hints) /\ Len(hints) \in Nat
      /\ \A k \in DOMAIN admitted : admitted[k].at \in Nat
  <2>1. \A k \in DOMAIN admitted : admitted[k] \in Admissions
    BY GivenTypes
  <2> QED  BY <2>1, GivenTypes DEF IdentityTypes, Admissions
<1>3. turn.nth \in Nat /\ turn.t \in Nat
  BY DEF Turns
<1>4. Slip' = Slip /\ Late' = Late /\ Wait' = Wait
  BY DEF Slip, Late, Wait
<1>5. CASE turn.nth <= IdLimit
  <2>1. PICK e : e = [at |-> ticks, turn |-> turn]
    OBVIOUS
  <2>2. e \in Admissions /\ e.at = ticks /\ e.turn = turn
    BY <1>1, <2>1 DEF Admissions
  <2>3. admitted' = Append(admitted, e) /\ hints' = hints
    BY <1>5, <2>1 DEF Decide
  <2>4. /\ Append(admitted, e) \in Seq(Admissions) /\ Len(Append(admitted, e)) = Len(admitted) + 1
        /\ DOMAIN Append(admitted, e) = 1..Len(admitted) + 1
        /\ \A k \in 1..Len(admitted) : Append(admitted, e)[k] = admitted[k]
        /\ Append(admitted, e)[Len(admitted) + 1] = e
    BY <1>2, <2>2, SeqAppends
  <2>5. /\ admitted' \in Seq(Admissions) /\ Len(admitted') = Len(admitted) + 1
        /\ DOMAIN admitted' = 1..Len(admitted) + 1
        /\ \A k \in 1..Len(admitted) : admitted'[k] = admitted[k]
        /\ admitted'[Len(admitted) + 1] = e
    BY <2>3, <2>4
  <2>6. \A k \in DOMAIN admitted' : \/ k \in DOMAIN admitted /\ admitted'[k] = admitted[k]
                                    \/ k = Len(admitted) + 1 /\ k \notin DOMAIN admitted /\ admitted'[k] = e
    BY <1>2, <2>5
  <2>7. AdmittedOK'
    <3>1. ASSUME NEW k \in DOMAIN admitted'
          PROVE  /\ admitted'[k].turn.nth <= IdLimit /\ admitted'[k].at <= ticks
                 /\ admitted'[k].turn.t <= admitted'[k].at
                 /\ admitted'[k].at <= admitted'[k].turn.t + Wait
      <4>1. CASE k \in DOMAIN admitted /\ admitted'[k] = admitted[k]
        BY <4>1 DEF AdmittedOK
      <4>2. CASE admitted'[k] = e
        BY <1>1, <1>5, <2>2, <4>2
      <4> QED  BY <2>6, <4>1, <4>2
    <3>2. ASSUME NEW i \in DOMAIN admitted', NEW j \in DOMAIN admitted', i <= j
          PROVE  admitted'[i].at <= admitted'[j].at
      <4>1. CASE j \in DOMAIN admitted
        <5>1. i \in DOMAIN admitted
          BY <1>2, <2>5, <3>2, <4>1
        <5>2. admitted'[i] = admitted[i] /\ admitted'[j] = admitted[j]
          BY <1>2, <2>5, <4>1, <5>1
        <5> QED  BY <3>2, <4>1, <5>1, <5>2 DEF AdmittedOK
      <4>2. CASE j \notin DOMAIN admitted
        <5>1. admitted'[j].at = ticks
          BY <2>2, <2>6, <4>2
        <5> QED  BY <3>1, <5>1
      <4> QED  BY <4>1, <4>2
    <3> QED  BY <1>4, <3>1, <3>2 DEF AdmittedOK
  <2>8. HintIsTrue'
    BY <1>4, <2>3 DEF HintIsTrue
  <2>9. \A k \in DOMAIN admitted' :
          \/ k \in DOMAIN admitted /\ admitted'[k].turn = admitted[k].turn
          \/ k = Len(admitted) + 1 /\ k \notin DOMAIN admitted /\ admitted'[k].turn = turn
    BY <2>2, <2>6
  <2>10. Len(admitted') + Len(hints') = Len(admitted) + Len(hints) + 1 /\ Len(admitted') \in Nat
    BY <1>2, <2>3, <2>5
  <2> QED  BY <1>2, <2>3, <2>5, <2>7, <2>8, <2>9, <2>10 DEF Decided
<1>6. CASE ~(turn.nth <= IdLimit)
  <2>1. PICK h : h = [at |-> ticks, after |-> RetryAfter(left), ends |-> moment + left]
    OBVIOUS
  <2>2. h \in Hints /\ HintTrue(h)
    BY <1>1, <1>3, <2>1, HintOK
  <2>3. hints' = Append(hints, h) /\ admitted' = admitted
    BY <1>6, <2>1 DEF Decide
  <2>4. /\ Append(hints, h) \in Seq(Hints) /\ Len(Append(hints, h)) = Len(hints) + 1
        /\ DOMAIN Append(hints, h) = 1..Len(hints) + 1
        /\ \A k \in 1..Len(hints) : Append(hints, h)[k] = hints[k]
        /\ Append(hints, h)[Len(hints) + 1] = h
    BY <1>2, <2>2, SeqAppends
  <2>5. /\ hints' \in Seq(Hints) /\ Len(hints') = Len(hints) + 1
        /\ DOMAIN hints' = 1..Len(hints) + 1
        /\ \A k \in 1..Len(hints) : hints'[k] = hints[k]
        /\ hints'[Len(hints) + 1] = h
    BY <2>3, <2>4
  <2>6. \A k \in DOMAIN hints : HintTrue(hints[k])
    BY DEF HintIsTrue, HintTrue
  <2>7. \A k \in DOMAIN hints' : HintTrue(hints'[k])
    <3> SUFFICES ASSUME NEW k \in DOMAIN hints'  PROVE HintTrue(hints'[k])
      OBVIOUS
    <3>1. CASE k \in 1..Len(hints)
      BY <1>2, <2>5, <2>6, <3>1
    <3>2. CASE k = Len(hints) + 1
      BY <2>2, <2>5, <3>2
    <3> QED  BY <1>2, <2>5, <3>1, <3>2
  <2>8. HintIsTrue'
    BY <1>4, <2>7 DEF HintIsTrue, HintTrue
  <2>9. AdmittedOK'
    BY <1>4, <2>3 DEF AdmittedOK
  <2>10. Len(admitted') + Len(hints') = Len(admitted) + Len(hints) + 1 /\ Len(hints') \in Nat
    BY <1>2, <2>3, <2>5
  <2> QED  BY <1>2, <2>3, <2>5, <2>8, <2>9, <2>10 DEF Decided
<1> QED  BY <1>5, <1>6

\* A request is no longer out, decided or not.
LEMMA DroppedOK ==
    ASSUME IdentityInv, NEW r \in DOMAIN pending, Drops(r),
           UNCHANGED <<ticks, backend, window, cleanedAt, seen, windows, persisted>>
    PROVE  BackendOK' /\ PendingOK'
<1>0. BackendOK /\ PendingOK
  BY DEF IdentityInv
<1>1. \A q \in DOMAIN pending' : q \in DOMAIN pending /\ pending'[q] = pending[q]
  BY DEF Drops
<1>2. BackendOK'
  BY <1>0 DEF BackendOK, Drops
<1>3. PendingOK'
  BY <1>0, <1>1 DEF PendingOK, Late
<1> QED  BY <1>2, <1>3

\* The answer of a script comes: the request is decided by its turn.
LEMMA AnswerScriptOK ==
    ASSUME IdentityInv, NEW r \in DOMAIN pending, AnswerScript(r)
    PROVE  IdentityInv'
<1>0. /\ IdentityTypes /\ CountsBounded /\ BackendOK /\ PendingOK /\ TurnsOK /\ TurnsDiffer
      /\ AdmittedOK /\ HintIsTrue
  BY DEF IdentityInv
<1>1. /\ ticks \in Nat /\ window.count \in Nat /\ TicksPerSecond \in Nat /\ seen \in Nat
      /\ Len(admitted) \in Nat /\ Len(hints) \in Nat
      /\ Cardinality(DOMAIN pending) \in Nat /\ Cardinality(Waiting) \in Nat
  BY <1>0, IdentityNumbers, GivenTypes, PendingFinite
<1>2. /\ ticks' = ticks /\ backend' = backend /\ cleanedAt' = cleanedAt /\ seen' = seen
      /\ windows' = windows /\ window' = window /\ persisted' = persisted
      /\ Decide(pending[r].turn, pending[r].turn.t, pending[r].left) /\ pending[r].ran
  BY DEF AnswerScript
<1>3. Drops(r)
  BY <1>0, DropsOK DEF AnswerScript
<1>4. r \in Ran
  BY <1>2 DEF Ran
<1>5. PICK turn \in Turns : turn = pending[r].turn
  <2>1. pending[r] \in Pendings
    BY <1>0, GivenTypes
  <2> QED  BY <2>1 DEF Pendings
<1>6. turn \in Given /\ turn.t \in Nat /\ turn.t <= ticks
  <2>1. turn \in Given
    BY <1>4, <1>5 DEF Given
  <2> QED  BY <1>0, <2>1 DEF TurnsOK, TurnOK, Turns
<1>7. /\ pending[r].left \in 1..IdWindow + Slip /\ ticks <= turn.t + Wait
      /\ ticks <= turn.t + Late
  <2>1. /\ pending[r].sent <= turn.t /\ ticks <= pending[r].sent + Late
        /\ pending[r].left \in 1..IdWindow
    BY <1>0, <1>2, <1>5 DEF PendingOK
  <2>2. backend = "redis"
    BY <1>0, <1>4 DEF BackendOK, IdentityTypes
  <2>3. Late = TicksPerSecond /\ Wait = TicksPerSecond /\ Slip = 0 /\ IdWindow \in Nat
    BY <2>2, IdWindowType DEF Late, Wait, Slip
  <2>4. pending[r].sent \in Nat
    BY <1>0, GivenTypes DEF Pendings
  <2> QED  BY <1>1, <1>6, <2>1, <2>3, <2>4
<1>8. Decided(turn)
  BY <1>0, <1>2, <1>5, <1>6, <1>7, DecideOK
<1>9. IdentityTypes'
  <2>1. DOMAIN pending' \subseteq 1..seen /\ pending' \in [DOMAIN pending' -> Pendings]
    BY <1>0, <1>3 DEF IdentityTypes, Drops
  <2> QED  BY <1>0, <1>2, <1>8, <2>1 DEF IdentityTypes, Decided
<1>10. CountsBounded'
  <2>1. /\ window.count + Cardinality(Waiting) <= seen
        /\ Len(admitted) + Len(hints) + Cardinality(DOMAIN pending) <= seen
    BY <1>0 DEF CountsBounded
  <2>2. /\ Cardinality(Waiting') <= Cardinality(Waiting) /\ Cardinality(Waiting') \in Nat
        /\ Cardinality(DOMAIN pending') + 1 = Cardinality(DOMAIN pending)
        /\ Cardinality(DOMAIN pending') \in Nat
    BY <1>3 DEF Drops
  <2>3. Len(admitted') + Len(hints') = Len(admitted) + Len(hints) + 1
    BY <1>8 DEF Decided
  <2>4. window.count + Cardinality(Waiting') <= seen
    BY <1>1, <2>1, <2>2
  <2>5. Len(admitted') + Len(hints') + Cardinality(DOMAIN pending') <= seen
    BY <1>1, <2>1, <2>2, <2>3
  <2> QED  BY <1>2, <2>4, <2>5 DEF CountsBounded
<1>11. BackendOK' /\ PendingOK'
  BY <1>2, <1>3, DroppedOK
<1>12. Given' \subseteq Given
  <2>1. \A k \in DOMAIN admitted' : admitted'[k].turn \in Given
    BY <1>6, <1>8 DEF Decided, Given
  <2>2. \A q \in Ran' : pending'[q].turn \in Given
    BY <1>3 DEF Drops, Given
  <2> QED  BY <2>1, <2>2 DEF Given
<1>13. TurnsOK' /\ Slip' = Slip
  BY <1>0, <1>2, <1>12 DEF TurnsOK, TurnOK, Slip
<1>14. TurnsDiffer'
  <2>1. /\ \A q \in Ran' : pending'[q] = pending[q] /\ q \in Ran
        /\ \A q \in Ran' : q # r
    BY <1>3 DEF Drops
  <2>2. \A k \in DOMAIN admitted' :
          \/ k \in DOMAIN admitted /\ admitted'[k].turn = admitted[k].turn
          \/ k = Len(admitted) + 1 /\ k \notin DOMAIN admitted /\ admitted'[k].turn = turn
    BY <1>8 DEF Decided
  <2>3. \A k \in DOMAIN admitted : admitted[k].turn # turn
    BY <1>0, <1>4, <1>5 DEF TurnsDiffer
  <2>4. \A i, j \in DOMAIN admitted' : admitted'[i].turn = admitted'[j].turn => i = j
    BY <1>0, <2>2, <2>3 DEF TurnsDiffer
  <2>5. \A q1, q2 \in Ran' : pending'[q1].turn = pending'[q2].turn => q1 = q2
    BY <1>0, <2>1 DEF TurnsDiffer
  <2>6. \A q \in Ran' : pending'[q].turn # turn
    BY <1>0, <1>4, <1>5, <2>1 DEF TurnsDiffer
  <2>7. \A i \in DOMAIN admitted', q \in Ran' : admitted'[i].turn # pending'[q].turn
    BY <1>0, <2>1, <2>2, <2>6 DEF TurnsDiffer
  <2> QED  BY <1>0, <1>12, <1>13, <2>4, <2>5, <2>7, TurnsKept DEF TurnsDiffer
<1>15. AdmittedOK' /\ HintIsTrue'
  BY <1>8 DEF Decided
<1> QED  BY <1>9, <1>10, <1>11, <1>13, <1>14, <1>15 DEF IdentityInv

\* No answer comes: the request is refused as unavailable.
LEMMA UnavailableOK ==
    ASSUME IdentityInv, NEW r \in DOMAIN pending, Unavailable(r)
    PROVE  IdentityInv'
<1>0. /\ IdentityTypes /\ CountsBounded /\ TurnsOK /\ TurnsDiffer /\ AdmittedOK /\ HintIsTrue
  BY DEF IdentityInv
<1>1. /\ window.count \in Nat /\ seen \in Nat /\ Len(admitted) \in Nat /\ Len(hints) \in Nat
      /\ Cardinality(DOMAIN pending) \in Nat /\ Cardinality(Waiting) \in Nat
  BY <1>0, IdentityNumbers, GivenTypes, PendingFinite
<1>2. /\ ticks' = ticks /\ backend' = backend /\ cleanedAt' = cleanedAt /\ seen' = seen
      /\ windows' = windows /\ window' = window /\ persisted' = persisted
      /\ admitted' = admitted /\ hints' = hints
  BY DEF Unavailable
<1>3. Drops(r)
  BY <1>0, DropsOK DEF Unavailable
<1>4. \A q \in Ran' : pending'[q] = pending[q] /\ q \in Ran
  BY <1>3 DEF Drops
<1>5. Given' \subseteq Given
  BY <1>2, <1>4 DEF Given
<1>6. IdentityTypes'
  <2>1. DOMAIN pending' \subseteq 1..seen /\ pending' \in [DOMAIN pending' -> Pendings]
    BY <1>0, <1>3 DEF IdentityTypes, Drops
  <2> QED  BY <1>0, <1>2, <2>1 DEF IdentityTypes
<1>7. CountsBounded'
  <2>1. /\ window.count + Cardinality(Waiting) <= seen
        /\ Len(admitted) + Len(hints) + Cardinality(DOMAIN pending) <= seen
    BY <1>0 DEF CountsBounded
  <2>2. /\ Cardinality(Waiting') <= Cardinality(Waiting) /\ Cardinality(Waiting') \in Nat
        /\ Cardinality(DOMAIN pending') + 1 = Cardinality(DOMAIN pending)
        /\ Cardinality(DOMAIN pending') \in Nat
    BY <1>3 DEF Drops
  <2>3. window.count + Cardinality(Waiting') <= seen
    BY <1>1, <2>1, <2>2
  <2>4. Len(admitted) + Len(hints) + Cardinality(DOMAIN pending') <= seen
    BY <1>1, <2>1, <2>2
  <2> QED  BY <1>2, <2>3, <2>4 DEF CountsBounded
<1>8. BackendOK' /\ PendingOK'
  BY <1>2, <1>3, DroppedOK
<1>9. TurnsOK' /\ Slip' = Slip /\ Late' = Late /\ Wait' = Wait
  BY <1>0, <1>2, <1>5 DEF TurnsOK, TurnOK, Slip, Late, Wait
<1>10. TurnsDiffer'
  <2>1. \A i, j \in DOMAIN admitted' : admitted'[i].turn = admitted'[j].turn => i = j
    BY <1>0, <1>2 DEF TurnsDiffer
  <2>2. \A q1, q2 \in Ran' : pending'[q1].turn = pending'[q2].turn => q1 = q2
    BY <1>0, <1>4 DEF TurnsDiffer
  <2>3. \A i \in DOMAIN admitted', q \in Ran' : admitted'[i].turn # pending'[q].turn
    BY <1>0, <1>2, <1>4 DEF TurnsDiffer
  <2> QED  BY <1>0, <1>5, <1>9, <2>1, <2>2, <2>3, TurnsKept DEF TurnsDiffer
<1>11. AdmittedOK'
  BY <1>0, <1>2, <1>9 DEF AdmittedOK
<1>12. HintIsTrue'
  BY <1>0, <1>2, <1>9 DEF HintIsTrue
<1> QED  BY <1>6, <1>7, <1>8, <1>9, <1>10, <1>11, <1>12 DEF IdentityInv

\* What a request under the memory backend does to the window: it is counted by the time
\* that it read before it got the lock.
LEMMA MemoryCounts ==
    ASSUME IdentityInv, NEW r \in DOMAIN pending, CheckMemory(r)
    PROVE  \E moment \in Nat :
              /\ moment = pending[r].sent /\ moment <= ticks /\ ticks <= moment + Slip /\ ticks <= moment + Late
              /\ Counts(moment) /\ window' \in [count : Nat, expires : Int]
              /\ window'.count <= window.count + 1
              /\ window'.expires - moment \in 1..IdWindow + Slip /\ window'.expires # Never
              /\ window'.expires <= ticks + IdWindow
              /\ windows' \in Nat /\ cleanedAt' \in -1..ticks
              /\ Decide(Turn(window'.count, windows'), moment, window'.expires - moment)
<1>0. IdentityTypes /\ BackendOK /\ PendingOK
  BY DEF IdentityInv
<1>1. /\ ticks \in Nat /\ IdWindow \in Nat /\ IdWindow >= 1 /\ windows \in Nat /\ Slip \in Nat
      /\ window.count \in Nat /\ window.expires \in Int
      /\ window \in [count : Nat, expires : Int] /\ window.expires \in -1..ticks + IdWindow
  BY <1>0, IdentityNumbers DEF IdentityTypes
<1>a. PICK moment \in Nat : moment = pending[r].sent /\ moment <= ticks /\ ticks <= moment + Slip /\ ticks <= moment + Late
  <2>1. pending[r].sent \in Nat
    BY <1>0, GivenTypes DEF Pendings
  <2>2. pending[r].sent <= ticks /\ ticks <= pending[r].sent + Late
    BY <1>0 DEF PendingOK
  <2>3. Late = Slip
    BY DEF CheckMemory, Late, Slip
  <2> QED  BY <2>1, <2>2, <2>3
<1> DEFINE clean == cleanedAt = Never \/ moment - cleanedAt >= IdWindow
           kept == IF clean /\ Expired(window, moment) THEN NoWindow ELSE window
<1>2. /\ cleanedAt' = (IF clean THEN moment ELSE cleanedAt) /\ window' = IdCounted(kept, moment)
      /\ windows' = (IF Expired(window, moment) THEN windows + 1 ELSE windows)
      /\ ticks' = ticks /\ backend' = backend
      /\ Decide(Turn(window'.count, windows'), moment, window'.expires - moment)
  BY <1>a DEF CheckMemory
<1>3. window.expires = Never => window.count = 0
  BY <1>0 DEF BackendOK, CheckMemory
<1>4. cleanedAt' \in -1..ticks
  <2>1. cleanedAt \in -1..ticks
    BY <1>0 DEF IdentityTypes
  <2>2. moment \in -1..ticks
    BY <1>1, <1>a
  <2>3. cleanedAt' = moment \/ cleanedAt' = cleanedAt
    BY <1>2
  <2> QED  BY <2>1, <2>2, <2>3
<1>5. kept = window \/ (kept = NoWindow /\ Expired(window, moment))
  OBVIOUS
<1> HIDE DEF clean, kept
<1> SUFFICES /\ Counts(moment) /\ window' \in [count : Nat, expires : Int]
             /\ window'.count <= window.count + 1
             /\ window'.expires - moment \in 1..IdWindow + Slip /\ window'.expires # Never
             /\ window'.expires <= ticks + IdWindow /\ windows' \in Nat
  BY <1>2, <1>4, <1>a
<1>6. CASE Expired(window, moment)
  <2>1. window' = [count |-> 1, expires |-> moment + IdWindow]
    BY <1>2, <1>5, <1>6 DEF IdCounted, NoWindow
  <2>2. /\ window' \in [count : Nat, expires : Int] /\ window'.count = 1
        /\ window'.expires = moment + IdWindow
    BY <1>1, <2>1
  <2>3. windows' = windows + 1
    BY <1>2, <1>6
  <2>4. window.expires # Never /\ window.expires <= moment
    BY <1>6 DEF Expired
  <2> QED  BY <1>1, <1>2, <1>a, <2>2, <2>3, <2>4 DEF Counts, Never
<1>7. CASE ~Expired(window, moment)
  <2>1. window' = IdCounted(window, moment) /\ windows' = windows
    BY <1>2, <1>5, <1>7
  <2>2. CASE window.expires = Never
    <3>1. window' = [count |-> 1, expires |-> moment + IdWindow]
      BY <2>1, <2>2 DEF IdCounted
    <3>2. /\ window' \in [count : Nat, expires : Int] /\ window'.count = window.count + 1
          /\ window'.expires = moment + IdWindow
      BY <1>1, <1>3, <2>2, <3>1
    <3> QED  BY <1>1, <1>2, <1>a, <2>1, <2>2, <3>2 DEF Counts, Never
  <2>3. CASE window.expires # Never
    <3>1. window' = [window EXCEPT !.count = @ + 1] /\ moment < window.expires
      BY <1>1, <1>a, <1>7, <2>1, <2>3 DEF IdCounted, Expired
    <3>2. /\ window' \in [count : Nat, expires : Int] /\ window'.count = window.count + 1
          /\ window'.expires = window.expires
      BY <1>1, <3>1
    <3> QED  BY <1>1, <1>2, <1>a, <2>1, <2>3, <3>1, <3>2 DEF Counts, Never
  <2> QED  BY <2>2, <2>3
<1> QED  BY <1>6, <1>7

\* A request under the memory backend is counted and decided at once.
LEMMA CheckMemoryOK ==
    ASSUME IdentityInv, NEW r \in DOMAIN pending, CheckMemory(r)
    PROVE  IdentityInv'
<1>0. /\ IdentityTypes /\ CountsBounded /\ BackendOK /\ PendingOK /\ TurnsOK /\ TurnsDiffer
      /\ AdmittedOK /\ HintIsTrue
  BY DEF IdentityInv
<1>1. /\ ticks \in Nat /\ IdWindow \in Nat /\ window.count \in Nat /\ seen \in Nat
      /\ Len(admitted) \in Nat /\ Len(hints) \in Nat /\ Late \in Nat /\ Wait \in Nat
      /\ Cardinality(DOMAIN pending) \in Nat /\ Cardinality(Waiting) \in Nat
  BY <1>0, IdentityNumbers, GivenTypes, PendingFinite
<1>2. /\ backend = "memory" /\ ticks' = ticks /\ backend' = backend /\ seen' = seen
      /\ persisted' = persisted
  BY DEF CheckMemory
<1>3. PICK moment \in Nat :
              /\ moment = pending[r].sent /\ moment <= ticks /\ ticks <= moment + Slip /\ ticks <= moment + Late
              /\ Counts(moment) /\ window' \in [count : Nat, expires : Int]
              /\ window'.count <= window.count + 1
              /\ window'.expires - moment \in 1..IdWindow + Slip /\ window'.expires # Never
              /\ window'.expires <= ticks + IdWindow
              /\ windows' \in Nat /\ cleanedAt' \in -1..ticks
              /\ Decide(Turn(window'.count, windows'), moment, window'.expires - moment)
  BY MemoryCounts
<1>4. window'.count \in Nat /\ window'.expires \in Int /\ windows' \in Nat
  BY <1>3
<1>a. Drops(r)
  BY <1>0, DropsOK DEF CheckMemory
<1>b. Slip' = Slip /\ Late' = Late /\ Wait' = Wait
  BY <1>2 DEF Slip, Late, Wait
<1>5. persisted = Never /\ Ran = {} /\ Ran' = {} /\ r \in Waiting
  BY <1>0, <1>2, <1>a DEF BackendOK, Waiting, Drops
<1>6. PICK new \in Turns : /\ new = Turn(window'.count, windows') /\ new.nth = window'.count
                           /\ new.window = windows' /\ new.t = ticks
  BY <1>1, <1>4, TurnFields
<1>7. Decided(new)
  <2>1. PICK left \in 1..IdWindow + Slip : left = window'.expires - moment
    BY <1>3
  <2>2. Decide(new, moment, left)
    BY <1>3, <1>6, <2>1
  <2>3. new.t <= ticks /\ ticks <= new.t + Wait
    BY <1>1, <1>6
  <2> QED  BY <1>0, <1>2, <1>3, <2>2, <2>3, DecideOK
<1>8. /\ TurnOK(new)'
      /\ \A x \in Given :
                 /\ TurnOK(x)' /\ x # new /\ ~(x.nth = new.nth /\ x.window = new.window)
                 /\ x.window + 2 <= new.window => x.t + IdWindow <= new.t + Slip
                 /\ ~(new.window + 2 <= x.window)
  <2>1. window'.count = new.nth /\ windows' = new.window /\ ticks = new.t
    BY <1>6
  <2> QED  BY <1>0, <1>3, <2>1, CountsOK
<1>9. Given' \subseteq Given \cup {new}
  <2>1. \A k \in DOMAIN admitted' : admitted'[k].turn \in Given \cup {new}
    BY <1>7 DEF Decided, Given
  <2> QED  BY <1>5, <2>1 DEF Given
<1>10. IdentityTypes'
  <2>1. window'.expires \in -1..ticks + IdWindow
    <3>1. window'.expires >= 1
      BY <1>3, <1>4, IdentityNumbers, <1>0
    <3> QED  BY <1>1, <1>3, <1>4, <3>1
  <2>2. DOMAIN pending' \subseteq 1..seen' /\ pending' \in [DOMAIN pending' -> Pendings]
    BY <1>0, <1>2, <1>a DEF IdentityTypes, Drops
  <2> QED  BY <1>0, <1>2, <1>3, <1>7, <2>1, <2>2 DEF IdentityTypes, Decided
<1>11. CountsBounded'
  <2>1. /\ window.count + Cardinality(Waiting) <= seen
        /\ Len(admitted) + Len(hints) + Cardinality(DOMAIN pending) <= seen
    BY <1>0 DEF CountsBounded
  <2>2. Len(admitted') + Len(hints') = Len(admitted) + Len(hints) + 1
    BY <1>7 DEF Decided
  <2>3. Waiting' = DOMAIN pending' /\ Waiting = DOMAIN pending
    BY <1>5 DEF Waiting
  <2>4. /\ Cardinality(DOMAIN pending') + 1 = Cardinality(DOMAIN pending)
        /\ Cardinality(DOMAIN pending') \in Nat
    BY <1>a DEF Drops
  <2>5. window'.count + Cardinality(Waiting') <= seen
    <3>1. window'.count <= window.count + 1
      BY <1>3
    <3> QED  BY <1>1, <1>4, <2>1, <2>3, <2>4, <3>1
  <2>6. Len(admitted') + Len(hints') + Cardinality(DOMAIN pending') <= seen
    BY <1>1, <2>1, <2>2, <2>4
  <2> QED  BY <1>2, <2>5, <2>6 DEF CountsBounded
<1>12. BackendOK' /\ PendingOK'
  <2>1. BackendOK'
    BY <1>2, <1>3, <1>5 DEF BackendOK
  <2>2. \A q \in DOMAIN pending' : q \in DOMAIN pending /\ pending'[q] = pending[q]
    BY <1>a DEF Drops
  <2>3. PendingOK'
    BY <1>0, <1>2, <1>b, <2>2 DEF PendingOK
  <2> QED  BY <2>1, <2>3
<1>13. /\ TurnsOK'
       /\ (\A x, y \in Given : x.nth = y.nth /\ x.window = y.window => x = y)'
       /\ (\A x, y \in Given : x.window + 2 <= y.window => x.t + IdWindow <= y.t + Slip)'
  <2>1. new.window \in Nat
    BY DEF Turns
  <2> QED  BY <1>0, <1>8, <1>9, <1>b, <2>1, TurnAdded
<1>14. TurnsDiffer'
  <2>1. \A k \in DOMAIN admitted' :
          \/ k \in DOMAIN admitted /\ admitted'[k].turn = admitted[k].turn
          \/ k = Len(admitted) + 1 /\ k \notin DOMAIN admitted /\ admitted'[k].turn = new
    BY <1>7 DEF Decided
  <2>2. \A k \in DOMAIN admitted : admitted[k].turn # new
    BY <1>8 DEF Given
  <2>3. \A i, j \in DOMAIN admitted' : admitted'[i].turn = admitted'[j].turn => i = j
    BY <1>0, <2>1, <2>2 DEF TurnsDiffer
  <2> QED  BY <1>5, <1>13, <2>3 DEF TurnsDiffer
<1>15. AdmittedOK' /\ HintIsTrue'
  BY <1>7 DEF Decided
<1> QED  BY <1>10, <1>11, <1>12, <1>13, <1>14, <1>15 DEF IdentityInv

\* Nothing has been counted.
LEMMA IdentityStarts ==
    ASSUME IdentityInit
    PROVE  IdentityInv
<1>1. /\ ticks = 0 /\ backend \in {"memory", "redis"} /\ window = NoWindow /\ cleanedAt = -1
      /\ DOMAIN pending = {} /\ pending = [r \in {} |-> 0] /\ seen = 0 /\ windows = 0
      /\ admitted = <<>> /\ hints = <<>> /\ persisted = -1
  BY DEF IdentityInit, Never
<1>2. /\ NoWindow \in [count : Nat, expires : Int] /\ NoWindow.count = 0 /\ NoWindow.expires = -1
  BY DEF NoWindow, Never
<1>3. Ran = {} /\ Given = {} /\ Waiting = {}
  <2>1. DOMAIN admitted = {}
    BY <1>1
  <2> QED  BY <1>1, <2>1 DEF Ran, Given, Waiting
<1>4. /\ IdWindow \in Nat /\ MaxTicks \in Nat /\ MaxSeen \in Nat
  BY IdWindowType, IdentityAssumption
<1>5. IdentityTypes
  <2>1. /\ ticks \in 0..MaxTicks /\ -1 \in -1..ticks + IdWindow /\ -1 \in -1..ticks
        /\ seen \in 0..MaxSeen /\ windows \in Nat
    BY <1>1, <1>4
  <2>2. pending \in [DOMAIN pending -> Pendings]
    BY <1>1
  <2>3. admitted \in Seq(Admissions) /\ hints \in Seq(Hints)
    BY <1>1
  <2> QED  BY <1>1, <1>2, <2>1, <2>2, <2>3 DEF IdentityTypes
<1>6. CountsBounded
  <2>1. Cardinality({}) = 0 /\ Len(<<>>) = 0
    BY FS_EmptySet
  <2> QED  BY <1>1, <1>2, <1>3, <2>1 DEF CountsBounded
<1>7. BackendOK /\ PendingOK /\ TurnsOK
  BY <1>1, <1>2, <1>3 DEF BackendOK, PendingOK, TurnsOK, Never
<1>8. TurnsDiffer /\ AdmittedOK /\ HintIsTrue
  BY <1>1, <1>3 DEF TurnsDiffer, AdmittedOK, HintIsTrue
<1> QED  BY <1>5, <1>6, <1>7, <1>8 DEF IdentityInv

\* A step of something else.
LEMMA IdentityStutters ==
    ASSUME IdentityInv, UNCHANGED identityVars
    PROVE  IdentityInv'
<1>1. /\ ticks' = ticks /\ backend' = backend /\ cleanedAt' = cleanedAt /\ seen' = seen
      /\ windows' = windows /\ window' = window /\ persisted' = persisted
      /\ admitted' = admitted /\ hints' = hints /\ pending' = pending
  BY DEF identityVars
<1>2. /\ Ran' = Ran /\ Given' = Given /\ Waiting' = Waiting
      /\ Slip' = Slip /\ Late' = Late /\ Wait' = Wait
  BY <1>1 DEF Ran, Given, Waiting, Slip, Late, Wait
<1>3. IdentityTypes' /\ CountsBounded' /\ BackendOK' /\ PendingOK'
  BY <1>1, <1>2 DEF IdentityInv, IdentityTypes, CountsBounded, BackendOK, PendingOK
<1>4. TurnsOK'
  BY <1>1, <1>2 DEF IdentityInv, TurnsOK, TurnOK
<1>5. TurnsDiffer' /\ AdmittedOK' /\ HintIsTrue'
  BY <1>1, <1>2 DEF IdentityInv, TurnsDiffer, AdmittedOK, HintIsTrue
<1> QED  BY <1>3, <1>4, <1>5 DEF IdentityInv

\* Each turn is given out once, and turns of windows that are not neighbours lie a window
\* apart, in every state that requests, scripts, lost answers and lost expiries reach
\* (check_memory_at, check_redis and its script).
THEOREM IdentityInvariant == IdentitySpec => []IdentityInv
<1>1. IdentityInit => IdentityInv
  BY IdentityStarts
<1>2. IdentityInv /\ [IdentityNext]_identityVars => IdentityInv'
  BY IdTickOK, PersistOK, IdArriveOK, CheckMemoryOK, RunScriptOK, AnswerScriptOK,
     UnavailableOK, IdentityStutters DEF IdentityNext
<1> QED  BY <1>1, <1>2, PTL DEF IdentitySpec

\* The counts, expiries and histories keep their types, with at most one decision for each
\* request that came.
THEOREM IdentityTypeCorrect == IdentitySpec => []IdentityTypeOK
<1>1. IdentityInv => IdentityTypeOK
  <2> SUFFICES ASSUME IdentityInv  PROVE IdentityTypeOK
    OBVIOUS
  <2>0. IdentityTypes /\ CountsBounded
    BY DEF IdentityInv
  <2>1. /\ ticks \in Nat /\ IdWindow \in Nat /\ window.count \in Nat /\ seen \in Nat
        /\ window.expires \in Int /\ MaxSeen \in Nat /\ MaxTicks \in Nat
        /\ Len(admitted) \in Nat /\ Len(hints) \in Nat
        /\ Cardinality(DOMAIN pending) \in Nat /\ Cardinality(Waiting) \in Nat
    BY <2>0, IdentityNumbers, GivenTypes, PendingFinite
  <2>2. ticks <= MaxTicks /\ seen <= MaxSeen
    BY <2>0, <2>1 DEF IdentityTypes
  <2>3. window.count \in 0..MaxSeen /\ Len(admitted) + Len(hints) <= seen
    BY <2>0, <2>1, <2>2 DEF CountsBounded
  <2>4. window.expires \in -1..MaxTicks + IdWindow
    BY <2>0, <2>1, <2>2 DEF IdentityTypes
  <2>5. cleanedAt \in -1..MaxTicks /\ persisted \in -1..MaxTicks
    BY <2>0, <2>1, <2>2 DEF IdentityTypes
  <2> QED  BY <2>0, <2>3, <2>4, <2>5 DEF IdentityTypes, IdentityTypeOK
<1> QED  BY <1>1, IdentityInvariant, PTL

\* No request moves the end of a window that lasts, whichever backend counts it: only a
\* key that lost its expiry gets a new one (the script's TTL branch).
THEOREM WindowKeepsItsEnd == IdentitySpec => WindowNotExtended
<1> DEFINE Kept == window.expires # Never /\ window'.expires > window.expires => window.expires <= ticks
<1>1. IdentityInv /\ [IdentityNext]_identityVars => [Kept]_window
  <2> SUFFICES ASSUME IdentityInv, [IdentityNext]_identityVars  PROVE [Kept]_window
    OBVIOUS
  <2>0. IdentityTypes
    BY DEF IdentityInv
  <2>1. ticks \in Nat /\ IdWindow \in Nat /\ window.expires \in Int
    BY <2>0, IdentityNumbers
  <2>2. CASE IdTick
    <3>1. window' = window \/ window' = NoWindow
      BY <2>2 DEF IdTick
    <3>2. window.expires >= -1
      BY <2>0 DEF IdentityTypes
    <3>3. NoWindow.expires = -1
      BY DEF NoWindow, Never
    <3> QED  BY <2>1, <3>1, <3>2, <3>3
  <2>3. CASE Persist
    <3>1. window'.expires = -1
      BY <2>0, <2>3 DEF Persist, IdentityTypes, Never
    <3>2. window.expires >= -1
      BY <2>0 DEF IdentityTypes
    <3> QED  BY <2>1, <3>1, <3>2
  <2>4. ASSUME NEW r \in DOMAIN pending, CheckMemory(r)  PROVE Kept
    <3>1. PICK moment \in Nat : moment <= ticks /\ Counts(moment)
      BY <2>4, MemoryCounts
    <3> QED  BY <2>1, <3>1 DEF Counts
  <2>5. ASSUME NEW r \in DOMAIN pending, RunScript(r)  PROVE Kept
    <3>1. window'.expires = IF window.expires = Never THEN ticks + IdWindow ELSE window.expires
      BY <2>5 DEF RunScript
    <3> QED  BY <2>1, <3>1
  <2>6. CASE IdArrive \/ UNCHANGED identityVars
    BY <2>6 DEF IdArrive, identityVars
  <2>7. ASSUME NEW r \in DOMAIN pending, AnswerScript(r) \/ Unavailable(r)  PROVE window' = window
    BY <2>7 DEF AnswerScript, Unavailable
  <2> QED  BY <2>2, <2>3, <2>4, <2>5, <2>6, <2>7 DEF IdentityNext
<1> QED  BY <1>1, IdentityInvariant, PTL DEF IdentitySpec, WindowNotExtended

\* Admissions less than a window apart were counted in two neighbouring windows.
LEMMA TwoWindows ==
    ASSUME IdentityInv, NEW k \in DOMAIN admitted, NEW m \in DOMAIN admitted, k <= m,
           admitted[m].at - admitted[k].at < IdWindow - Late
    PROVE  \E v \in Int : \A i \in k..m : /\ i \in DOMAIN admitted
                                          /\ admitted[i].turn.window \in {v, v + 1}
<1> DEFINE W(i) == admitted[i].turn.window
<1>0. IdentityTypes /\ TurnsDiffer /\ AdmittedOK
  BY DEF IdentityInv
<1>1. IdWindow \in Nat /\ Late \in Nat /\ Slip \in Nat /\ Wait \in Nat /\ Late = Slip + Wait
  BY <1>0, IdentityNumbers
<1>2. \A i \in k..m : i \in DOMAIN admitted
  BY <1>0, GivenTypes
<1>3. \A i \in DOMAIN admitted : /\ admitted[i].at \in Nat /\ admitted[i].turn.t \in Nat
                                 /\ W(i) \in Nat /\ admitted[i].turn \in Given
  <2>1. \A i \in DOMAIN admitted : admitted[i] \in Admissions /\ admitted[i].turn \in Given
    BY <1>0, GivenTypes DEF Given
  <2>2. \A x \in Given : x.window \in Nat /\ x.t \in Nat
    BY <1>0, GivenTypes
  <2> QED  BY <2>1, <2>2 DEF Admissions
<1>4. ASSUME NEW i \in k..m, NEW j \in k..m
      PROVE  ~(W(i) + 2 <= W(j))
  <2>1. i \in DOMAIN admitted /\ j \in DOMAIN admitted /\ k <= i /\ j <= m
    <3>1. k \in Int /\ m \in Int
      BY <1>0, GivenTypes
    <3> QED  BY <1>2, <3>1
  <2>2. admitted[k].at <= admitted[i].at /\ admitted[j].at <= admitted[m].at
    BY <1>0, <2>1 DEF AdmittedOK
  <2>3. /\ admitted[i].at <= admitted[i].turn.t + Wait
        /\ admitted[j].turn.t <= admitted[j].at
    BY <1>0, <2>1 DEF AdmittedOK
  <2>4. ~(admitted[i].turn.t + IdWindow <= admitted[j].turn.t + Slip)
    BY <1>1, <1>3, <2>1, <2>2, <2>3
  <2> QED  BY <1>0, <1>3, <2>1, <2>4 DEF TurnsDiffer
<1>5. k \in k..m
  BY <1>0, GivenTypes
<1>6. \A i \in k..m : W(i) \in Nat
  BY <1>2, <1>3
<1> HIDE DEF W
<1>7. CASE \E j \in k..m : W(j) < W(k)
  <2>1. PICK j \in k..m : W(j) < W(k)
    BY <1>7
  <2>2. \A i \in k..m : W(i) \in {W(j), W(j) + 1}
    BY <1>4, <1>5, <1>6, <2>1
  <2>3. W(j) \in Int
    BY <1>6
  <2> QED  BY <1>2, <2>2, <2>3 DEF W
<1>8. CASE \A j \in k..m : ~(W(j) < W(k))
  <2>1. \A i \in k..m : W(i) \in {W(k), W(k) + 1}
    BY <1>4, <1>5, <1>6, <1>8
  <2>2. W(k) \in Int
    BY <1>5, <1>6
  <2> QED  BY <1>2, <2>1, <2>2 DEF W
<1> QED  BY <1>7, <1>8

\* Of any run of twice the limit plus one admissions the last comes a window after the
\* first, less the time of an answer, and each refusal names its window's end truly, for
\* every limit, window length and number of requests.  By the pigeonhole principle: the run
\* has more admissions than the turns within the limit of two windows.
THEOREM IdentityLimitAlwaysHolds == IdentitySpec => []IdentityLimitHolds
<1>1. IdentityInv => IdentityCap
  <2> SUFFICES ASSUME IdentityInv, NEW k \in DOMAIN admitted, NEW m \in DOMAIN admitted,
                      m = k + 2 * IdLimit,
                      admitted[m].at - admitted[k].at < IdWindow - Late
               PROVE  FALSE
    <3>0. IdentityInv => IdentityTypes
      BY DEF IdentityInv
    <3>1. IdentityInv => \A i \in DOMAIN admitted : admitted[i].at \in Nat
      BY <3>0, GivenTypes DEF Admissions
    <3>2. IdentityInv => IdWindow \in Nat /\ Late \in Nat
      BY <3>0, IdentityNumbers
    <3> QED  BY <3>1, <3>2 DEF IdentityCap
  <2>0. IdentityTypes /\ TurnsDiffer /\ AdmittedOK /\ TurnsOK
    BY DEF IdentityInv
  <2>1. IdLimit \in Nat /\ IdLimit >= 1 /\ k \in Nat /\ m \in Nat /\ k <= m
    <3>1. IdLimit \in Nat /\ IdLimit >= 1
      BY IdentityAssumption
    <3>2. k \in Nat /\ m \in Nat
      BY <2>0, GivenTypes
    <3> QED  BY <3>1, <3>2
  <2>2. PICK v \in Int : \A i \in k..m : /\ i \in DOMAIN admitted
                                         /\ admitted[i].turn.window \in {v, v + 1}
    BY <2>1, TwoWindows
  <2>3. \A i \in k..m : /\ admitted[i].turn.nth \in 1..IdLimit /\ admitted[i].turn \in Given
    <3> SUFFICES ASSUME NEW i \in k..m
                 PROVE  admitted[i].turn.nth \in 1..IdLimit /\ admitted[i].turn \in Given
      OBVIOUS
    <3>1. i \in DOMAIN admitted /\ admitted[i].turn \in Given
      BY <2>2 DEF Given
    <3>2. admitted[i].turn.nth \in Nat /\ 1 <= admitted[i].turn.nth
      BY <2>0, <3>1, GivenTypes DEF TurnsOK, TurnOK
    <3>3. admitted[i].turn.nth <= IdLimit
      BY <2>0, <3>1 DEF AdmittedOK
    <3> QED  BY <2>1, <3>1, <3>2, <3>3
  <2> DEFINE seat(i) == IF admitted[i].turn.window = v THEN admitted[i].turn.nth
                        ELSE admitted[i].turn.nth + IdLimit
             f == [i \in k..m |-> seat(i)]
  <2>4. \A i \in k..m : seat(i) \in 1..2 * IdLimit
    BY <2>1, <2>3
  <2>5. \A i, j \in k..m : seat(i) = seat(j) => i = j
    <3> SUFFICES ASSUME NEW i \in k..m, NEW j \in k..m, seat(i) = seat(j)  PROVE i = j
      OBVIOUS
    <3>1. /\ admitted[i].turn.nth = admitted[j].turn.nth
          /\ admitted[i].turn.window = admitted[j].turn.window
      BY <2>1, <2>2, <2>3
    <3>2. admitted[i].turn = admitted[j].turn
      BY <2>0, <2>3, <3>1 DEF TurnsDiffer
    <3> QED  BY <2>0, <2>2, <3>2 DEF TurnsDiffer
  <2> HIDE DEF seat
  <2>6. f \in [k..m -> 1..2 * IdLimit]
    BY <2>4
  <2>7. IsFiniteSet(k..m) /\ Cardinality(k..m) = 2 * IdLimit + 1
    <3>1. k \in Int /\ m \in Int /\ ~(k > m) /\ m - k + 1 = 2 * IdLimit + 1
      BY <2>1
    <3> QED  BY <3>1, FS_Interval
  <2>8. IsFiniteSet(1..2 * IdLimit) /\ Cardinality(1..2 * IdLimit) = 2 * IdLimit
    <3>1. /\ 1 \in Int /\ 2 * IdLimit \in Int /\ ~(1 > 2 * IdLimit)
          /\ 2 * IdLimit - 1 + 1 = 2 * IdLimit
      BY <2>1
    <3> QED  BY <3>1, FS_Interval
  <2>9. Cardinality(1..2 * IdLimit) < Cardinality(k..m)
    BY <2>1, <2>7, <2>8
  <2>10. \A i \in k..m : f[i] = seat(i)
    OBVIOUS
  <2> HIDE DEF f
  <2>11. \E i, j \in k..m : i # j /\ f[i] = f[j]
    BY <2>6, <2>7, <2>8, <2>9, FS_PigeonHole
  <2> QED  BY <2>5, <2>10, <2>11
<1>2. IdentityInv => HintIsTrue
  BY DEF IdentityInv
<1> QED  BY <1>1, <1>2, IdentityInvariant, PTL DEF IdentityLimitHolds

-----------------------------------------------------------------------------
(* The limit of a client address                                           *)
Entries == [request : Nat, client : Clients, by : Backends, at : Nat, life : Nat]
Queues == UNION {[C -> SUBSET Entries] : C \in SUBSET Clients}
Checks == [process : Processes, client : Clients, ran : BOOLEAN]

\* The types the induction uses.
IpTypes ==
    /\ now \in 0..MaxTime /\ useRedis \in [Processes -> BOOLEAN]
    /\ zset \in [Clients -> SUBSET Entries] /\ deques \in [Processes -> Queues]
    /\ arrivals \in 0..MaxArrivals /\ DOMAIN checks \subseteq 1..arrivals
    /\ checks \in [DOMAIN checks -> Checks]
    /\ lives \in [Processes -> [Clients -> Nat]]
    /\ passed \in SUBSET Entries /\ refused \in SUBSET Entries /\ IsFiniteSet(passed)
    /\ \A e \in passed : e.at <= now

\* The sorted set of a client holds what Redis granted it in the last second, and nothing
\* that Redis did not grant it.
ZsetTrue ==
    /\ \A c \in Clients : /\ zset[c] \subseteq passed /\ Cardinality(zset[c]) <= IpLimit
                          /\ \A e \in zset[c] : e.by = "redis" /\ e.client = c
    /\ \A e \in passed : e.by = "redis" => e.life = 0
    /\ \A e \in passed : e.by = "redis" /\ e.at > now - IpWindow => e \in zset[e.client]

\* The queues d of process p hold what it granted each client in the last second of the
\* life of the queue; to a client that it does not track it granted nothing in this life.
QueuesTrue(p, d, life) ==
    /\ DOMAIN d \subseteq Clients
    /\ IsFiniteSet(DOMAIN d) /\ Cardinality(DOMAIN d) <= MaxTracked
    /\ \A c \in DOMAIN d :
          /\ d[c] \subseteq passed /\ Cardinality(d[c]) <= IpLimit
          /\ \A e \in d[c] : e.by = p /\ e.client = c /\ e.life = life[c]
    /\ \A e \in passed : e.by = p => /\ e.life <= life[e.client]
                                     /\ e.life = life[e.client] =>
                                          /\ e.client \in DOMAIN d
                                          /\ Recent(e) => e \in d[e.client]
DequesTrue == \A p \in Processes : QueuesTrue(p, deques[p], lives[p])

IpInv == IpTypes /\ ZsetTrue /\ DequesTrue /\ IpLimitHolds

\* The types of what occurs in the arithmetic.
LEMMA IpNumbers ==
    ASSUME IpTypes
    PROVE  /\ now \in Nat /\ IpWindow \in Nat /\ IpWindow >= 1 /\ IpLimit \in Nat /\ IpLimit >= 1
           /\ arrivals \in Nat /\ MaxTime \in Nat /\ MaxArrivals \in Nat /\ MaxTracked \in Nat
           /\ MaxTracked >= 1
BY IpAssumption DEF IpTypes

\* What was granted in a second is a finite part of what was granted.
LEMMA WindowFinite ==
    ASSUME IpTypes, NEW e
    PROVE  IsFiniteSet(Window(e)) /\ Cardinality(Window(e)) \in Nat /\ Window(e) \subseteq passed
<1>1. Window(e) \subseteq passed
  BY DEF Window
<1>2. IsFiniteSet(Window(e))
  BY <1>1, FS_Subset DEF IpTypes
<1> QED  BY <1>1, <1>2, FS_CardinalityType

\* A request that is granted is counted in its own second and in that of the requests
\* which came with it, where it is one of at most the limit.
LEMMA VerdictOK ==
    ASSUME IpTypes, IpLimitHolds, NEW e \in Entries, now = e.at, NEW ok \in BOOLEAN,
           ok <=> Cardinality(Window(e)) < IpLimit, Verdict(e, ok)
    PROVE  IpLimitHolds' /\ IsFiniteSet(passed') /\ passed' \in SUBSET Entries /\ refused' \in SUBSET Entries
           /\ passed \subseteq passed'
<1>0. now \in Nat /\ IpWindow \in Nat /\ IpLimit \in Nat
  BY IpNumbers
<1>a. /\ passed \in SUBSET Entries /\ refused \in SUBSET Entries /\ IsFiniteSet(passed)
      /\ \A g \in passed : g.at <= now
  BY DEF IpTypes
<1>1. passed' = (IF ok THEN passed \cup {e} ELSE passed)
      /\ refused' = (IF ok THEN refused ELSE refused \cup {e})
  BY DEF Verdict
<1>2. /\ passed' \in SUBSET Entries /\ refused' \in SUBSET Entries /\ passed \subseteq passed'
      /\ passed' \subseteq passed \cup {e}
  BY <1>a, <1>1
<1>3. IsFiniteSet(passed \cup {e})
  BY <1>a, FS_AddElement
<1>4. IsFiniteSet(passed')
  BY <1>2, <1>3, FS_Subset
<1>5. \A g \in passed' : g.at \in Nat /\ g.at <= now
  <2>1. e.at \in Nat
    BY DEF Entries
  <2>2. \A g \in passed : g.at \in Nat /\ g.at <= now
    BY <1>a DEF Entries
  <2> QED  BY <1>0, <1>2, <2>1, <2>2
<1>6. ASSUME NEW g \in Entries
      PROVE  Window(g) \subseteq Window(g)' /\ Window(g)' \subseteq Window(g) \cup {e}
             /\ IsFiniteSet(Window(g)') /\ Cardinality(Window(g)') \in Nat
  <2>1. Window(g) \subseteq Window(g)'
    BY <1>2 DEF Window
  <2>2. Window(g)' \subseteq Window(g) \cup {e}
    BY <1>2 DEF Window
  <2>3. Window(g)' \subseteq passed'
    BY DEF Window
  <2> QED  BY <1>4, <2>1, <2>2, <2>3, FS_Subset, FS_CardinalityType
<1>7. ASSUME NEW g \in passed'  PROVE Cardinality(Window(g)') <= IpLimit
  <2>0. g \in Entries
    BY <1>2
  <2>1. CASE ~ok
    <3>1. passed' = passed /\ g \in passed
      BY <1>1, <2>1
    <3>2. Window(g)' = Window(g)
      BY <3>1 DEF Window
    <3> QED  BY <3>1, <3>2 DEF IpLimitHolds, IpWindowCap
  <2>2. CASE ok /\ e \in Window(g)'
    <3>1. /\ e.client = g.client /\ e.by = g.by /\ e.life = g.life /\ e.at <= g.at
      BY <2>2 DEF Window
    <3>2. g.at = e.at
      <4>1. g.at \in Nat /\ g.at <= now
        BY <1>5
      <4> QED  BY <1>0, <3>1, <4>1
    <3>3. Window(g) = Window(e)
      BY <3>1, <3>2 DEF Window
    <3>4. Cardinality(Window(e)) < IpLimit /\ Cardinality(Window(e)) \in Nat /\ IsFiniteSet(Window(e))
      BY <2>2, WindowFinite
    <3>5. /\ IsFiniteSet(Window(e) \cup {e})
          /\ Cardinality(Window(e) \cup {e}) <= Cardinality(Window(e)) + 1
      <4>1. CASE e \in Window(e)
        <5>1. Window(e) \cup {e} = Window(e)
          BY <4>1
        <5>2. Cardinality(Window(e)) <= Cardinality(Window(e)) + 1
          BY <3>4
        <5> QED  BY <3>4, <5>1, <5>2
      <4>2. CASE e \notin Window(e)
        <5>1. /\ IsFiniteSet(Window(e) \cup {e})
              /\ Cardinality(Window(e) \cup {e}) = Cardinality(Window(e)) + 1
          BY <3>4, <4>2, FS_AddElement
        <5>2. Cardinality(Window(e)) + 1 <= Cardinality(Window(e)) + 1
          BY <3>4
        <5> QED  BY <5>1, <5>2
      <4> QED  BY <4>1, <4>2
    <3>6. Cardinality(Window(e) \cup {e}) \in Nat
      BY <3>5, FS_CardinalityType
    <3>7. Cardinality(Window(g)') <= Cardinality(Window(e) \cup {e})
      <4>1. Window(g)' \subseteq Window(e) \cup {e}
        BY <1>6, <2>0, <3>3
      <4> QED  BY <3>5, <4>1, FS_Subset
    <3>8. Cardinality(Window(g)') \in Nat
      BY <1>6, <2>0
    <3> QED  BY <1>0, <3>4, <3>5, <3>6, <3>7, <3>8
  <2>3. CASE ok /\ e \notin Window(g)'
    <3>1. Window(g)' = Window(g)
      BY <1>6, <2>0, <2>3
    <3>2. g \in passed \/ g = e
      BY <1>2
    <3>3. CASE g \in passed
      BY <3>1, <3>3 DEF IpLimitHolds, IpWindowCap
    <3>4. CASE g = e
      <4>1. Cardinality(Window(e)) < IpLimit /\ Cardinality(Window(e)) \in Nat
        BY <2>3, WindowFinite
      <4> QED  BY <1>0, <3>1, <3>4, <4>1
    <3> QED  BY <3>2, <3>3, <3>4
  <2> QED  BY <2>1, <2>2, <2>3
<1>8. ASSUME NEW g \in refused'  PROVE Cardinality(Window(g)') >= IpLimit
  <2>0. g \in Entries
    BY <1>2
  <2>1. Cardinality(Window(g)) >= IpLimit
    <3>1. CASE g \in refused
      BY <3>1 DEF IpLimitHolds, IpRefusedOnlyWhenFull
    <3>2. CASE ~ok /\ g = e
      <4>1. Cardinality(Window(e)) \in Nat
        BY WindowFinite
      <4> QED  BY <1>0, <3>2, <4>1
    <3> QED  BY <1>1, <3>1, <3>2
  <2>2. /\ IsFiniteSet(Window(g)') /\ Window(g) \subseteq Window(g)'
        /\ Cardinality(Window(g)') \in Nat /\ Cardinality(Window(g)) \in Nat
    BY <1>6, <2>0, WindowFinite
  <2>3. Cardinality(Window(g)) <= Cardinality(Window(g)')
    BY <2>2, FS_Subset
  <2> QED  BY <1>0, <2>1, <2>2, <2>3
<1>9. IpLimitHolds'
  BY <1>7, <1>8 DEF IpLimitHolds, IpWindowCap, IpRefusedOnlyWhenFull
<1> QED  BY <1>2, <1>4, <1>9

\* What the script counts is what Redis granted in the second.
LEMMA LiveIsWindow ==
    ASSUME IpTypes, ZsetTrue, NEW c \in Clients, NEW e \in Entries, e.client = c,
           e.by = "redis", e.life = 0, now = e.at
    PROVE  Live(c) = Window(e)
<1>0. now \in Nat /\ IpWindow \in Nat
  BY IpNumbers
<1>1. \A g \in passed : g.at \in Nat /\ g.at <= now
  BY DEF IpTypes, Entries
<1>2. ASSUME NEW g \in Live(c)  PROVE g \in Window(e)
  <2>1. /\ g \in passed /\ g.by = "redis" /\ g.client = c /\ g.life = 0
        /\ g.at > now - IpWindow
    BY DEF Live, ZsetTrue
  <2>2. g.at \in Nat /\ g.at <= now
    BY <1>1, <2>1
  <2>3. g.at <= e.at /\ e.at - g.at <= IpWindow - 1
    BY <1>0, <2>1, <2>2
  <2> QED  BY <2>1, <2>3 DEF Window
<1>3. ASSUME NEW g \in Window(e)  PROVE g \in Live(c)
  <2>1. g \in passed /\ g.by = "redis" /\ g.client = c /\ e.at - g.at <= IpWindow - 1
    BY DEF Window
  <2>2. g.at \in Nat /\ g.at > now - IpWindow
    BY <1>0, <1>1, <2>1
  <2>3. g \in zset[c]
    BY <2>1, <2>2 DEF ZsetTrue
  <2> QED  BY <2>2, <2>3 DEF Live
<1> QED  BY <1>2, <1>3

\* What a process counts is what it granted in the second, in this life of the queue.
LEMMA FreshIsWindow ==
    ASSUME IpTypes, NEW p \in Processes, NEW d, NEW life, QueuesTrue(p, d, life),
           NEW c \in DOMAIN d, NEW e \in Entries, e.client = c, e.by = p, e.life = life[c],
           now = e.at
    PROVE  {g \in d[c] : Recent(g)} = Window(e)
<1>0. now \in Nat /\ IpWindow \in Nat /\ p # "redis"
  BY IpNumbers, IpAssumption
<1>1. \A g \in passed : g.at \in Nat /\ g.at <= now
  BY DEF IpTypes, Entries
<1>2. ASSUME NEW g \in d[c], Recent(g)  PROVE g \in Window(e)
  <2>1. g \in passed /\ g.by = p /\ g.client = c /\ g.life = life[c]
    BY DEF QueuesTrue
  <2>2. g.at <= e.at /\ e.at - g.at <= IpWindow
    BY <1>1, <1>2, <2>1 DEF Recent
  <2> QED  BY <1>0, <2>1, <2>2 DEF Window
<1>3. ASSUME NEW g \in Window(e)  PROVE g \in d[c] /\ Recent(g)
  <2>1. g \in passed /\ g.by = p /\ g.client = c /\ g.life = life[c] /\ e.at - g.at <= IpWindow
    BY <1>0 DEF Window
  <2>2. Recent(g)
    BY <2>1 DEF Recent
  <2> QED  BY <2>1, <2>2 DEF QueuesTrue
<1> QED  BY <1>2, <1>3

\* A set of at most the limit, what is counted of it, and one more if there is room.
LEMMA CountedInLimit ==
    ASSUME NEW S, IsFiniteSet(S), NEW e, NEW ok \in BOOLEAN, ok <=> Cardinality(S) < IpLimit,
           Cardinality(S) <= IpLimit, NEW T, T = IF ok THEN S \cup {e} ELSE S
    PROVE  Cardinality(T) <= IpLimit
<1>0. IpLimit \in Nat /\ Cardinality(S) \in Nat
  BY IpAssumption, FS_CardinalityType
<1>1. CASE ok /\ e \notin S
  <2>1. T = S \cup {e}
    BY <1>1
  <2>2. Cardinality(S \cup {e}) = Cardinality(S) + 1
    BY <1>1, FS_AddElement
  <2>3. Cardinality(S) + 1 <= IpLimit
    BY <1>0, <1>1
  <2> QED  BY <2>1, <2>2, <2>3
<1>2. CASE ~(ok /\ e \notin S)
  <2>1. T = S
    BY <1>2
  <2> QED  BY <2>1
<1> QED  BY <1>1, <1>2

\* The script runs.
LEMMA IpScriptOK ==
    ASSUME IpInv, NEW r \in DOMAIN checks, IpScript(r)
    PROVE  IpInv'
<1>0. IpTypes /\ ZsetTrue /\ DequesTrue /\ IpLimitHolds
  BY DEF IpInv
<1>1. now \in Nat /\ IpWindow \in Nat /\ arrivals \in Nat
  BY <1>0, IpNumbers
<1>2. checks[r] \in Checks /\ r \in Nat
  BY <1>0, <1>1 DEF IpTypes
<1>3. PICK c \in Clients : c = checks[r].client
  BY <1>2 DEF Checks
<1>4. PICK e \in Entries : e = Entry(r, c, "redis", 0)
  BY <1>1, <1>2 DEF Entry, Entries, Backends
<1>5. e.client = c /\ e.by = "redis" /\ e.life = 0 /\ now = e.at
  BY <1>4 DEF Entry
<1>6. PICK ok \in BOOLEAN : ok <=> Granted(c)
  OBVIOUS
<1>7. Live(c) = Window(e)
  BY <1>0, <1>5, LiveIsWindow
<1>8. ok <=> Cardinality(Window(e)) < IpLimit
  BY <1>6, <1>7 DEF Granted
<1>9. /\ now' = now /\ useRedis' = useRedis /\ deques' = deques /\ arrivals' = arrivals
      /\ lives' = lives /\ checks' = [checks EXCEPT ![r].ran = TRUE]
      /\ zset' = Scripted(r, c) /\ Verdict(e, ok)
  BY <1>3, <1>4, <1>6 DEF IpScript, Verdict
<1>10. /\ IpLimitHolds' /\ IsFiniteSet(passed') /\ passed' \in SUBSET Entries
       /\ refused' \in SUBSET Entries /\ passed \subseteq passed'
  BY <1>0, <1>5, <1>8, <1>9, VerdictOK
<1>11. passed' = IF ok THEN passed \cup {e} ELSE passed
  BY <1>9 DEF Verdict
<1>12. PICK T : T = IF ok THEN Live(c) \cup {e} ELSE Live(c)
  OBVIOUS
<1>13. zset' = [zset EXCEPT ![c] = T]
  BY <1>4, <1>6, <1>9, <1>12 DEF Scripted
<1>14. Live(c) \subseteq zset[c] /\ zset[c] \subseteq passed
  BY <1>0 DEF Live, ZsetTrue
<1>15. T \subseteq passed'
  BY <1>11, <1>12, <1>14
<1>16. zset' \in [Clients -> SUBSET Entries] /\ zset'[c] = T /\ \A x \in Clients : x # c => zset'[x] = zset[x]
  BY <1>0, <1>10, <1>13, <1>15 DEF IpTypes
<1>17. \A g \in passed' : g.at <= now
  BY <1>0, <1>1, <1>5, <1>11 DEF IpTypes
<1>18. IpTypes'
  <2>1. DOMAIN checks' = DOMAIN checks /\ checks' \in [DOMAIN checks' -> Checks]
    <3>1. [checks[r] EXCEPT !.ran = TRUE] \in Checks
      BY <1>2 DEF Checks
    <3>2. checks' = [checks EXCEPT ![r] = [checks[r] EXCEPT !.ran = TRUE]]
      BY <1>9
    <3> HIDE DEF Checks
    <3> QED  BY <1>0, <3>1, <3>2 DEF IpTypes
  <2> QED  BY <1>0, <1>9, <1>10, <1>16, <1>17, <2>1 DEF IpTypes
<1>19. ZsetTrue'
  <2>1. Cardinality(T) <= IpLimit
    <3>1. IsFiniteSet(Live(c)) /\ IsFiniteSet(zset[c]) /\ Cardinality(Live(c)) <= Cardinality(zset[c])
      BY <1>0, <1>14, FS_Subset DEF IpTypes
    <3>2. Cardinality(Live(c)) \in Nat /\ Cardinality(zset[c]) \in Nat /\ IpLimit \in Nat
      BY <1>0, <3>1, FS_CardinalityType, IpNumbers
    <3>3. Cardinality(Live(c)) <= IpLimit
      <4>1. Cardinality(zset[c]) <= IpLimit
        BY <1>0 DEF ZsetTrue
      <4> QED  BY <3>1, <3>2, <4>1
    <3>4. ok <=> Cardinality(Live(c)) < IpLimit
      BY <1>7, <1>8
    <3> QED  BY <1>12, <3>1, <3>3, <3>4, CountedInLimit
  <2>2. \A g \in T : g.by = "redis" /\ g.client = c
    BY <1>0, <1>5, <1>12, <1>14 DEF ZsetTrue
  <2>3. \A x \in Clients : /\ zset'[x] \subseteq passed' /\ Cardinality(zset'[x]) <= IpLimit
                           /\ \A g \in zset'[x] : g.by = "redis" /\ g.client = x
    <3> SUFFICES ASSUME NEW x \in Clients
                 PROVE  /\ zset'[x] \subseteq passed' /\ Cardinality(zset'[x]) <= IpLimit
                        /\ \A g \in zset'[x] : g.by = "redis" /\ g.client = x
      OBVIOUS
    <3>1. CASE x = c
      BY <1>15, <1>16, <2>1, <2>2, <3>1
    <3>2. CASE x # c
      <4>1. zset'[x] = zset[x]
        BY <1>16, <3>2
      <4> QED  BY <1>0, <1>10, <4>1 DEF ZsetTrue
    <3> QED  BY <3>1, <3>2
  <2>4. \A g \in passed' : g.by = "redis" => g.life = 0
    BY <1>0, <1>5, <1>11 DEF ZsetTrue
  <2>5. ASSUME NEW g \in passed', g.by = "redis", g.at > now - IpWindow
        PROVE  g \in zset'[g.client]
    <3>1. CASE g \in passed
      <4>1. g \in zset[g.client] /\ g.client \in Clients
        BY <1>0, <2>5, <3>1 DEF ZsetTrue, IpTypes, Entries
      <4>2. CASE g.client = c
        <5>1. g \in Live(c)
          BY <2>5, <4>1, <4>2 DEF Live
        <5> QED  BY <1>12, <1>16, <4>2, <5>1
      <4>3. CASE g.client # c
        BY <1>16, <4>1, <4>3
      <4> QED  BY <4>2, <4>3
    <3>2. CASE ok /\ g = e
      BY <1>5, <1>12, <1>16, <3>2
    <3> QED  BY <1>11, <3>1, <3>2
  <2> QED  BY <1>9, <2>3, <2>4, <2>5 DEF ZsetTrue
<1>20. DequesTrue'
  <2> SUFFICES ASSUME NEW p \in Processes  PROVE QueuesTrue(p, deques[p], lives[p])'
    BY DEF DequesTrue
  <2>1. QueuesTrue(p, deques[p], lives[p])
    BY <1>0 DEF DequesTrue
  <2>2. \A g \in passed' : g.by = p => g \in passed
    BY <1>5, <1>11, IpAssumption
  <2> QED  BY <1>9, <1>10, <2>1, <2>2 DEF QueuesTrue, Recent
<1> QED  BY <1>10, <1>18, <1>19, <1>20 DEF IpInv

\* What a check in the memory of process p leaves true.
MemoryKeeps ==
    /\ deques' \in [Processes -> Queues] /\ DequesTrue' /\ IpLimitHolds'
    /\ passed' \in SUBSET Entries /\ refused' \in SUBSET Entries /\ IsFiniteSet(passed')
    /\ \A g \in passed' : g.at <= now
    /\ passed \subseteq passed' /\ \A g \in passed' \ passed : g.by # "redis"

\* The request is counted in the queue d[c], and granted if there is room in it.
LEMMA MemoryCheckOK ==
    ASSUME IpInv, NEW p \in Processes, NEW r \in Nat, NEW d \in Queues, NEW life \in [Clients -> Nat],
           QueuesTrue(p, d, life), NEW c \in DOMAIN d, MemoryCheck(r, p, c, d), now' = now,
           lives'[p] = life, \A q \in Processes \ {p} : lives'[q] = lives[q]
    PROVE  MemoryKeeps
<1>0. IpTypes /\ DequesTrue /\ IpLimitHolds
  BY DEF IpInv
<1>1. now \in Nat /\ IpWindow \in Nat /\ p # "redis" /\ c \in Clients /\ life[c] \in Nat
  BY <1>0, IpNumbers, IpAssumption DEF QueuesTrue
<1>2. PICK e \in Entries : e = Entry(r, c, p, life[c])
  BY <1>1 DEF Entry, Entries, Backends
<1>3. e.client = c /\ e.by = p /\ e.life = life[c] /\ now = e.at
  BY <1>2 DEF Entry
<1>4. PICK fresh : fresh = {g \in d[c] : Recent(g)}
  OBVIOUS
<1>5. PICK ok \in BOOLEAN : ok <=> Cardinality(fresh) < IpLimit
  OBVIOUS
<1>6. PICK T : T = IF ok THEN fresh \cup {e} ELSE fresh
  OBVIOUS
<1>7. deques' = [deques EXCEPT ![p] = [d EXCEPT ![c] = T]] /\ Verdict(e, ok)
  BY <1>2, <1>4, <1>5, <1>6 DEF MemoryCheck, Verdict
<1>8. fresh = Window(e)
  BY <1>0, <1>3, <1>4, FreshIsWindow
<1>9. /\ IpLimitHolds' /\ IsFiniteSet(passed') /\ passed' \in SUBSET Entries
      /\ refused' \in SUBSET Entries /\ passed \subseteq passed'
  BY <1>0, <1>3, <1>5, <1>7, <1>8, VerdictOK
<1>10. passed' = IF ok THEN passed \cup {e} ELSE passed
  BY <1>7 DEF Verdict
<1>11. \A g \in passed' : g.at <= now
  BY <1>0, <1>1, <1>3, <1>10 DEF IpTypes
<1>12. fresh \subseteq d[c] /\ d[c] \subseteq passed /\ T \subseteq passed'
  BY <1>4, <1>6, <1>10 DEF QueuesTrue
<1>13. PICK nd : nd = [d EXCEPT ![c] = T]
  OBVIOUS
<1>14. /\ nd \in Queues /\ DOMAIN nd = DOMAIN d /\ nd[c] = T
       /\ \A x \in DOMAIN d : x # c => nd[x] = d[x]
  <2>1. PICK C \in SUBSET Clients : d \in [C -> SUBSET Entries]
    BY DEF Queues
  <2>2. T \in SUBSET Entries
    BY <1>9, <1>12
  <2>3. nd \in [C -> SUBSET Entries]
    BY <1>13, <2>1, <2>2
  <2> QED  BY <1>13, <2>1, <2>3 DEF Queues
<1>15. /\ deques' \in [Processes -> Queues] /\ deques'[p] = nd
       /\ \A q \in Processes : q # p => deques'[q] = deques[q]
  BY <1>0, <1>7, <1>13, <1>14 DEF IpTypes
<1>16. Cardinality(T) <= IpLimit
  <2>1. IsFiniteSet(d[c]) /\ IsFiniteSet(fresh) /\ Cardinality(fresh) <= Cardinality(d[c])
    BY <1>0, <1>12, FS_Subset DEF IpTypes
  <2>2. Cardinality(fresh) \in Nat /\ Cardinality(d[c]) \in Nat /\ IpLimit \in Nat
    BY <1>0, <2>1, FS_CardinalityType, IpNumbers
  <2>3. Cardinality(d[c]) <= IpLimit
    BY DEF QueuesTrue
  <2>4. Cardinality(fresh) <= IpLimit
    BY <2>1, <2>2, <2>3
  <2> QED  BY <1>5, <1>6, <2>1, <2>4, CountedInLimit
<1>17. \A g \in T : g.by = p /\ g.client = c /\ g.life = life[c]
  BY <1>3, <1>6, <1>12 DEF QueuesTrue
<1>18. QueuesTrue(p, deques[p], lives[p])'
  <2>1. /\ DOMAIN nd \subseteq Clients /\ IsFiniteSet(DOMAIN nd) /\ Cardinality(DOMAIN nd) <= MaxTracked
    BY <1>14 DEF QueuesTrue
  <2>2. ASSUME NEW x \in DOMAIN nd
        PROVE  /\ nd[x] \subseteq passed' /\ Cardinality(nd[x]) <= IpLimit
               /\ \A g \in nd[x] : g.by = p /\ g.client = x /\ g.life = life[x]
    <3>1. CASE x = c
      BY <1>12, <1>14, <1>16, <1>17, <3>1
    <3>2. CASE x # c
      <4>1. nd[x] = d[x] /\ x \in DOMAIN d
        BY <1>14, <3>2
      <4> QED  BY <1>9, <4>1 DEF QueuesTrue
    <3> QED  BY <3>1, <3>2
  <2>3. ASSUME NEW g \in passed', g.by = p
        PROVE  /\ g.life <= life[g.client]
               /\ g.life = life[g.client] => /\ g.client \in DOMAIN nd
                                             /\ Recent(g) => g \in nd[g.client]
    <3>1. CASE g \in passed
      <4>1. /\ g.life <= life[g.client]
            /\ g.life = life[g.client] => /\ g.client \in DOMAIN d
                                          /\ Recent(g) => g \in d[g.client]
        BY <2>3, <3>1 DEF QueuesTrue
      <4>2. CASE g.client = c
        BY <1>4, <1>6, <1>14, <4>1, <4>2
      <4>3. CASE g.client # c
        BY <1>14, <4>1, <4>3
      <4> QED  BY <4>2, <4>3
    <3>2. CASE ok /\ g = e
      <4>1. g.life = life[g.client] /\ life[c] <= life[c]
        BY <1>1, <1>3, <3>2
      <4>2. g.client \in DOMAIN nd /\ g \in nd[g.client]
        BY <1>3, <1>6, <1>14, <3>2
      <4> QED  BY <1>3, <3>2, <4>1, <4>2
    <3> QED  BY <1>10, <3>1, <3>2
  <2> QED  BY <1>15, <2>1, <2>2, <2>3 DEF QueuesTrue, Recent
<1>19. ASSUME NEW q \in Processes, q # p  PROVE QueuesTrue(q, deques[q], lives[q])'
  <2>1. QueuesTrue(q, deques[q], lives[q])
    BY <1>0 DEF DequesTrue
  <2>2. \A g \in passed' : g.by = q => g \in passed
    BY <1>3, <1>10, <1>19
  <2>3. deques'[q] = deques[q] /\ lives'[q] = lives[q]
    BY <1>15, <1>19
  <2> QED  BY <1>9, <2>1, <2>2, <2>3 DEF QueuesTrue, Recent
<1>20. DequesTrue'
  BY <1>18, <1>19 DEF DequesTrue
<1>21. \A g \in passed' \ passed : g.by # "redis"
  BY <1>1, <1>3, <1>10
<1> QED  BY <1>9, <1>11, <1>15, <1>20, <1>21 DEF MemoryKeeps

\* A client that comes to the map, with or without making room.
LEMMA MemoryOK ==
    ASSUME IpInv, NEW p \in Processes, NEW r \in Nat, NEW c \in Clients, Memory(r, p, c), now' = now
    PROVE  MemoryKeeps /\ lives' \in [Processes -> [Clients -> Nat]]
<1>0. IpTypes /\ DequesTrue
  BY DEF IpInv
<1>1. PICK d \in Queues : d = deques[p]
  BY <1>0 DEF IpTypes
<1>2. QueuesTrue(p, d, lives[p])
  BY <1>0, <1>1 DEF DequesTrue
<1>3. /\ lives \in [Processes -> [Clients -> Nat]] /\ lives[p] \in [Clients -> Nat]
      /\ MaxTracked \in Nat /\ Cardinality(DOMAIN d) \in Nat /\ IsFiniteSet(DOMAIN d)
  BY <1>0, <1>2, IpNumbers, FS_CardinalityType DEF IpTypes, QueuesTrue
<1>4. PICK C \in SUBSET Clients : d \in [C -> SUBSET Entries] /\ DOMAIN d = C
  BY DEF Queues
<1>5. \A g \in passed : g.by = p => g.client \in Clients /\ g.life \in Nat
  BY <1>0 DEF IpTypes, Entries
<1>6. CASE c \in DOMAIN d
  <2>1. lives' = lives /\ MemoryCheck(r, p, c, d)
    BY <1>1, <1>6 DEF Memory
  <2> QED  BY <1>2, <1>3, <1>6, <2>1, MemoryCheckOK
<1>7. CASE c \notin DOMAIN d /\ Cardinality(DOMAIN d) < MaxTracked
  <2>1. PICK nd : nd = Put(d, c, {})
    OBVIOUS
  <2>2. lives' = lives /\ MemoryCheck(r, p, c, nd)
    BY <1>1, <1>7, <2>1 DEF Memory
  <2>3. /\ DOMAIN nd = DOMAIN d \cup {c} /\ nd[c] = {}
        /\ \A x \in DOMAIN d : x # c /\ nd[x] = d[x]
    BY <1>7, <2>1 DEF Put
  <2>4. nd \in Queues /\ DOMAIN nd \subseteq Clients
    <3>1. nd \in [C \cup {c} -> SUBSET Entries]
      BY <1>4, <2>1 DEF Put
    <3> QED  BY <2>3, <1>4, <3>1 DEF Queues
  <2>5. IsFiniteSet(DOMAIN nd) /\ Cardinality(DOMAIN nd) <= MaxTracked
    <3>1. IsFiniteSet(DOMAIN nd) /\ Cardinality(DOMAIN nd) = Cardinality(DOMAIN d) + 1
      BY <1>3, <1>7, <2>3, FS_AddElement
    <3> QED  BY <1>3, <1>7, <3>1
  <2>6. Cardinality({}) = 0 /\ 0 <= IpLimit
    BY FS_EmptySet, IpAssumption
  <2>7. \A x \in DOMAIN nd :
          /\ nd[x] \subseteq passed /\ Cardinality(nd[x]) <= IpLimit
          /\ \A e \in nd[x] : e.by = p /\ e.client = x /\ e.life = lives[p][x]
    BY <1>2, <2>3, <2>6 DEF QueuesTrue
  <2>8. \A e \in passed : e.by = p => /\ e.life <= lives[p][e.client]
                                      /\ e.life = lives[p][e.client] =>
                                            /\ e.client \in DOMAIN nd
                                            /\ Recent(e) => e \in nd[e.client]
    BY <1>2, <2>3 DEF QueuesTrue
  <2>9. QueuesTrue(p, nd, lives[p])
    BY <2>4, <2>5, <2>7, <2>8 DEF QueuesTrue
  <2>10. c \in DOMAIN nd
    BY <2>3
  <2> QED  BY <1>3, <2>2, <2>4, <2>9, <2>10, MemoryCheckOK
<1>8. CASE c \notin DOMAIN d /\ ~(Cardinality(DOMAIN d) < MaxTracked)
  <2>1. PICK victim \in DOMAIN d : /\ lives' = [lives EXCEPT ![p][victim] = @ + 1]
                                   /\ MemoryCheck(r, p, c, Put(Without(d, victim), c, {}))
    BY <1>1, <1>8 DEF Memory
  <2>2. PICK nd : nd = Put(Without(d, victim), c, {})
    OBVIOUS
  <2>3. PICK life : life = lives'[p]
    OBVIOUS
  <2>4. victim \in Clients /\ victim # c
    BY <1>4, <1>8
  <2>5. /\ lives' \in [Processes -> [Clients -> Nat]] /\ life \in [Clients -> Nat]
        /\ life[victim] = lives[p][victim] + 1 /\ \A x \in Clients : x # victim => life[x] = lives[p][x]
        /\ \A q \in Processes \ {p} : lives'[q] = lives[q]
    BY <1>3, <2>1, <2>3, <2>4
  <2>6. /\ DOMAIN nd = (DOMAIN d \ {victim}) \cup {c} /\ nd[c] = {}
        /\ \A x \in DOMAIN d \ {victim} : x # c /\ nd[x] = d[x]
    BY <1>8, <2>2 DEF Put, Without
  <2>7. nd \in Queues /\ DOMAIN nd \subseteq Clients
    <3>1. nd \in [(C \ {victim}) \cup {c} -> SUBSET Entries]
      BY <1>4, <2>2 DEF Put, Without
    <3> QED  BY <1>4, <2>6, <3>1 DEF Queues
  <2>8. IsFiniteSet(DOMAIN nd) /\ Cardinality(DOMAIN nd) <= MaxTracked
    <3>1. /\ IsFiniteSet(DOMAIN d \ {victim})
          /\ Cardinality(DOMAIN d \ {victim}) = Cardinality(DOMAIN d) - 1
      BY <1>3, FS_RemoveElement
    <3>2. /\ IsFiniteSet(DOMAIN nd)
          /\ Cardinality(DOMAIN nd) = Cardinality(DOMAIN d \ {victim}) + 1
      <4>1. PICK D : D = DOMAIN d \ {victim}
        OBVIOUS
      <4>2. c \notin D /\ IsFiniteSet(D) /\ DOMAIN nd = D \cup {c}
        BY <1>8, <2>6, <3>1, <4>1
      <4>3. IsFiniteSet(D \cup {c}) /\ Cardinality(D \cup {c}) = Cardinality(D) + 1
        BY <4>2, FS_AddElement
      <4> QED  BY <4>1, <4>2, <4>3
    <3>3. Cardinality(DOMAIN d) <= MaxTracked
      BY <1>2 DEF QueuesTrue
    <3> QED  BY <1>3, <3>1, <3>2, <3>3
  <2>9. Cardinality({}) = 0 /\ 0 <= IpLimit
    BY FS_EmptySet, IpAssumption
  <2>10. \A x \in DOMAIN nd :
          /\ nd[x] \subseteq passed /\ Cardinality(nd[x]) <= IpLimit
          /\ \A e \in nd[x] : e.by = p /\ e.client = x /\ e.life = life[x]
    BY <1>2, <1>4, <2>5, <2>6, <2>9 DEF QueuesTrue
  <2>11. ASSUME NEW e \in passed, e.by = p
         PROVE  /\ e.life <= life[e.client]
                /\ e.life = life[e.client] => /\ e.client \in DOMAIN nd
                                              /\ Recent(e) => e \in nd[e.client]
    <3>1. /\ e.life <= lives[p][e.client] /\ e.client \in Clients /\ e.life \in Nat
          /\ e.life = lives[p][e.client] => /\ e.client \in DOMAIN d
                                            /\ Recent(e) => e \in d[e.client]
      BY <1>2, <1>5, <2>11 DEF QueuesTrue
    <3>2. CASE e.client = victim
      <4>1. life[victim] = lives[p][victim] + 1 /\ lives[p][victim] \in Nat
        BY <1>3, <2>4, <2>5
      <4>2. e.life <= life[victim] /\ e.life # life[victim]
        BY <3>1, <3>2, <4>1
      <4> QED  BY <3>2, <4>2
    <3>3. CASE e.client # victim
      BY <2>5, <2>6, <3>1, <3>3
    <3> QED  BY <3>2, <3>3
  <2>12. QueuesTrue(p, nd, life)
    BY <2>7, <2>8, <2>10, <2>11 DEF QueuesTrue
  <2>13. c \in DOMAIN nd /\ MemoryCheck(r, p, c, nd)
    BY <2>1, <2>2, <2>6
  <2> QED  BY <2>3, <2>5, <2>7, <2>12, <2>13, MemoryCheckOK
<1> QED  BY <1>6, <1>7, <1>8

\* Redis is not touched.
LEMMA ZsetKept ==
    ASSUME IpInv, MemoryKeeps, zset' = zset, now' = now
    PROVE  ZsetTrue'
<1>0. ZsetTrue
  BY DEF IpInv
<1>1. passed \subseteq passed' /\ \A g \in passed' : g.by = "redis" => g \in passed
  BY DEF MemoryKeeps
<1> QED  BY <1>0, <1>1 DEF ZsetTrue

\* A request that is no longer under way, and one that comes.
LEMMA ChecksMove ==
    ASSUME IpTypes, NEW r
    PROVE  /\ Without(checks, r) \in [DOMAIN Without(checks, r) -> Checks]
           /\ DOMAIN Without(checks, r) \subseteq DOMAIN checks
           /\ \A x \in Checks : /\ Put(checks, r, x) \in [DOMAIN Put(checks, r, x) -> Checks]
                                /\ DOMAIN Put(checks, r, x) = DOMAIN checks \cup {r}
<1>1. checks \in [DOMAIN checks -> Checks]
  BY DEF IpTypes
<1> QED  BY <1>1 DEF Without, Put

\* A request comes.
LEMMA IpArriveOK ==
    ASSUME IpInv, NEW p \in Processes, NEW c \in Clients, IpArrive(p, c)
    PROVE  IpInv'
<1>0. IpTypes /\ ZsetTrue /\ DequesTrue /\ IpLimitHolds
  BY DEF IpInv
<1>1. /\ now' = now /\ useRedis' = useRedis /\ zset' = zset
      /\ arrivals < MaxArrivals /\ arrivals' = arrivals + 1
  BY DEF IpArrive
<1>2. arrivals \in Nat /\ MaxArrivals \in Nat /\ arrivals' \in Nat
  BY <1>0, <1>1, IpNumbers
<1>3. /\ arrivals' \in 0..MaxArrivals /\ arrivals' \in 1..arrivals' /\ DOMAIN checks \subseteq 1..arrivals'
  BY <1>0, <1>1, <1>2 DEF IpTypes
<1>4. CASE useRedis[p]
  <2>1. PICK x \in Checks : x = [process |-> p, client |-> c, ran |-> FALSE]
    BY DEF Checks
  <2>2. /\ checks' = Put(checks, arrivals', x) /\ deques' = deques /\ passed' = passed
        /\ refused' = refused /\ lives' = lives
    BY <1>4, <2>1 DEF IpArrive
  <2>3. /\ checks' \in [DOMAIN checks' -> Checks] /\ DOMAIN checks' = DOMAIN checks \cup {arrivals'}
    BY <1>0, <2>2, ChecksMove
  <2>4. IpTypes'
    BY <1>0, <1>1, <1>3, <2>2, <2>3 DEF IpTypes
  <2>5. ZsetTrue' /\ DequesTrue'
    BY <1>0, <1>1, <2>2 DEF ZsetTrue, DequesTrue, QueuesTrue, Recent
  <2>6. IpLimitHolds'
    BY <1>0, <2>2 DEF IpLimitHolds, IpWindowCap, IpRefusedOnlyWhenFull, Window
  <2> QED  BY <2>4, <2>5, <2>6 DEF IpInv
<1>5. CASE ~useRedis[p]
  <2>1. Memory(arrivals', p, c) /\ checks' = checks
    BY <1>5 DEF IpArrive
  <2>2. MemoryKeeps /\ lives' \in [Processes -> [Clients -> Nat]]
    <3>1. PICK r \in Nat : r = arrivals'
      BY <1>2
    <3>2. Memory(r, p, c)
      BY <2>1, <3>1
    <3> QED  BY <1>1, <3>2, MemoryOK
  <2>3. IpTypes'
    BY <1>0, <1>1, <1>3, <2>1, <2>2 DEF IpTypes, MemoryKeeps
  <2>4. ZsetTrue'
    BY <1>1, <2>2, ZsetKept
  <2> QED  BY <2>2, <2>3, <2>4 DEF IpInv, MemoryKeeps
<1> QED  BY <1>4, <1>5

\* The call of Redis fails.
LEMMA IpFailsOK ==
    ASSUME IpInv, NEW r \in DOMAIN checks, IpFails(r)
    PROVE  IpInv'
<1>0. IpTypes
  BY DEF IpInv
<1>1. /\ now' = now /\ zset' = zset /\ arrivals' = arrivals /\ checks' = Without(checks, r)
      /\ useRedis' = [useRedis EXCEPT ![checks[r].process] = FALSE]
      /\ Memory(r, checks[r].process, checks[r].client)
  BY DEF IpFails
<1>2. checks[r] \in Checks /\ r \in Nat
  <2>1. arrivals \in Nat
    BY <1>0, IpNumbers
  <2> QED  BY <1>0, <2>1 DEF IpTypes
<1>3. PICK p \in Processes, c \in Clients : p = checks[r].process /\ c = checks[r].client
  BY <1>2 DEF Checks
<1>4. MemoryKeeps /\ lives' \in [Processes -> [Clients -> Nat]]
  BY <1>1, <1>2, <1>3, MemoryOK
<1>5. checks' \in [DOMAIN checks' -> Checks] /\ DOMAIN checks' \subseteq DOMAIN checks
  BY <1>0, <1>1, ChecksMove
<1>6. useRedis' \in [Processes -> BOOLEAN]
  BY <1>0, <1>1 DEF IpTypes
<1>7. IpTypes'
  BY <1>0, <1>1, <1>4, <1>5, <1>6 DEF IpTypes, MemoryKeeps
<1>8. ZsetTrue'
  BY <1>1, <1>4, ZsetKept
<1> QED  BY <1>4, <1>7, <1>8 DEF IpInv, MemoryKeeps

\* Time passes: what was granted a second ago may be forgotten.
LEMMA IpTickOK ==
    ASSUME IpInv, IpTick
    PROVE  IpInv'
<1>0. IpTypes /\ ZsetTrue /\ DequesTrue /\ IpLimitHolds
  BY DEF IpInv
<1>1. /\ now < MaxTime /\ now' = now + 1 /\ useRedis' = useRedis /\ zset' = zset
      /\ deques' = deques /\ checks' = checks /\ arrivals' = arrivals /\ passed' = passed
      /\ refused' = refused /\ lives' = lives
  BY DEF IpTick
<1>2. now \in Nat /\ IpWindow \in Nat /\ MaxTime \in Nat
  BY <1>0, IpNumbers
<1>3. \A e \in passed : e.at \in Nat /\ e.at <= now
  BY <1>0 DEF IpTypes, Entries
<1>4. IpTypes'
  <2>1. now' \in 0..MaxTime /\ \A e \in passed' : e.at <= now'
    BY <1>1, <1>2, <1>3
  <2> QED  BY <1>0, <1>1, <2>1 DEF IpTypes
<1>5. ZsetTrue'
  <2>1. \A e \in passed : e.at > now' - IpWindow => e.at > now - IpWindow
    BY <1>1, <1>2, <1>3
  <2> QED  BY <1>0, <1>1, <2>1 DEF ZsetTrue
<1>6. DequesTrue'
  <2>1. \A e \in passed : Recent(e)' => Recent(e)
    BY <1>1, <1>2, <1>3 DEF Recent
  <2> QED  BY <1>0, <1>1, <2>1 DEF DequesTrue, QueuesTrue
<1>7. IpLimitHolds'
  BY <1>0, <1>1 DEF IpLimitHolds, IpWindowCap, IpRefusedOnlyWhenFull, Window
<1> QED  BY <1>4, <1>5, <1>6, <1>7 DEF IpInv

\* Nothing is counted.
LEMMA IpRestsOK ==
    ASSUME IpInv, UNCHANGED <<now, zset, deques, arrivals, passed, refused, lives>>,
           useRedis' \in [Processes -> BOOLEAN], checks' \in [DOMAIN checks' -> Checks],
           DOMAIN checks' \subseteq DOMAIN checks
    PROVE  IpInv'
<1>0. IpTypes /\ ZsetTrue /\ DequesTrue /\ IpLimitHolds
  BY DEF IpInv
<1>1. IpTypes'
  BY <1>0 DEF IpTypes
<1>2. ZsetTrue' /\ DequesTrue'
  BY <1>0 DEF ZsetTrue, DequesTrue, QueuesTrue, Recent
<1>3. IpLimitHolds'
  BY <1>0 DEF IpLimitHolds, IpWindowCap, IpRefusedOnlyWhenFull, Window
<1> QED  BY <1>1, <1>2, <1>3 DEF IpInv

\* Nothing has been granted.
LEMMA IpStarts ==
    ASSUME IpInit
    PROVE  IpInv
<1>1. /\ now = 0 /\ useRedis \in [Processes -> BOOLEAN] /\ zset = [c \in Clients |-> {}]
      /\ deques = [p \in Processes |-> [c \in {} |-> {}]] /\ DOMAIN checks = {}
      /\ checks \in [DOMAIN checks -> Checks]
      /\ arrivals = 0 /\ passed = {} /\ refused = {}
      /\ lives = [p \in Processes |-> [c \in Clients |-> 0]]
  BY DEF IpInit
<1>2. MaxTime \in Nat /\ MaxArrivals \in Nat /\ IpLimit \in Nat /\ MaxTracked \in Nat
  BY IpAssumption
<1>3. IsFiniteSet({}) /\ Cardinality({}) = 0
  BY FS_EmptySet
<1>4. [c \in {} |-> {}] \in Queues
  BY DEF Queues
<1>5. IpTypes
  BY <1>1, <1>2, <1>3, <1>4 DEF IpTypes
<1>6. ZsetTrue
  BY <1>1, <1>2, <1>3 DEF ZsetTrue
<1>7. DequesTrue
  <2> SUFFICES ASSUME NEW p \in Processes  PROVE QueuesTrue(p, deques[p], lives[p])
    BY DEF DequesTrue
  <2>1. DOMAIN deques[p] = {}
    BY <1>1
  <2> QED  BY <1>1, <1>2, <1>3, <2>1 DEF QueuesTrue
<1>8. IpLimitHolds
  BY <1>1 DEF IpLimitHolds, IpWindowCap, IpRefusedOnlyWhenFull
<1> QED  BY <1>5, <1>6, <1>7, <1>8 DEF IpInv

\* One step per action.
LEMMA IpStepInv == IpInv /\ [IpNext]_ipVars => IpInv'
<1> SUFFICES ASSUME IpInv, [IpNext]_ipVars  PROVE IpInv'
  OBVIOUS
<1>0. IpTypes
  BY DEF IpInv
<1>a. useRedis \in [Processes -> BOOLEAN] /\ checks \in [DOMAIN checks -> Checks]
  BY <1>0 DEF IpTypes
<1>1. CASE IpTick
  BY <1>1, IpTickOK
<1>2. ASSUME NEW p \in Processes, NEW c \in Clients, IpArrive(p, c)  PROVE IpInv'
  BY <1>2, IpArriveOK
<1>3. ASSUME NEW r \in DOMAIN checks, IpScript(r)  PROVE IpInv'
  BY <1>3, IpScriptOK
<1>4. ASSUME NEW r \in DOMAIN checks, IpAnswered(r)  PROVE IpInv'
  <2>1. /\ UNCHANGED <<now, zset, deques, arrivals, passed, refused, lives>>
        /\ useRedis' = useRedis /\ checks' = Without(checks, r)
    BY <1>4 DEF IpAnswered
  <2>2. checks' \in [DOMAIN checks' -> Checks] /\ DOMAIN checks' \subseteq DOMAIN checks
    BY <1>0, <2>1, ChecksMove
  <2> QED  BY <1>a, <2>1, <2>2, IpRestsOK
<1>5. ASSUME NEW r \in DOMAIN checks, IpFails(r)  PROVE IpInv'
  BY <1>5, IpFailsOK
<1>6. ASSUME NEW p \in Processes, IpRecovers(p)  PROVE IpInv'
  <2>1. /\ UNCHANGED <<now, zset, deques, arrivals, passed, refused, lives>>
        /\ useRedis' = [useRedis EXCEPT ![p] = TRUE] /\ checks' = checks
    BY <1>6 DEF IpRecovers
  <2>2. useRedis' \in [Processes -> BOOLEAN]
    BY <1>a, <2>1
  <2> QED  BY <1>a, <2>1, <2>2, IpRestsOK
<1>7. CASE UNCHANGED ipVars
  <2>1. /\ UNCHANGED <<now, zset, deques, arrivals, passed, refused, lives>>
        /\ useRedis' = useRedis /\ checks' = checks
    BY <1>7 DEF ipVars
  <2> QED  BY <1>a, <2>1, IpRestsOK
<1> QED  BY <1>1, <1>2, <1>3, <1>4, <1>5, <1>6, <1>7 DEF IpNext

\* The sorted set and the deques hold exactly what still counts of what was granted, in
\* every state that requests, failures of Redis, evictions and restarts reach.
THEOREM IpInvariant == IpSpec => []IpInv
BY IpStarts, IpStepInv, PTL DEF IpSpec

\* The sorted set, the deques and the histories keep their types, and a process tracks no
\* more clients than its bound (the eviction in MemoryClientIpRateLimiter).
THEOREM IpTypeCorrect == IpSpec => []IpTypeOK
<1>1. IpInv => IpTypeOK
  BY DEF IpInv, IpTypes, ZsetTrue, DequesTrue, QueuesTrue, IpTypeOK
<1> QED  BY <1>1, IpInvariant, PTL

\* In any second Redis grants a client at most the limit, and so does each process in each
\* life of its memory, and none is refused that is within it, for every number of
\* processes, clients and requests.
THEOREM IpLimitAlwaysHolds == IpSpec => []IpLimitHolds
<1>1. IpInv => IpLimitHolds
  BY DEF IpInv
<1> QED  BY <1>1, IpInvariant, PTL

-----------------------------------------------------------------------------
(* The counters of health                                                  *)

Locals == [at : {"idle", "load", "exchange", "store", "add"}, idx : BucketIds, lap : LapIds,
           last : LapIds]
Sums == [at : {"idle", "lap", "count", "done"}, now : 0..MaxBuckets, next : 0..Buckets,
         parts : [BucketIds -> 0..MaxIncrs], calm : BOOLEAN, least : [BucketIds -> 0..MaxIncrs]]

\* The increments under way at b, and those of them that will count an event of another
\* lap than that of b.
Under(b) == {t \in CountThreads : incr[t].at # "idle" /\ incr[t].idx = b}
Stale(b) ==
    {t \in CountThreads :
        /\ incr[t].idx = b /\ incr[t].lap # laps[b]
        /\ \/ incr[t].at \in {"store", "add"}
           \/ incr[t].at = "exchange" /\ incr[t].last # laps[b]}

\* Every event is of an increment that began.
Begun ==
    \A b \in BucketIds :
        /\ counters[b] + Cardinality(Under(b)) <= begun
        /\ \A l \in LapIds : /\ landed[b][l] + Cardinality(Under(b)) <= begun
                             /\ counted[b][l] + Cardinality(Under(b)) <= begun

\* No lap is ahead of the clock.
LapsPast ==
    /\ \A b \in BucketIds : laps[b] <= LapOf(elapsed)
    /\ \A t \in CountThreads : incr[t].lap <= LapOf(elapsed)
    /\ sum.now <= elapsed

\* The thread that gave b its lap is not stale; each of the others has added, or will
\* add, at most one event of another lap since b was cleared.
StaleBounded ==
    \A b \in BucketIds :
        /\ \E t \in CountThreads : t \notin Stale(b)
        /\ \A l \in LapIds : counted[b][l] <= counters[b]
        /\ Clearing(b) = {} =>
              counters[b] - counted[b][laps[b]] + Cardinality(Stale(b)) < Cardinality(CountThreads)

\* Where no increment met a change of lap, at most one thread clears, before any event of
\* its lap, and then the count is that of the lap; nothing has landed in a later lap.
CalmTrue ==
    \A b \in BucketIds : b \notin raced =>
        /\ Clearing(b) = {} => counters[b] = landed[b][laps[b]]
        /\ Clearing(b) # {} => landed[b][laps[b]] = 0
        /\ \A t, u \in Clearing(b) : t = u
        /\ \A l \in LapIds : l > laps[b] => landed[b][l] = 0

\* What total() has added up so far.
SumTrue ==
    sum.at # "idle" =>
        /\ \A b \in BucketIds : sum.least[b] <= landed[b][LapOf(sum.now)]
        /\ sum.calm => \A b \in BucketIds : b < sum.next =>
              /\ sum.parts[b] <= landed[b][LapOf(sum.now)]
              /\ LapOf(elapsed) = LapOf(sum.now) => sum.parts[b] >= sum.least[b]
        /\ IF sum.at = "done" THEN sum.next = Buckets ELSE sum.next \in BucketIds
        /\ \A b \in BucketIds : b >= sum.next => sum.parts[b] = 0
        /\ sum.at = "count" /\ sum.calm => laps[sum.next] = LapOf(sum.now)

CounterInv ==
    CounterTypeOK /\ Begun /\ LapsPast /\ StaleBounded /\ CalmTrue /\ SumTrue

\* The lap of the clock only grows.
LEMMA LapGrows ==
    ASSUME NEW a \in Nat, NEW c \in Nat, a <= c
    PROVE  LapOf(a) \in Nat /\ LapOf(c) \in Nat /\ LapOf(a) <= LapOf(c)
<1> DEFINE d == Buckets
           x == a \div d
           y == c \div d
<1>0. d \in Nat \ {0}
  BY CounterAssumption
<1>1. x \in Nat /\ d * x <= a
  BY <1>0, Division
<1>2. y \in Nat /\ c < d * y + d
  BY <1>0, Division
<1>3. LapOf(a) = x /\ LapOf(c) = y
  BY DEF LapOf
<1> HIDE DEF d, x, y
<1>4. ASSUME x >= y + 1  PROVE FALSE
  <2>1. d * x >= d * (y + 1)
    BY <1>0, <1>1, <1>2, <1>4
  <2>2. d * (y + 1) = d * y + d /\ d * y \in Nat /\ d * x \in Nat
    BY <1>0, <1>1, <1>2
  <2> QED  BY <1>0, <1>1, <1>2, <2>1, <2>2
<1> QED  BY <1>1, <1>2, <1>3, <1>4

\* A time has a bucket.
LEMMA IndexType ==
    ASSUME NEW a \in Nat
    PROVE  Index(a) \in BucketIds
<1>1. Buckets \in Nat \ {0}
  BY CounterAssumption
<1>2. a % Buckets \in 0..Buckets - 1
  BY <1>1
<1> QED  BY <1>2 DEF Index, BucketIds

\* A time within the bound has a lap within the bound.
LEMMA LapType ==
    ASSUME NEW a \in 0..MaxBuckets
    PROVE  a \in Nat /\ LapOf(a) \in LapIds
<1>1. a \in Nat /\ MaxBuckets \in Nat /\ a <= MaxBuckets
  BY CounterAssumption
<1>2. LapOf(a) \in Nat /\ LapOf(MaxBuckets) \in Nat /\ LapOf(a) <= LapOf(MaxBuckets)
  BY <1>1, LapGrows
<1>3. LapIds = 0..LapOf(MaxBuckets)
  BY DEF LapIds, LapOf
<1> QED  BY <1>1, <1>2, <1>3

\* The types of what occurs in the arithmetic.
LEMMA CounterNumbers ==
    ASSUME CounterTypeOK
    PROVE  /\ elapsed \in Nat /\ MaxIncrs \in Nat /\ begun \in Nat /\ begun <= MaxIncrs
           /\ Buckets \in Nat /\ Buckets >= 1
           /\ \A b \in BucketIds :
                /\ b \in Nat /\ counters[b] \in Nat /\ laps[b] \in LapIds /\ laps[b] \in Nat
                /\ \A l \in LapIds : l \in Nat /\ landed[b][l] \in Nat /\ counted[b][l] \in Nat
           /\ \A t \in CountThreads : /\ incr[t] \in Locals
           /\ sum \in Sums
<1>1. MaxBuckets \in Nat /\ MaxIncrs \in Nat /\ Buckets \in Nat /\ Buckets >= 1
  BY CounterAssumption
<1>2. LapOf(MaxBuckets) \in Nat /\ LapIds = 0..LapOf(MaxBuckets)
  BY <1>1, LapGrows DEF LapIds, LapOf
<1>3. \A l \in LapIds : l \in Nat
  BY <1>2
<1>4. \A b \in BucketIds : b \in Nat
  BY <1>1 DEF BucketIds
<1>5. elapsed \in Nat /\ begun \in Nat /\ begun <= MaxIncrs
  BY <1>1 DEF CounterTypeOK
<1>6. \A b \in BucketIds : counters[b] \in Nat /\ laps[b] \in LapIds
  BY <1>1 DEF CounterTypeOK
<1>7. \A b \in BucketIds : \A l \in LapIds : landed[b][l] \in Nat /\ counted[b][l] \in Nat
  BY <1>1 DEF CounterTypeOK
<1>8. incr \in [CountThreads -> Locals] /\ sum \in Sums
  BY DEF CounterTypeOK, Locals, Sums
<1> QED  BY <1>1, <1>3, <1>4, <1>5, <1>6, <1>7, <1>8

\* The sets of threads are finite.
LEMMA ThreadsFinite ==
    ASSUME NEW S \in SUBSET CountThreads
    PROVE  IsFiniteSet(S) /\ Cardinality(S) \in Nat
BY CounterAssumption, FS_Subset, FS_CardinalityType

\* A set that leaves out a thread is smaller.
LEMMA ThreadsFewer ==
    ASSUME NEW S \in SUBSET CountThreads, NEW t \in CountThreads, t \notin S
    PROVE  Cardinality(CountThreads) \in Nat /\ Cardinality(S) < Cardinality(CountThreads)
<1>1. /\ IsFiniteSet(S) /\ Cardinality(S) \in Nat /\ Cardinality(CountThreads) \in Nat
      /\ Cardinality(S) <= Cardinality(CountThreads)
  BY CounterAssumption, FS_Subset, FS_CardinalityType
<1>2. Cardinality(S) # Cardinality(CountThreads)
  <2>1. S # CountThreads
    OBVIOUS
  <2> QED  BY <2>1, CounterAssumption, FS_Subset
<1> QED  BY <1>1, <1>2

Places == {"idle", "load", "exchange", "store", "add"}

\* A thread's locals.
LEMMA ThreadAt ==
    ASSUME CounterTypeOK, NEW t \in CountThreads
    PROVE  \E x \in BucketIds, y \in LapIds, z \in LapIds :
              /\ incr[t] = [at |-> incr[t].at, idx |-> x, lap |-> y, last |-> z]
              /\ incr[t].idx = x /\ incr[t].lap = y /\ incr[t].last = z
<1>1. incr[t] \in Locals
  BY CounterNumbers
<1>2. incr[t].idx \in BucketIds /\ incr[t].lap \in LapIds /\ incr[t].last \in LapIds
  BY <1>1 DEF Locals
<1>3. incr[t] = [at |-> incr[t].at, idx |-> incr[t].idx, lap |-> incr[t].lap, last |-> incr[t].last]
  BY <1>1 DEF Locals
<1> QED  BY <1>2, <1>3

\* What moving on makes of the locals.
LEMMA LocalsMove ==
    ASSUME NEW r \in Locals, NEW a
    PROVE  [r EXCEPT !.at = a] = [at |-> a, idx |-> r.idx, lap |-> r.lap, last |-> r.last]
BY DEF Locals

\* One thread moves: the others stay where they are.
LEMMA ThreadMoves ==
    ASSUME CounterTypeOK, NEW t \in CountThreads,
           NEW a \in Places, NEW x \in BucketIds, NEW y \in LapIds, NEW z \in LapIds,
           incr' = [incr EXCEPT ![t] = [at |-> a, idx |-> x, lap |-> y, last |-> z]]
    PROVE  /\ incr' \in [CountThreads -> Locals]
           /\ incr'[t].at = a /\ incr'[t].idx = x /\ incr'[t].lap = y /\ incr'[t].last = z
           /\ \A u \in CountThreads : u # t => incr'[u] = incr[u]
<1> DEFINE i == [at |-> a, idx |-> x, lap |-> y, last |-> z]
<1>1. incr \in [CountThreads -> Locals]
  BY DEF CounterTypeOK, Locals
<1>2. i \in Locals
  BY DEF Locals, Places
<1>3. i.at = a /\ i.idx = x /\ i.lap = y /\ i.last = z
  OBVIOUS
<1>4. incr' = [incr EXCEPT ![t] = i]
  OBVIOUS
<1> HIDE DEF i
<1> QED  BY <1>1, <1>2, <1>3, <1>4

\* The sets of threads are as they were, but for the one that moves.
LEMMA SetsMove ==
    ASSUME NEW t \in CountThreads, \A u \in CountThreads : u # t => incr'[u] = incr[u],
           NEW b \in BucketIds
    PROVE  /\ Under(b) \in SUBSET CountThreads /\ Under(b)' \in SUBSET CountThreads
           /\ Clearing(b) \in SUBSET CountThreads /\ Clearing(b)' \in SUBSET CountThreads
           /\ Stale(b) \in SUBSET CountThreads /\ Stale(b)' \in SUBSET CountThreads
           /\ Under(b)' \ {t} = Under(b) \ {t} /\ Clearing(b)' \ {t} = Clearing(b) \ {t}
           /\ laps'[b] = laps[b] => Stale(b)' \ {t} = Stale(b) \ {t}
<1>1. /\ Under(b) \in SUBSET CountThreads /\ Under(b)' \in SUBSET CountThreads
      /\ Clearing(b) \in SUBSET CountThreads /\ Clearing(b)' \in SUBSET CountThreads
      /\ Stale(b) \in SUBSET CountThreads /\ Stale(b)' \in SUBSET CountThreads
  BY DEF Under, Clearing, Stale
<1>2. \A u \in CountThreads : u # t => (u \in Under(b)' <=> u \in Under(b))
  BY DEF Under
<1>3. \A u \in CountThreads : u # t => (u \in Clearing(b)' <=> u \in Clearing(b))
  BY DEF Clearing
<1>4. laps'[b] = laps[b] => \A u \in CountThreads : u # t => (u \in Stale(b)' <=> u \in Stale(b))
  BY DEF Stale
<1>5. Under(b)' \ {t} = Under(b) \ {t}
  BY <1>1, <1>2
<1>6. Clearing(b)' \ {t} = Clearing(b) \ {t}
  BY <1>1, <1>3
<1>7. laps'[b] = laps[b] => Stale(b)' \ {t} = Stale(b) \ {t}
  BY <1>1, <1>4
<1> QED  BY <1>1, <1>5, <1>6, <1>7

\* Sets that differ in one thread at most.
LEMMA SameSets ==
    ASSUME NEW S, NEW T, NEW t, S \ {t} = T \ {t}, t \in S <=> t \in T
    PROVE  S = T
OBVIOUS

\* The same increments are under way.
LEMMA BegunKept ==
    ASSUME Begun, \A b \in BucketIds : Under(b)' = Under(b), counters' = counters,
           landed' = landed, counted' = counted, begun' = begun
    PROVE  Begun'
BY DEF Begun

\* The total does not see the step.
LEMMA SumKept ==
    ASSUME SumTrue, elapsed' = elapsed, sum' = sum, laps' = laps, landed' = landed
    PROVE  SumTrue'
BY DEF SumTrue

\* The sets of threads at each bucket stay.
LEMMA StaleKept ==
    ASSUME StaleBounded, CalmTrue,
           \A b \in BucketIds : Clearing(b)' = Clearing(b) /\ Stale(b)' = Stale(b),
           counters' = counters, laps' = laps, landed' = landed, counted' = counted, raced' = raced
    PROVE  StaleBounded' /\ CalmTrue'
BY DEF StaleBounded, CalmTrue

\* The lap of the clock is a number.
LEMMA CounterLapNat ==
    ASSUME NEW l \in LapIds
    PROVE  l \in Nat /\ l <= l
<1>1. LapOf(MaxBuckets) \in Nat
  BY CounterAssumption, LapGrows
<1> QED  BY <1>1 DEF LapIds, LapOf

\* No lap but one that was there.
LEMMA LapsStay ==
    ASSUME LapsPast, NEW t \in CountThreads, incr'[t].lap = incr[t].lap,
           \A u \in CountThreads : u # t => incr'[u] = incr[u],
           elapsed' = elapsed, laps' = laps, sum' = sum
    PROVE  LapsPast'
<1>1. \A u \in CountThreads : incr'[u].lap = incr[u].lap
  OBVIOUS
<1> QED  BY <1>1 DEF LapsPast

\* An increment reads the clock.
LEMMA ReadClockOK ==
    ASSUME CounterInv, NEW t \in CountThreads, ReadClock(t)
    PROVE  CounterInv'
<1>0. CounterTypeOK /\ Begun /\ LapsPast /\ StaleBounded /\ CalmTrue /\ SumTrue
  BY DEF CounterInv
<1>1. /\ incr[t].at = "idle" /\ begun < MaxIncrs /\ begun' = begun + 1 /\ elapsed' = elapsed
      /\ counters' = counters /\ laps' = laps /\ sum' = sum /\ landed' = landed
      /\ counted' = counted /\ raced' = raced
  BY DEF ReadClock
<1>n. begun \in Nat /\ MaxIncrs \in Nat /\ elapsed \in Nat
  BY <1>0, CounterNumbers
<1>2. PICK x \in BucketIds, y \in LapIds, z \in LapIds :
            Index(elapsed) = x /\ LapOf(elapsed) = y /\ z = 0
  <2>1. elapsed \in 0..MaxBuckets
    BY <1>0 DEF CounterTypeOK
  <2>2. LapOf(elapsed) \in LapIds /\ Index(elapsed) \in BucketIds
    BY <1>n, <2>1, LapType, IndexType
  <2>3. LapOf(MaxBuckets) \in Nat
    BY CounterAssumption, LapGrows
  <2>4. 0 \in LapIds
    BY <2>3 DEF LapIds, LapOf
  <2> QED  BY <2>2, <2>4
<1>3. incr' = [incr EXCEPT ![t] = [at |-> "load", idx |-> x, lap |-> y, last |-> z]]
  BY <1>2 DEF ReadClock
<1>4. /\ incr' \in [CountThreads -> Locals] /\ incr'[t].at = "load" /\ incr'[t].lap = y
      /\ \A u \in CountThreads : u # t => incr'[u] = incr[u]
  BY <1>0, <1>3, ThreadMoves DEF Places
<1>5. ASSUME NEW b \in BucketIds
      PROVE  /\ Clearing(b)' = Clearing(b) /\ Stale(b)' = Stale(b)
             /\ Under(b)' \ {t} = Under(b) /\ Under(b) \in SUBSET CountThreads /\ t \notin Under(b)
  <2>1. /\ Clearing(b)' \ {t} = Clearing(b) \ {t} /\ Stale(b)' \ {t} = Stale(b) \ {t}
        /\ Under(b)' \ {t} = Under(b) \ {t} /\ Under(b) \in SUBSET CountThreads
    BY <1>1, <1>4, SetsMove
  <2>2. t \notin Clearing(b) /\ t \notin Stale(b) /\ t \notin Under(b)
    BY <1>1 DEF Clearing, Stale, Under
  <2>3. t \notin Clearing(b)' /\ t \notin Stale(b)'
    BY <1>4 DEF Clearing, Stale
  <2> QED  BY <2>1, <2>2, <2>3
<1>6. CounterTypeOK'
  <2>1. begun' \in 0..MaxIncrs
    BY <1>n, <1>1
  <2> QED  BY <1>0, <1>1, <1>4, <2>1 DEF CounterTypeOK, Locals
<1>7. Begun'
  <2> SUFFICES ASSUME NEW b \in BucketIds
               PROVE  /\ counters[b] + Cardinality(Under(b)') <= begun + 1
                      /\ \A l \in LapIds : /\ landed[b][l] + Cardinality(Under(b)') <= begun + 1
                                           /\ counted[b][l] + Cardinality(Under(b)') <= begun + 1
    BY <1>1 DEF Begun
  <2>1. PICK S \in SUBSET CountThreads : S = Under(b)
    BY <1>5
  <2>2. IsFiniteSet(S) /\ Cardinality(S) \in Nat
    BY ThreadsFinite
  <2>3. t \notin S /\ Under(b)' \ {t} = S
    BY <1>5, <2>1
  <2>4. Cardinality(S \cup {t}) = Cardinality(S) + 1
    BY <2>2, <2>3, FS_AddElement
  <2>5. Under(b)' = S \cup {t} \/ Under(b)' = S
    BY <2>3
  <2>6. Cardinality(Under(b)') \in Nat /\ Cardinality(Under(b)') <= Cardinality(S) + 1
    <3>1. CASE Under(b)' = S
      BY <2>2, <3>1
    <3>2. CASE Under(b)' = S \cup {t}
      BY <2>2, <2>4, <3>2
    <3> QED  BY <2>5, <3>1, <3>2
  <2>7. /\ counters[b] + Cardinality(S) <= begun
        /\ \A l \in LapIds : /\ landed[b][l] + Cardinality(S) <= begun
                             /\ counted[b][l] + Cardinality(S) <= begun
    BY <1>0, <2>1 DEF Begun
  <2>8. counters[b] \in Nat /\ \A l \in LapIds : landed[b][l] \in Nat /\ counted[b][l] \in Nat
    BY <1>0, CounterNumbers
  <2> QED  BY <1>n, <2>2, <2>6, <2>7, <2>8
<1>8. LapsPast'
  <2>1. /\ \A b \in BucketIds : laps[b] <= LapOf(elapsed)
        /\ \A u \in CountThreads : incr[u].lap <= LapOf(elapsed)
        /\ sum.now <= elapsed
    BY <1>0 DEF LapsPast
  <2>2. LapOf(elapsed)' = LapOf(elapsed)
    BY <1>1
  <2>3. \A u \in CountThreads : incr'[u].lap <= LapOf(elapsed)
    BY <1>2, <1>4, <2>1, CounterLapNat
  <2> QED  BY <1>1, <2>1, <2>2, <2>3 DEF LapsPast
<1>9. StaleBounded' /\ CalmTrue'
  BY <1>0, <1>1, <1>5, StaleKept
<1>10. SumTrue'
  BY <1>0, <1>1, SumKept
<1> QED  BY <1>6, <1>7, <1>8, <1>9, <1>10 DEF CounterInv

\* It loads the lap of its bucket.
LEMMA LoadLapOK ==
    ASSUME CounterInv, NEW t \in CountThreads, LoadLap(t)
    PROVE  CounterInv'
<1>0. CounterTypeOK /\ Begun /\ LapsPast /\ StaleBounded /\ CalmTrue /\ SumTrue
  BY DEF CounterInv
<1>t. PICK x \in BucketIds, y \in LapIds, z \in LapIds :
        /\ incr[t] = [at |-> incr[t].at, idx |-> x, lap |-> y, last |-> z]
        /\ incr[t].idx = x /\ incr[t].lap = y /\ incr[t].last = z
  BY <1>0, ThreadAt
<1>1. /\ incr[t].at = "load" /\ begun' = begun /\ elapsed' = elapsed
      /\ counters' = counters /\ laps' = laps /\ sum' = sum /\ landed' = landed
      /\ counted' = counted /\ raced' = raced
  BY DEF LoadLap
<1>2. PICK v \in LapIds : laps[x] = v
  BY <1>0, CounterNumbers
<1>a. PICK a \in Places : a = IF v # y THEN "exchange" ELSE "add"
  BY DEF Places
<1>3. incr' = [incr EXCEPT ![t] = [at |-> a, idx |-> x, lap |-> y, last |-> v]]
  BY <1>t, <1>2, <1>a DEF LoadLap
<1>4. /\ incr' \in [CountThreads -> Locals] /\ incr'[t].at = a /\ incr'[t].idx = x
      /\ incr'[t].lap = y /\ incr'[t].last = v
      /\ \A u \in CountThreads : u # t => incr'[u] = incr[u]
  BY <1>0, <1>3, ThreadMoves
<1>5. ASSUME NEW b \in BucketIds
      PROVE  Clearing(b)' = Clearing(b) /\ Stale(b)' = Stale(b) /\ Under(b)' = Under(b)
  <2>1. /\ Clearing(b)' \ {t} = Clearing(b) \ {t} /\ Stale(b)' \ {t} = Stale(b) \ {t}
        /\ Under(b)' \ {t} = Under(b) \ {t}
    BY <1>1, <1>4, SetsMove
  <2>2. t \notin Clearing(b) /\ t \notin Stale(b)
    BY <1>1 DEF Clearing, Stale
  <2>3. t \notin Clearing(b)' /\ t \notin Stale(b)'
    BY <1>1, <1>2, <1>a, <1>4 DEF Clearing, Stale
  <2>4. t \in Under(b)' <=> t \in Under(b)
    BY <1>t, <1>1, <1>a, <1>4 DEF Under
  <2> QED  BY <2>1, <2>2, <2>3, <2>4, SameSets
<1>8. CounterTypeOK'
  BY <1>0, <1>1, <1>4 DEF CounterTypeOK, Locals
<1>9. Begun'
  BY <1>0, <1>1, <1>5, BegunKept
<1>10. LapsPast'
  BY <1>0, <1>t, <1>1, <1>4, LapsStay
<1>11. StaleBounded' /\ CalmTrue'
  BY <1>0, <1>1, <1>5, StaleKept
<1>12. SumTrue'
  BY <1>0, <1>1, SumKept
<1> QED  BY <1>8, <1>9, <1>10, <1>11, <1>12 DEF CounterInv

\* A thread moves on with its locals.
LEMMA ThreadSteps ==
    ASSUME CounterTypeOK, NEW t \in CountThreads, NEW a \in Places,
           incr' = [incr EXCEPT ![t].at = a]
    PROVE  /\ incr' \in [CountThreads -> Locals] /\ incr'[t].at = a
           /\ incr'[t].idx = incr[t].idx /\ incr'[t].lap = incr[t].lap
           /\ incr'[t].last = incr[t].last
           /\ \A u \in CountThreads : u # t => incr'[u] = incr[u]
<1>1. PICK r \in Locals : r = incr[t]
  BY CounterNumbers
<1>2. PICK x \in BucketIds, y \in LapIds, z \in LapIds : r.idx = x /\ r.lap = y /\ r.last = z
  BY DEF Locals
<1>3. incr' = [incr EXCEPT ![t] = [at |-> a, idx |-> x, lap |-> y, last |-> z]]
  <2>1. incr' = [incr EXCEPT ![t] = [r EXCEPT !.at = a]]
    BY <1>1
  <2> QED  BY <1>2, <2>1, LocalsMove
<1>4. /\ incr' \in [CountThreads -> Locals] /\ incr'[t].at = a
      /\ incr'[t].idx = x /\ incr'[t].lap = y /\ incr'[t].last = z
      /\ \A u \in CountThreads : u # t => incr'[u] = incr[u]
  BY ONLY CounterTypeOK, <1>3, ThreadMoves
<1> QED  BY <1>1, <1>2, <1>4

\* A total that is less calm.
LEMMA SumCalmer ==
    ASSUME CounterTypeOK, NEW x \in BucketIds,
           sum' = [sum EXCEPT !.calm = sum.calm /\ ~(sum.at = "count" /\ sum.next = x)]
    PROVE  /\ sum' \in Sums /\ sum'.at = sum.at /\ sum'.now = sum.now /\ sum'.next = sum.next
           /\ sum'.parts = sum.parts /\ sum'.least = sum.least
           /\ sum'.calm => sum.calm /\ ~(sum.at = "count" /\ sum.next = x)
<1> DEFINE c == sum.calm /\ ~(sum.at = "count" /\ sum.next = x)
<1>1. sum \in Sums
  BY DEF CounterTypeOK, Sums
<1>2. c \in BOOLEAN
  OBVIOUS
<1>3. sum' = [sum EXCEPT !.calm = c]
  OBVIOUS
<1> HIDE DEF c
<1>4. /\ sum' \in Sums /\ sum'.at = sum.at /\ sum'.now = sum.now /\ sum'.next = sum.next
      /\ sum'.parts = sum.parts /\ sum'.least = sum.least
  BY <1>1, <1>2, <1>3 DEF Sums
<1>5. sum'.calm = c
  BY <1>1, <1>3 DEF Sums
<1> QED  BY <1>4, <1>5 DEF c

\* Another increment has changed the lap of the bucket.
LEMMA ExchangeLost ==
    ASSUME CounterInv, NEW t \in CountThreads, Exchange(t), laps[incr[t].idx] # incr[t].last
    PROVE  CounterInv'
<1>0. CounterTypeOK /\ Begun /\ LapsPast /\ StaleBounded /\ CalmTrue /\ SumTrue
  BY DEF CounterInv
<1>t. PICK x \in BucketIds, y \in LapIds, z \in LapIds :
        incr[t].idx = x /\ incr[t].lap = y /\ incr[t].last = z
  BY <1>0, ThreadAt
<1>1. /\ incr[t].at = "exchange" /\ begun' = begun /\ elapsed' = elapsed
      /\ counters' = counters /\ laps' = laps /\ sum' = sum /\ landed' = landed
      /\ counted' = counted /\ raced' = raced /\ laps[x] # z
      /\ incr' = [incr EXCEPT ![t].at = "add"]
  BY <1>t DEF Exchange
<1>4. /\ incr' \in [CountThreads -> Locals] /\ incr'[t].at = "add" /\ incr'[t].idx = x
      /\ incr'[t].lap = y /\ incr'[t].last = z
      /\ \A u \in CountThreads : u # t => incr'[u] = incr[u]
  <2>1. incr' = [incr EXCEPT ![t].at = "add"]
    BY <1>1
  <2> QED  BY <1>0, <1>t, <2>1, ThreadSteps DEF Places
<1>5. ASSUME NEW b \in BucketIds
      PROVE  Clearing(b)' = Clearing(b) /\ Stale(b)' = Stale(b) /\ Under(b)' = Under(b)
  <2>1. /\ Clearing(b)' \ {t} = Clearing(b) \ {t} /\ Stale(b)' \ {t} = Stale(b) \ {t}
        /\ Under(b)' \ {t} = Under(b) \ {t}
    BY <1>1, <1>4, SetsMove
  <2>2. t \notin Clearing(b) /\ t \notin Clearing(b)'
    BY <1>1, <1>4 DEF Clearing
  <2>3. t \in Stale(b)' <=> t \in Stale(b)
    BY <1>t, <1>1, <1>4 DEF Stale
  <2>4. t \in Under(b)' <=> t \in Under(b)
    BY <1>t, <1>1, <1>4 DEF Under
  <2> QED  BY <2>1, <2>2, <2>3, <2>4, SameSets
<1>8. CounterTypeOK'
  BY <1>0, <1>1, <1>4 DEF CounterTypeOK, Locals
<1>9. Begun'
  BY <1>0, <1>1, <1>5, BegunKept
<1>10. LapsPast'
  BY <1>0, <1>t, <1>1, <1>4, LapsStay
<1>11. StaleBounded' /\ CalmTrue'
  BY <1>0, <1>1, <1>5, StaleKept
<1>12. SumTrue'
  BY <1>0, <1>1, SumKept
<1> QED  BY <1>8, <1>9, <1>10, <1>11, <1>12 DEF CounterInv

\* The increment gives the bucket its lap, and is about to clear it.
LEMMA ExchangeWon ==
    ASSUME CounterInv, NEW t \in CountThreads, Exchange(t), laps[incr[t].idx] = incr[t].last
    PROVE  CounterInv'
<1>0. CounterTypeOK /\ Begun /\ LapsPast /\ StaleBounded /\ CalmTrue /\ SumTrue
  BY DEF CounterInv
<1>t. PICK x \in BucketIds, y \in LapIds, z \in LapIds :
        incr[t].idx = x /\ incr[t].lap = y /\ incr[t].last = z
  BY <1>0, ThreadAt
<1>1. /\ incr[t].at = "exchange" /\ begun' = begun /\ elapsed' = elapsed
      /\ counters' = counters /\ landed' = landed
      /\ counted' = counted /\ laps[x] = z /\ laps' = [laps EXCEPT ![x] = y]
      /\ incr' = [incr EXCEPT ![t].at = "store"]
  BY <1>t DEF Exchange
<1>2. raced' = IF Clearing(x) # {} \/ y < z \/ \E l \in LapIds : l >= y /\ landed[x][l] > 0
               THEN raced \cup {x} ELSE raced \ {x}
  BY <1>t DEF Exchange
<1>3. sum' = [sum EXCEPT !.calm = sum.calm /\ ~(sum.at = "count" /\ sum.next = x)]
  BY <1>t DEF Exchange
<1>4. /\ incr' \in [CountThreads -> Locals] /\ incr'[t].at = "store" /\ incr'[t].idx = x
      /\ incr'[t].lap = y /\ incr'[t].last = z
      /\ \A u \in CountThreads : u # t => incr'[u] = incr[u]
  <2>1. incr' = [incr EXCEPT ![t].at = "store"]
    BY <1>1
  <2> QED  BY <1>0, <1>t, <2>1, ThreadSteps DEF Places
<1>5. laps' \in [BucketIds -> LapIds] /\ laps'[x] = y /\ \A b \in BucketIds : b # x => laps'[b] = laps[b]
  BY <1>0, <1>1 DEF CounterTypeOK
<1>6. /\ sum' \in Sums /\ sum'.at = sum.at /\ sum'.now = sum.now /\ sum'.next = sum.next
      /\ sum'.parts = sum.parts /\ sum'.least = sum.least
      /\ sum'.calm => sum.calm /\ ~(sum.at = "count" /\ sum.next = x)
  BY <1>0, <1>3, SumCalmer
<1>7. ASSUME NEW b \in BucketIds
      PROVE  /\ Under(b)' = Under(b)
             /\ b # x => Clearing(b)' = Clearing(b) /\ Stale(b)' = Stale(b)
  <2>1. /\ Clearing(b)' \ {t} = Clearing(b) \ {t} /\ Under(b)' \ {t} = Under(b) \ {t}
        /\ b # x => Stale(b)' \ {t} = Stale(b) \ {t}
    BY <1>4, <1>5, SetsMove
  <2>2. t \in Under(b)' <=> t \in Under(b)
    BY <1>t, <1>1, <1>4 DEF Under
  <2>3. Under(b)' = Under(b)
    BY <2>1, <2>2, SameSets
  <2>4. ASSUME b # x  PROVE Clearing(b)' = Clearing(b) /\ Stale(b)' = Stale(b)
    <3>1. t \notin Clearing(b) /\ t \notin Clearing(b)' /\ t \notin Stale(b) /\ t \notin Stale(b)'
      BY <1>t, <1>4, <2>4 DEF Clearing, Stale
    <3> QED  BY <2>1, <2>4, <3>1, SameSets
  <2> QED  BY <2>3, <2>4
<1>8. Clearing(x)' = Clearing(x) \cup {t} /\ t \notin Stale(x)'
  <2>1. Clearing(x)' \ {t} = Clearing(x) \ {t}
    BY <1>4, SetsMove
  <2>2. t \in Clearing(x)'
    BY <1>4 DEF Clearing
  <2>3. t \notin Clearing(x)
    BY <1>1 DEF Clearing
  <2>4. t \notin Stale(x)'
    BY <1>4, <1>5 DEF Stale
  <2> QED  BY <2>1, <2>2, <2>3, <2>4
<1>9. CounterTypeOK'
  <2>1. raced' \subseteq BucketIds
    BY <1>0, <1>2 DEF CounterTypeOK
  <2>2. incr' \in [CountThreads -> Locals] /\ laps' \in [BucketIds -> LapIds] /\ sum' \in Sums
    BY <1>4, <1>5, <1>6
  <2> QED  BY <1>0, <1>1, <2>1, <2>2 DEF CounterTypeOK, Locals, Sums
<1>10. Begun'
  BY <1>0, <1>1, <1>7, BegunKept
<1>11. LapsPast'
  <2>1. LapOf(elapsed)' = LapOf(elapsed)
    BY <1>1
  <2>2. \A u \in CountThreads : incr'[u].lap = incr[u].lap
    BY <1>t, <1>4
  <2>3. \A b \in BucketIds : laps'[b] <= LapOf(elapsed)
    BY <1>0, <1>t, <1>5 DEF LapsPast
  <2> QED  BY <1>0, <1>1, <1>6, <2>1, <2>2, <2>3 DEF LapsPast
<1>12. StaleBounded'
  <2> SUFFICES ASSUME NEW b \in BucketIds
               PROVE  /\ \E u \in CountThreads : u \notin Stale(b)'
                      /\ \A l \in LapIds : counted[b][l] <= counters[b]
                      /\ Clearing(b)' = {} =>
                           counters[b] - counted[b][laps'[b]] + Cardinality(Stale(b)') < Cardinality(CountThreads)
    BY <1>1 DEF StaleBounded
  <2>1. CASE b = x
    BY <1>0, <1>8, <2>1 DEF StaleBounded
  <2>2. CASE b # x
    BY <1>0, <1>5, <1>7, <2>2 DEF StaleBounded
  <2> QED  BY <2>1, <2>2
<1>13. CalmTrue'
  <2> SUFFICES ASSUME NEW b \in BucketIds, b \notin raced'
               PROVE  /\ Clearing(b)' = {} => counters[b] = landed[b][laps'[b]]
                      /\ Clearing(b)' # {} => landed[b][laps'[b]] = 0
                      /\ \A u, w \in Clearing(b)' : u = w
                      /\ \A l \in LapIds : l > laps'[b] => landed[b][l] = 0
    BY <1>1 DEF CalmTrue
  <2>1. CASE b = x
    <3>1. Clearing(x) = {} /\ \A l \in LapIds : l >= y => ~(landed[x][l] > 0)
      BY <1>2, <2>1
    <3>2. \A l \in LapIds : l \in Nat /\ landed[x][l] \in Nat
      BY <1>0, CounterNumbers
    <3>3. \A l \in LapIds : l >= y => landed[x][l] = 0
      BY <3>1, <3>2
    <3>4. landed[x][y] = 0 /\ \A l \in LapIds : l > y => landed[x][l] = 0
      BY <3>2, <3>3
    <3>5. Clearing(x)' = {t}
      BY <1>8, <3>1
    <3> QED  BY <1>5, <2>1, <3>4, <3>5
  <2>2. CASE b # x
    <3>1. b \notin raced
      BY <1>2, <2>2
    <3> QED  BY <1>0, <1>5, <1>7, <2>2, <3>1 DEF CalmTrue
  <2> QED  BY <2>1, <2>2
<1>14. SumTrue'
  <2>1. LapOf(elapsed)' = LapOf(elapsed) /\ LapOf(sum.now)' = LapOf(sum.now)
    BY <1>1, <1>6
  <2> SUFFICES ASSUME sum.at # "idle"
               PROVE  /\ \A b \in BucketIds : sum.least[b] <= landed[b][LapOf(sum.now)]
                      /\ sum'.calm => \A b \in BucketIds : b < sum.next =>
                           /\ sum.parts[b] <= landed[b][LapOf(sum.now)]
                           /\ LapOf(elapsed) = LapOf(sum.now) => sum.parts[b] >= sum.least[b]
                      /\ IF sum.at = "done" THEN sum.next = Buckets ELSE sum.next \in BucketIds
                      /\ \A b \in BucketIds : b >= sum.next => sum.parts[b] = 0
                      /\ sum.at = "count" /\ sum'.calm => laps'[sum.next] = LapOf(sum.now)
    BY <1>1, <1>6, <2>1 DEF SumTrue
  <2>2. /\ \A b \in BucketIds : sum.least[b] <= landed[b][LapOf(sum.now)]
        /\ sum.calm => \A b \in BucketIds : b < sum.next =>
              /\ sum.parts[b] <= landed[b][LapOf(sum.now)]
              /\ LapOf(elapsed) = LapOf(sum.now) => sum.parts[b] >= sum.least[b]
        /\ IF sum.at = "done" THEN sum.next = Buckets ELSE sum.next \in BucketIds
        /\ \A b \in BucketIds : b >= sum.next => sum.parts[b] = 0
        /\ sum.at = "count" /\ sum.calm => laps[sum.next] = LapOf(sum.now)
    BY <1>0 DEF SumTrue
  <2>3. sum.at = "count" /\ sum'.calm => laps'[sum.next] = LapOf(sum.now)
    BY <1>5, <1>6, <2>2
  <2>4. sum'.calm => sum.calm
    BY <1>6
  <2> QED  BY <2>2, <2>3, <2>4
<1> QED  BY <1>9, <1>10, <1>11, <1>12, <1>13, <1>14 DEF CounterInv

\* The increment clears the count of its bucket.
LEMMA StoreZeroOK ==
    ASSUME CounterInv, NEW t \in CountThreads, StoreZero(t)
    PROVE  CounterInv'
<1>0. CounterTypeOK /\ Begun /\ LapsPast /\ StaleBounded /\ CalmTrue /\ SumTrue
  BY DEF CounterInv
<1>t. PICK x \in BucketIds, y \in LapIds, z \in LapIds :
        incr[t].idx = x /\ incr[t].lap = y /\ incr[t].last = z
  BY <1>0, ThreadAt
<1>1. /\ incr[t].at = "store" /\ begun' = begun /\ elapsed' = elapsed
      /\ laps' = laps /\ sum' = sum /\ landed' = landed /\ raced' = raced
      /\ counters' = [counters EXCEPT ![x] = 0]
      /\ counted' = [counted EXCEPT ![x] = [l \in LapIds |-> 0]]
      /\ incr' = [incr EXCEPT ![t].at = "add"]
  BY <1>t DEF StoreZero
<1>n. MaxIncrs \in Nat /\ begun \in Nat
  BY <1>0, CounterNumbers
<1>4. /\ incr' \in [CountThreads -> Locals] /\ incr'[t].at = "add" /\ incr'[t].idx = x
      /\ incr'[t].lap = y /\ incr'[t].last = z
      /\ \A u \in CountThreads : u # t => incr'[u] = incr[u]
  <2>1. incr' = [incr EXCEPT ![t].at = "add"]
    BY <1>1
  <2> QED  BY <1>0, <1>t, <2>1, ThreadSteps DEF Places
<1>5. /\ counters' \in [BucketIds -> 0..MaxIncrs]
      /\ counters'[x] = 0 /\ \A b \in BucketIds : b # x => counters'[b] = counters[b]
  BY <1>0, <1>n, <1>1 DEF CounterTypeOK
<1>6. /\ counted' \in [BucketIds -> [LapIds -> 0..MaxIncrs]]
      /\ \A l \in LapIds : counted'[x][l] = 0
      /\ \A b \in BucketIds : b # x => counted'[b] = counted[b]
  <2>1. [l \in LapIds |-> 0] \in [LapIds -> 0..MaxIncrs]
    BY <1>n
  <2> QED  BY <1>0, <1>1, <2>1 DEF CounterTypeOK
<1>7. ASSUME NEW b \in BucketIds
      PROVE  /\ Under(b)' = Under(b) /\ Stale(b)' = Stale(b)
             /\ Under(b) \in SUBSET CountThreads /\ Stale(b) \in SUBSET CountThreads
             /\ b # x => Clearing(b)' = Clearing(b)
  <2>1. /\ Clearing(b)' \ {t} = Clearing(b) \ {t} /\ Under(b)' \ {t} = Under(b) \ {t}
        /\ Stale(b)' \ {t} = Stale(b) \ {t}
        /\ Under(b) \in SUBSET CountThreads /\ Stale(b) \in SUBSET CountThreads
    BY <1>1, <1>4, SetsMove
  <2>2. t \in Under(b)' <=> t \in Under(b)
    BY <1>t, <1>1, <1>4 DEF Under
  <2>3. t \in Stale(b)' <=> t \in Stale(b)
    BY <1>t, <1>1, <1>4 DEF Stale
  <2>4. Under(b)' = Under(b) /\ Stale(b)' = Stale(b)
    BY <2>1, <2>2, <2>3, SameSets
  <2>5. ASSUME b # x  PROVE Clearing(b)' = Clearing(b)
    <3>1. t \notin Clearing(b) /\ t \notin Clearing(b)'
      BY <1>t, <1>4, <2>5 DEF Clearing
    <3> QED  BY <2>1, <3>1, SameSets
  <2> QED  BY <2>1, <2>4, <2>5
<1>8. Clearing(x)' = Clearing(x) \ {t} /\ t \in Clearing(x)
  <2>1. Clearing(x)' \ {t} = Clearing(x) \ {t}
    BY <1>4, SetsMove
  <2>2. t \notin Clearing(x)'
    BY <1>4 DEF Clearing
  <2>3. t \in Clearing(x)
    BY <1>t, <1>1 DEF Clearing
  <2> QED  BY <2>1, <2>2, <2>3
<1>9. CounterTypeOK'
  BY <1>0, <1>1, <1>4, <1>5, <1>6 DEF CounterTypeOK, Locals
<1>10. Begun'
  <2> SUFFICES ASSUME NEW b \in BucketIds
               PROVE  /\ counters'[b] + Cardinality(Under(b)) <= begun
                      /\ \A l \in LapIds : /\ landed[b][l] + Cardinality(Under(b)) <= begun
                                           /\ counted'[b][l] + Cardinality(Under(b)) <= begun
    BY <1>1, <1>7 DEF Begun
  <2>1. PICK n \in Nat : Cardinality(Under(b)) = n
    BY <1>7, ThreadsFinite
  <2>2. /\ counters[b] + n <= begun
        /\ \A l \in LapIds : landed[b][l] + n <= begun /\ counted[b][l] + n <= begun
    BY <1>0, <2>1 DEF Begun
  <2>3. CASE b = x
    <3>1. counters[x] \in Nat
      BY <1>0, CounterNumbers
    <3>2. n <= begun
      BY <1>n, <2>2, <2>3, <3>1
    <3> QED  BY <1>n, <1>5, <1>6, <2>1, <2>2, <2>3, <3>2
  <2>4. CASE b # x
    BY <1>5, <1>6, <2>1, <2>2, <2>4
  <2> QED  BY <2>3, <2>4
<1>11. LapsPast'
  BY <1>0, <1>t, <1>1, <1>4, LapsStay
<1>12. StaleBounded'
  <2> SUFFICES ASSUME NEW b \in BucketIds
               PROVE  /\ \E u \in CountThreads : u \notin Stale(b)
                      /\ \A l \in LapIds : counted'[b][l] <= counters'[b]
                      /\ Clearing(b)' = {} =>
                           counters'[b] - counted'[b][laps[b]] + Cardinality(Stale(b)) < Cardinality(CountThreads)
    BY <1>1, <1>7 DEF StaleBounded
  <2>1. PICK u \in CountThreads : u \notin Stale(b)
    BY <1>0 DEF StaleBounded
  <2>2. CASE b = x
    <3>1. Cardinality(Stale(b)) < Cardinality(CountThreads) /\ Cardinality(Stale(b)) \in Nat
      BY <1>7, <2>1, ThreadsFinite, ThreadsFewer
    <3>2. laps[b] \in LapIds
      BY <1>0, CounterNumbers
    <3>3. counters'[b] = 0 /\ counted'[b][laps[b]] = 0 /\ \A l \in LapIds : counted'[b][l] = 0
      BY <1>5, <1>6, <2>2, <3>2
    <3> QED  BY <2>1, <3>1, <3>3
  <2>3. CASE b # x
    BY <1>0, <1>5, <1>6, <1>7, <2>3 DEF StaleBounded
  <2> QED  BY <2>2, <2>3
<1>13. CalmTrue'
  <2> SUFFICES ASSUME NEW b \in BucketIds, b \notin raced
               PROVE  /\ Clearing(b)' = {} => counters'[b] = landed[b][laps[b]]
                      /\ Clearing(b)' # {} => landed[b][laps[b]] = 0
                      /\ \A u, w \in Clearing(b)' : u = w
                      /\ \A l \in LapIds : l > laps[b] => landed[b][l] = 0
    BY <1>1 DEF CalmTrue
  <2>1. /\ Clearing(b) = {} => counters[b] = landed[b][laps[b]]
        /\ Clearing(b) # {} => landed[b][laps[b]] = 0
        /\ \A u, w \in Clearing(b) : u = w
        /\ \A l \in LapIds : l > laps[b] => landed[b][l] = 0
    BY <1>0 DEF CalmTrue
  <2>2. CASE b = x
    BY <1>5, <1>8, <2>1, <2>2
  <2>3. CASE b # x
    BY <1>5, <1>7, <2>1, <2>3
  <2> QED  BY <2>2, <2>3
<1>14. SumTrue'
  BY <1>0, <1>1, SumKept
<1> QED  BY <1>9, <1>10, <1>11, <1>12, <1>13, <1>14 DEF CounterInv

\* More events have landed.
LEMMA SumGrows ==
    ASSUME CounterTypeOK, CounterTypeOK', SumTrue, elapsed' = elapsed, sum' = sum, laps' = laps,
           \A b \in BucketIds : \A l \in LapIds : landed[b][l] <= landed'[b][l]
    PROVE  SumTrue'
<1>1. sum \in Sums
  BY CounterNumbers
<1>2. PICK l \in LapIds : LapOf(sum.now) = l
  BY <1>1, LapType DEF Sums
<1>3. LapOf(elapsed)' = LapOf(elapsed) /\ LapOf(sum.now)' = l
  BY <1>2
<1>4. \A b \in BucketIds : landed[b][l] \in Nat /\ landed'[b][l] \in Nat /\ landed[b][l] <= landed'[b][l]
  <2>1. \A b \in BucketIds : landed[b][l] \in 0..MaxIncrs /\ landed'[b][l] \in 0..MaxIncrs
    BY DEF CounterTypeOK
  <2>2. MaxIncrs \in Nat
    BY CounterAssumption
  <2> QED  BY <2>1, <2>2
<1>5. \A b \in BucketIds : sum.least[b] \in Nat /\ sum.parts[b] \in Nat
  <2>1. \A b \in BucketIds : sum.least[b] \in 0..MaxIncrs /\ sum.parts[b] \in 0..MaxIncrs
    BY <1>1 DEF Sums
  <2>2. MaxIncrs \in Nat
    BY CounterAssumption
  <2> QED  BY <2>1, <2>2
<1> SUFFICES ASSUME sum.at # "idle"
             PROVE  /\ \A b \in BucketIds : sum.least[b] <= landed'[b][l]
                    /\ sum.calm => \A b \in BucketIds : b < sum.next =>
                          /\ sum.parts[b] <= landed'[b][l]
                          /\ LapOf(elapsed) = l => sum.parts[b] >= sum.least[b]
                    /\ IF sum.at = "done" THEN sum.next = Buckets ELSE sum.next \in BucketIds
                    /\ \A b \in BucketIds : b >= sum.next => sum.parts[b] = 0
                    /\ sum.at = "count" /\ sum.calm => laps[sum.next] = l
  BY <1>3 DEF SumTrue
<1>6. /\ \A b \in BucketIds : sum.least[b] <= landed[b][l]
      /\ sum.calm => \A b \in BucketIds : b < sum.next =>
            /\ sum.parts[b] <= landed[b][l]
            /\ LapOf(elapsed) = l => sum.parts[b] >= sum.least[b]
      /\ IF sum.at = "done" THEN sum.next = Buckets ELSE sum.next \in BucketIds
      /\ \A b \in BucketIds : b >= sum.next => sum.parts[b] = 0
      /\ sum.at = "count" /\ sum.calm => laps[sum.next] = l
  BY <1>2 DEF SumTrue
<1>7. \A b \in BucketIds : sum.least[b] <= landed'[b][l]
  BY <1>4, <1>5, <1>6
<1>8. \A b \in BucketIds : sum.parts[b] <= landed[b][l] => sum.parts[b] <= landed'[b][l]
  BY <1>4, <1>5
<1> QED  BY <1>6, <1>7, <1>8

\* The increment counts its event.
LEMMA FetchAddOK ==
    ASSUME CounterInv, NEW t \in CountThreads, FetchAdd(t)
    PROVE  CounterInv'
<1>0. CounterTypeOK /\ Begun /\ LapsPast /\ StaleBounded /\ CalmTrue /\ SumTrue
  BY DEF CounterInv
<1>t. PICK x \in BucketIds, y \in LapIds, z \in LapIds :
        incr[t].idx = x /\ incr[t].lap = y /\ incr[t].last = z
  BY <1>0, ThreadAt
<1>1. /\ incr[t].at = "add" /\ begun' = begun /\ elapsed' = elapsed
      /\ laps' = laps /\ sum' = sum
      /\ counters' = [counters EXCEPT ![x] = counters[x] + 1]
      /\ landed' = [landed EXCEPT ![x] = [landed[x] EXCEPT ![y] = landed[x][y] + 1]]
      /\ counted' = [counted EXCEPT ![x] = [counted[x] EXCEPT ![y] = counted[x][y] + 1]]
      /\ incr' = [incr EXCEPT ![t].at = "idle"]
      /\ raced' = IF Clearing(x) # {} \/ laps[x] # y THEN raced \cup {x} ELSE raced
  BY <1>t DEF FetchAdd
<1>n. /\ MaxIncrs \in Nat /\ begun \in Nat /\ begun <= MaxIncrs
      /\ \A b \in BucketIds : /\ counters[b] \in Nat /\ laps[b] \in LapIds /\ laps[b] \in Nat
                              /\ \A l \in LapIds : landed[b][l] \in Nat /\ counted[b][l] \in Nat
  BY <1>0, CounterNumbers
<1>4. /\ incr' \in [CountThreads -> Locals] /\ incr'[t].at = "idle" /\ incr'[t].idx = x
      /\ incr'[t].lap = y /\ incr'[t].last = z
      /\ \A u \in CountThreads : u # t => incr'[u] = incr[u]
  <2>1. incr' = [incr EXCEPT ![t].at = "idle"]
    BY <1>1
  <2> QED  BY <1>0, <1>t, <2>1, ThreadSteps DEF Places
<1>5. ASSUME NEW b \in BucketIds
      PROVE  /\ Clearing(b)' = Clearing(b)
             /\ Under(b) \in SUBSET CountThreads /\ Stale(b) \in SUBSET CountThreads
             /\ b # x => Under(b)' = Under(b) /\ Stale(b)' = Stale(b)
  <2>1. /\ Clearing(b)' \ {t} = Clearing(b) \ {t} /\ Under(b)' \ {t} = Under(b) \ {t}
        /\ Stale(b)' \ {t} = Stale(b) \ {t}
        /\ Under(b) \in SUBSET CountThreads /\ Stale(b) \in SUBSET CountThreads
    BY <1>1, <1>4, SetsMove
  <2>2. t \notin Clearing(b) /\ t \notin Clearing(b)'
    BY <1>1, <1>4 DEF Clearing
  <2>3. ASSUME b # x  PROVE Under(b)' = Under(b) /\ Stale(b)' = Stale(b)
    <3>1. t \notin Under(b) /\ t \notin Under(b)' /\ t \notin Stale(b) /\ t \notin Stale(b)'
      BY <1>t, <1>4, <2>3 DEF Under, Stale
    <3> QED  BY <2>1, <3>1, SameSets
  <2>4. Clearing(b)' = Clearing(b)
    BY <2>1, <2>2, SameSets
  <2> QED  BY <2>1, <2>3, <2>4
<1>6. /\ Under(x)' = Under(x) \ {t} /\ t \in Under(x)
      /\ Stale(x)' = Stale(x) \ {t} /\ (t \in Stale(x) <=> y # laps[x])
  <2>1. Under(x)' \ {t} = Under(x) \ {t} /\ Stale(x)' \ {t} = Stale(x) \ {t}
    BY <1>1, <1>4, SetsMove
  <2>2. t \notin Under(x)' /\ t \notin Stale(x)'
    BY <1>4 DEF Under, Stale
  <2>3. t \in Under(x)
    BY <1>t, <1>1 DEF Under
  <2>4. t \in Stale(x) <=> y # laps[x]
    BY <1>t, <1>1 DEF Stale
  <2> QED  BY <2>1, <2>2, <2>3, <2>4
<1>7. PICK n \in Nat : /\ Cardinality(Under(x)) = n + 1 /\ Cardinality(Under(x)') = n
  <2>1. PICK S \in SUBSET CountThreads : S = Under(x)
    BY <1>5
  <2>2. IsFiniteSet(S)
    BY ThreadsFinite
  <2>3. t \in S
    BY <1>6, <2>1
  <2>4. IsFiniteSet(S \ {t}) /\ Cardinality(S \ {t}) = Cardinality(S) - 1
    BY <2>2, <2>3, FS_RemoveElement
  <2>5. Cardinality(S) \in Nat /\ Cardinality(S \ {t}) \in Nat
    BY <2>2, <2>4, FS_CardinalityType
  <2>6. Under(x)' = S \ {t} /\ Under(x) = S
    BY <1>6, <2>1
  <2>7. Cardinality(Under(x)') = Cardinality(S \ {t}) /\ Cardinality(Under(x)) = Cardinality(S)
    BY <2>6
  <2>8. Cardinality(Under(x)) = Cardinality(S \ {t}) + 1
    BY <2>4, <2>5, <2>7
  <2> QED  BY <2>5, <2>7, <2>8
<1>8. /\ counters[x] + n + 1 <= begun
      /\ \A l \in LapIds : landed[x][l] + n + 1 <= begun /\ counted[x][l] + n + 1 <= begun
  <2>1. /\ counters[x] + Cardinality(Under(x)) <= begun
        /\ \A l \in LapIds : /\ landed[x][l] + Cardinality(Under(x)) <= begun
                             /\ counted[x][l] + Cardinality(Under(x)) <= begun
    BY <1>0 DEF Begun
  <2> QED  BY <1>7, <1>n, <2>1
<1>9. /\ counters' \in [BucketIds -> 0..MaxIncrs]
      /\ counters'[x] = counters[x] + 1 /\ \A b \in BucketIds : b # x => counters'[b] = counters[b]
  <2>1. counters[x] + 1 \in 0..MaxIncrs
    BY <1>n, <1>8
  <2> QED  BY <1>0, <1>1, <2>1 DEF CounterTypeOK
<1>10. /\ landed' \in [BucketIds -> [LapIds -> 0..MaxIncrs]]
       /\ landed'[x][y] = landed[x][y] + 1 /\ \A l \in LapIds : l # y => landed'[x][l] = landed[x][l]
       /\ \A b \in BucketIds : b # x => landed'[b] = landed[b]
  <2>1. landed[x][y] + 1 \in 0..MaxIncrs
    BY <1>n, <1>8
  <2>2. landed \in [BucketIds -> [LapIds -> 0..MaxIncrs]]
    BY <1>0 DEF CounterTypeOK
  <2>3. PICK f \in [LapIds -> 0..MaxIncrs] : f = [landed[x] EXCEPT ![y] = landed[x][y] + 1]
    BY <2>1, <2>2
  <2>4. f[y] = landed[x][y] + 1 /\ \A l \in LapIds : l # y => f[l] = landed[x][l]
    BY <2>2, <2>3
  <2>5. landed' = [landed EXCEPT ![x] = f]
    BY <1>1, <2>3
  <2> QED  BY <2>2, <2>4, <2>5
<1>11. /\ counted' \in [BucketIds -> [LapIds -> 0..MaxIncrs]]
       /\ counted'[x][y] = counted[x][y] + 1 /\ \A l \in LapIds : l # y => counted'[x][l] = counted[x][l]
       /\ \A b \in BucketIds : b # x => counted'[b] = counted[b]
  <2>1. counted[x][y] + 1 \in 0..MaxIncrs
    BY <1>n, <1>8
  <2>2. counted \in [BucketIds -> [LapIds -> 0..MaxIncrs]]
    BY <1>0 DEF CounterTypeOK
  <2>3. PICK f \in [LapIds -> 0..MaxIncrs] : f = [counted[x] EXCEPT ![y] = counted[x][y] + 1]
    BY <2>1, <2>2
  <2>4. f[y] = counted[x][y] + 1 /\ \A l \in LapIds : l # y => f[l] = counted[x][l]
    BY <2>2, <2>3
  <2>5. counted' = [counted EXCEPT ![x] = f]
    BY <1>1, <2>3
  <2> QED  BY <2>2, <2>4, <2>5
<1>12. CounterTypeOK'
  <2>1. raced' \subseteq BucketIds
    BY <1>0, <1>1 DEF CounterTypeOK
  <2>2. /\ incr' \in [CountThreads -> Locals] /\ counters' \in [BucketIds -> 0..MaxIncrs]
        /\ landed' \in [BucketIds -> [LapIds -> 0..MaxIncrs]]
        /\ counted' \in [BucketIds -> [LapIds -> 0..MaxIncrs]]
        /\ elapsed' = elapsed /\ laps' = laps /\ sum' = sum /\ begun' = begun
    BY <1>1, <1>4, <1>9, <1>10, <1>11
  <2> QED  BY <1>0, <2>1, <2>2 DEF CounterTypeOK, Locals
<1>13. Begun'
  <2> SUFFICES ASSUME NEW b \in BucketIds
               PROVE  /\ counters'[b] + Cardinality(Under(b)') <= begun
                      /\ \A l \in LapIds : /\ landed'[b][l] + Cardinality(Under(b)') <= begun
                                           /\ counted'[b][l] + Cardinality(Under(b)') <= begun
    BY <1>1 DEF Begun
  <2>1. CASE b = x
    <3>1. counters'[x] + n <= begun
      BY <1>n, <1>8, <1>9
    <3>2. ASSUME NEW l \in LapIds  PROVE landed'[x][l] + n <= begun /\ counted'[x][l] + n <= begun
      BY <1>n, <1>8, <1>10, <1>11
    <3> QED  BY <1>7, <2>1, <3>1, <3>2
  <2>2. CASE b # x
    BY <1>0, <1>5, <1>9, <1>10, <1>11, <2>2 DEF Begun
  <2> QED  BY <2>1, <2>2
<1>14. LapsPast'
  BY <1>0, <1>t, <1>1, <1>4, LapsStay
<1>15. StaleBounded'
  <2> SUFFICES ASSUME NEW b \in BucketIds
               PROVE  /\ \E u \in CountThreads : u \notin Stale(b)'
                      /\ \A l \in LapIds : counted'[b][l] <= counters'[b]
                      /\ Clearing(b)' = {} =>
                           counters'[b] - counted'[b][laps[b]] + Cardinality(Stale(b)') < Cardinality(CountThreads)
    BY <1>1 DEF StaleBounded
  <2>1. CASE b = x
    <3>0. /\ \E u \in CountThreads : u \notin Stale(x)
          /\ \A l \in LapIds : counted[x][l] <= counters[x]
          /\ Clearing(x) = {} =>
               counters[x] - counted[x][laps[x]] + Cardinality(Stale(x)) < Cardinality(CountThreads)
      BY <1>0 DEF StaleBounded
    <3>1. \E u \in CountThreads : u \notin Stale(x)'
      BY <1>6, <3>0
    <3>2. \A l \in LapIds : counted'[x][l] <= counters'[x]
      BY <1>n, <1>9, <1>11, <3>0
    <3>3. PICK S \in SUBSET CountThreads : S = Stale(x)
      BY <1>5
    <3>4. IsFiniteSet(S) /\ Cardinality(S) \in Nat /\ Cardinality(CountThreads) \in Nat
      BY ThreadsFinite
    <3>5. CASE y = laps[x]
      <4>1. Stale(x)' = Stale(x)
        BY <1>6, <3>5
      <4>2. counters'[x] - counted'[x][laps[x]] = counters[x] - counted[x][laps[x]]
        <5>1. PICK p \in Nat, q \in Nat : counters[x] = p /\ counted[x][y] = q
          BY <1>n
        <5>2. counters'[x] = p + 1 /\ counted'[x][y] = q + 1
          BY <1>9, <1>11, <5>1
        <5>3. (p + 1) - (q + 1) = p - q
          OBVIOUS
        <5> QED  BY <3>5, <5>1, <5>2, <5>3
      <4> QED  BY <1>5, <2>1, <3>0, <3>1, <3>2, <4>1, <4>2
    <3>6. CASE y # laps[x]
      <4>1. t \in S
        BY <1>6, <3>3, <3>6
      <4>2. Cardinality(S \ {t}) = Cardinality(S) - 1
        BY <3>4, <4>1, FS_RemoveElement
      <4>3. Stale(x)' = S \ {t}
        BY <1>6, <3>3
      <4>4. Cardinality(Stale(x)') = Cardinality(S) - 1
        BY <4>2, <4>3
      <4>5. counters'[x] = counters[x] + 1 /\ counted'[x][laps[x]] = counted[x][laps[x]]
        BY <1>n, <1>9, <1>11, <3>6
      <4>6. counters'[x] - counted'[x][laps[x]] + Cardinality(Stale(x)')
                = counters[x] - counted[x][laps[x]] + Cardinality(S)
        BY <1>n, <3>4, <4>4, <4>5
      <4> QED  BY <1>5, <2>1, <3>0, <3>1, <3>2, <3>3, <4>6
    <3> QED  BY <3>5, <3>6
  <2>2. CASE b # x
    BY <1>0, <1>5, <1>9, <1>11, <2>2 DEF StaleBounded
  <2> QED  BY <2>1, <2>2
<1>16. CalmTrue'
  <2> SUFFICES ASSUME NEW b \in BucketIds, b \notin raced'
               PROVE  /\ Clearing(b) = {} => counters'[b] = landed'[b][laps[b]]
                      /\ Clearing(b) # {} => landed'[b][laps[b]] = 0
                      /\ \A u, w \in Clearing(b) : u = w
                      /\ \A l \in LapIds : l > laps[b] => landed'[b][l] = 0
    BY <1>1, <1>5 DEF CalmTrue
  <2>1. b \notin raced
    BY <1>1
  <2>2. /\ Clearing(b) = {} => counters[b] = landed[b][laps[b]]
        /\ Clearing(b) # {} => landed[b][laps[b]] = 0
        /\ \A u, w \in Clearing(b) : u = w
        /\ \A l \in LapIds : l > laps[b] => landed[b][l] = 0
    BY <1>0, <2>1 DEF CalmTrue
  <2>3. CASE b = x
    <3>1. Clearing(x) = {} /\ laps[x] = y
      BY <1>1, <2>3
    <3>2. counters'[x] = landed'[x][y]
      BY <1>9, <1>10, <2>2, <2>3, <3>1
    <3>3. \A l \in LapIds : l > y => l # y
      BY CounterLapNat
    <3>4. \A l \in LapIds : l > y => landed'[x][l] = 0
      BY <1>10, <2>2, <2>3, <3>1, <3>3
    <3> QED  BY <2>3, <3>1, <3>2, <3>4
  <2>4. CASE b # x
    BY <1>9, <1>10, <2>2, <2>4
  <2> QED  BY <2>3, <2>4
<1>17. SumTrue'
  <2>1. \A b \in BucketIds : \A l \in LapIds : landed[b][l] <= landed'[b][l]
    <3>1. \A l \in LapIds : landed[x][l] <= landed'[x][l]
      BY <1>n, <1>10
    <3>2. \A b \in BucketIds : b # x => \A l \in LapIds : landed[b][l] <= landed'[b][l]
      BY <1>n, <1>10
    <3> QED  BY <3>1, <3>2
  <2> QED  BY <1>0, <1>1, <1>12, <2>1, SumGrows
<1> QED  BY <1>12, <1>13, <1>14, <1>15, <1>16, <1>17 DEF CounterInv

\* The bounds of the total's locals.
LEMMA SumAt ==
    ASSUME CounterTypeOK
    PROVE  \E l \in LapIds : LapOf(sum.now) = l /\ l \in Nat
<1>1. sum \in Sums
  BY CounterNumbers
<1>2. LapOf(sum.now) \in LapIds
  BY <1>1, LapType DEF Sums
<1> QED  BY <1>2, CounterLapNat

\* The total writes nothing.
LEMMA TotalReads ==
    ASSUME CounterInv, SumTrue', sum' \in Sums, sum'.now <= elapsed,
           UNCHANGED <<elapsed, counters, laps, incr, begun, landed, counted, raced>>
    PROVE  CounterInv'
<1>0. CounterTypeOK /\ Begun /\ LapsPast /\ StaleBounded /\ CalmTrue /\ SumTrue
  BY DEF CounterInv
<1>1. /\ elapsed' = elapsed /\ counters' = counters /\ laps' = laps /\ incr' = incr
      /\ begun' = begun /\ landed' = landed /\ counted' = counted /\ raced' = raced
  OBVIOUS
<1>2. CounterTypeOK'
  BY <1>0, <1>1 DEF CounterTypeOK, Sums
<1>3. \A b \in BucketIds : Under(b)' = Under(b) /\ Clearing(b)' = Clearing(b) /\ Stale(b)' = Stale(b)
  BY <1>1 DEF Under, Clearing, Stale
<1>4. Begun'
  BY <1>0, <1>1, <1>3, BegunKept
<1>5. LapsPast'
  BY <1>0, <1>1 DEF LapsPast
<1>6. StaleBounded' /\ CalmTrue'
  BY <1>0, <1>1, <1>3, StaleKept
<1> QED  BY <1>2, <1>4, <1>5, <1>6 DEF CounterInv

\* A total begins.
LEMMA StartTotalOK ==
    ASSUME CounterInv, StartTotal
    PROVE  CounterInv'
<1>0. CounterTypeOK /\ Begun /\ LapsPast /\ StaleBounded /\ CalmTrue /\ SumTrue
  BY DEF CounterInv
<1>n. elapsed \in Nat /\ MaxIncrs \in Nat /\ Buckets \in Nat /\ Buckets >= 1
  BY <1>0, CounterNumbers
<1>1. elapsed \in 0..MaxBuckets
  BY <1>0 DEF CounterTypeOK
<1>2. PICK l \in LapIds : LapOf(elapsed) = l
  BY <1>1, LapType
<1>3. PICK f \in [BucketIds -> 0..MaxIncrs] : f = [b \in BucketIds |-> landed[b][l]]
  <2>1. \A b \in BucketIds : landed[b][l] \in 0..MaxIncrs
    BY <1>0 DEF CounterTypeOK
  <2> QED  BY <2>1
<1>4. PICK g \in [BucketIds -> 0..MaxIncrs] : g = [b \in BucketIds |-> 0]
  <2>1. 0 \in 0..MaxIncrs
    BY <1>n
  <2> QED  BY <2>1
<1>5. sum' = [at |-> "lap", now |-> elapsed, next |-> 0, parts |-> g, calm |-> TRUE, least |-> f]
  BY <1>2, <1>3, <1>4 DEF StartTotal
<1>6. /\ sum'.at = "lap" /\ sum'.now = elapsed /\ sum'.next = 0 /\ sum'.parts = g /\ sum'.least = f
  BY <1>5
<1>7. sum' \in Sums
  <2>1. 0 \in 0..Buckets
    BY <1>n
  <2> QED  BY <1>1, <1>5, <2>1 DEF Sums
<1>8. elapsed' = elapsed /\ landed' = landed
  BY DEF StartTotal
<1>9. SumTrue'
  <2>1. LapOf(sum.now)' = l
    BY <1>2, <1>6
  <2>2. \A b \in BucketIds : f[b] <= landed[b][l]
    <3>1. \A b \in BucketIds : landed[b][l] \in Nat
      BY <1>0, CounterNumbers
    <3> QED  BY <1>3, <3>1
  <2>3. \A b \in BucketIds : ~(b < 0)
    BY <1>n DEF BucketIds
  <2>4. 0 \in BucketIds
    BY <1>n DEF BucketIds
  <2>5. \A b \in BucketIds : g[b] = 0
    BY <1>4
  <2> QED  BY <1>6, <1>8, <2>1, <2>2, <2>3, <2>4, <2>5 DEF SumTrue
<1>10. sum'.now <= elapsed
  BY <1>n, <1>6
<1> QED  BY <1>7, <1>9, <1>10, TotalReads DEF StartTotal

\* What the invariant says of a total under way.
Summed(s, l, calm) ==
    /\ \A b \in BucketIds : s.least[b] <= landed[b][l]
    /\ calm => \A b \in BucketIds : b < s.next =>
          /\ s.parts[b] <= landed[b][l]
          /\ LapOf(elapsed) = l => s.parts[b] >= s.least[b]
    /\ \A b \in BucketIds : b >= s.next => s.parts[b] = 0

\* The total finds the bucket in its lap and is about to load its count.
LEMMA TotalEntersOK ==
    ASSUME CounterInv, TotalLoadLap, laps[sum.next] = LapOf(sum.now)
    PROVE  CounterInv'
<1>0. CounterTypeOK /\ Begun /\ LapsPast /\ StaleBounded /\ CalmTrue /\ SumTrue
  BY DEF CounterInv
<1> DEFINE c == sum.calm /\ Calm(sum.next)
<1>1. sum \in Sums /\ c \in BOOLEAN /\ sum.at = "lap"
  BY <1>0, CounterNumbers DEF TotalLoadLap
<1>2. sum' = [sum EXCEPT !.at = "count", !.calm = c]
  BY DEF TotalLoadLap
<1>3. /\ elapsed' = elapsed /\ laps' = laps /\ landed' = landed
  BY DEF TotalLoadLap
<1>c. c => sum.calm
  OBVIOUS
<1> HIDE DEF c
<1>4. /\ sum' \in Sums /\ sum'.at = "count" /\ sum'.now = sum.now /\ sum'.next = sum.next
      /\ sum'.parts = sum.parts /\ sum'.least = sum.least
  BY <1>1, <1>2 DEF Sums
<1>5. sum'.calm = c
  BY <1>1, <1>2 DEF Sums
<1>6. LapOf(sum.now)' = LapOf(sum.now) /\ LapOf(elapsed)' = LapOf(elapsed)
  BY <1>3, <1>4
<1>7. /\ Summed(sum, LapOf(sum.now), sum.calm) /\ sum.next \in BucketIds
  BY <1>0, <1>1 DEF SumTrue, Summed
<1>8. SumTrue'
  <2> SUFFICES /\ \A b \in BucketIds : sum.least[b] <= landed[b][LapOf(sum.now)]
               /\ c => \A b \in BucketIds : b < sum.next =>
                     /\ sum.parts[b] <= landed[b][LapOf(sum.now)]
                     /\ LapOf(elapsed) = LapOf(sum.now) => sum.parts[b] >= sum.least[b]
               /\ sum.next \in BucketIds
               /\ \A b \in BucketIds : b >= sum.next => sum.parts[b] = 0
               /\ laps[sum.next] = LapOf(sum.now)
    BY <1>3, <1>4, <1>5, <1>6 DEF SumTrue
  <2> QED  BY <1>c, <1>7 DEF Summed
<1>9. sum'.now <= elapsed
  BY <1>0, <1>4 DEF LapsPast
<1> QED  BY <1>4, <1>8, <1>9, TotalReads DEF TotalLoadLap

\* The total goes on to the next bucket, having added v for this one.
LEMMA SumMovesOn ==
    ASSUME CounterTypeOK, SumTrue, sum.at \in {"lap", "count"}, sum' \in Sums,
           sum'.at = After(sum.next + 1), sum'.now = sum.now, sum'.next = sum.next + 1,
           sum'.least = sum.least, NEW v,
           \A b \in BucketIds : sum'.parts[b] = IF b = sum.next THEN v ELSE sum.parts[b],
           sum'.calm => sum.calm,
           sum'.calm => /\ v <= landed[sum.next][LapOf(sum.now)]
                        /\ LapOf(elapsed) = LapOf(sum.now) => v >= sum.least[sum.next],
           elapsed' = elapsed, laps' = laps, landed' = landed
    PROVE  SumTrue'
<1>n. Buckets \in Nat /\ BucketIds = 0..Buckets - 1
  BY CounterAssumption DEF BucketIds
<1>1. PICK k \in BucketIds : sum.next = k
  BY DEF SumTrue
<1>2. PICK l \in LapIds : LapOf(sum.now) = l
  BY SumAt
<1>3. Summed(sum, l, sum.calm)
  BY <1>2 DEF SumTrue, Summed
<1>4. LapOf(sum.now)' = l /\ LapOf(elapsed)' = LapOf(elapsed)
  BY <1>2
<1>5. /\ sum'.at = IF k + 1 = Buckets THEN "done" ELSE "lap"
      /\ sum'.next = k + 1 /\ k \in Nat /\ k <= Buckets - 1
  BY <1>n, <1>1 DEF After
<1>6. IF sum'.at = "done" THEN sum'.next = Buckets ELSE sum'.next \in BucketIds
  BY <1>n, <1>5
<1>7. sum'.at # "idle" /\ sum'.at # "count"
  BY <1>5
<1>8. \A b \in BucketIds : b >= k + 1 => sum'.parts[b] = 0
  <2>1. \A b \in BucketIds : b >= k + 1 => b # k /\ b >= k
    BY <1>n, <1>5
  <2> QED  BY <1>1, <1>3, <2>1 DEF Summed
<1>9. ASSUME sum'.calm, NEW b \in BucketIds, b < k + 1
      PROVE  /\ sum'.parts[b] <= landed[b][l]
             /\ LapOf(elapsed) = l => sum'.parts[b] >= sum.least[b]
  <2>1. b = k \/ b < k
    BY <1>n, <1>5, <1>9
  <2>2. CASE b = k
    BY <1>1, <1>2, <1>9, <2>2
  <2>3. CASE b # k
    <3>1. sum'.parts[b] = sum.parts[b]
      BY <1>1, <2>3
    <3> QED  BY <1>1, <1>3, <1>9, <2>1, <2>3, <3>1 DEF Summed
  <2> QED  BY <2>2, <2>3
<1>10. \A b \in BucketIds : sum.least[b] <= landed[b][l]
  BY <1>3 DEF Summed
<1> QED  BY <1>4, <1>5, <1>6, <1>7, <1>8, <1>9, <1>10 DEF SumTrue

\* The bucket is of another lap: it has no event of the lap of the total, if no increment
\* met a change of its lap.
LEMMA TotalSkipsOK ==
    ASSUME CounterInv, TotalLoadLap, laps[sum.next] # LapOf(sum.now)
    PROVE  CounterInv'
<1>0. CounterTypeOK /\ Begun /\ LapsPast /\ StaleBounded /\ CalmTrue /\ SumTrue
  BY DEF CounterInv
<1> DEFINE c == sum.calm /\ Calm(sum.next)
<1>1. sum \in Sums /\ c \in BOOLEAN /\ sum.at = "lap"
  BY <1>0, CounterNumbers DEF TotalLoadLap
<1>2. sum' = [sum EXCEPT !.at = After(sum.next + 1), !.next = sum.next + 1, !.calm = c]
  BY DEF TotalLoadLap
<1>3. /\ elapsed' = elapsed /\ laps' = laps /\ landed' = landed
  BY DEF TotalLoadLap
<1>c. c => sum.calm /\ sum.next \notin raced
  BY DEF Calm
<1> HIDE DEF c
<1>4. PICK k \in BucketIds : sum.next = k
  BY <1>0, <1>1 DEF SumTrue
<1>5. sum.next + 1 \in 0..Buckets /\ After(sum.next + 1) \in {"lap", "done"}
  BY <1>4, CounterAssumption DEF BucketIds, After
<1>6. /\ sum' \in Sums /\ sum'.at = After(sum.next + 1) /\ sum'.now = sum.now
      /\ sum'.next = sum.next + 1 /\ sum'.parts = sum.parts /\ sum'.least = sum.least
  <2>1. PICK a \in {"lap", "done"}, m \in 0..Buckets : After(sum.next + 1) = a /\ sum.next + 1 = m
    BY <1>5
  <2>2. sum' = [sum EXCEPT !.at = a, !.next = m, !.calm = c]
    BY <1>2, <2>1
  <2>3. /\ sum' \in Sums /\ sum'.at = a /\ sum'.now = sum.now
        /\ sum'.next = m /\ sum'.parts = sum.parts /\ sum'.least = sum.least
    BY <1>1, <2>2 DEF Sums
  <2> QED  BY <2>1, <2>3
<1>7. sum'.calm = c
  BY <1>1, <1>2 DEF Sums
<1>8. PICK l \in LapIds : LapOf(sum.now) = l /\ l \in Nat
  BY <1>0, SumAt
<1>9. sum.parts[k] = 0
  <2>1. k >= k
    BY <1>0, CounterNumbers
  <2> QED  BY <1>0, <1>1, <1>4, <2>1 DEF SumTrue
<1>10. ASSUME c
       PROVE  /\ 0 <= landed[k][l] /\ (LapOf(elapsed) = l => 0 >= sum.least[k])
  <2>1. landed[k][l] \in Nat /\ laps[k] \in Nat
    BY <1>0, CounterNumbers
  <2>2. ASSUME LapOf(elapsed) = l  PROVE landed[k][l] = 0
    <3>1. laps[k] <= l /\ laps[k] # l
      BY <1>0, <1>4, <1>8, <2>2 DEF LapsPast
    <3>2. l > laps[k]
      BY <1>8, <2>1, <3>1
    <3> QED  BY <1>0, <1>c, <1>4, <1>10, <3>2 DEF CalmTrue
  <2>3. sum.least[k] <= landed[k][l]
    BY <1>0, <1>1, <1>8 DEF SumTrue
  <2> QED  BY <2>1, <2>2, <2>3
<1>11. SumTrue'
  <2>1. \A b \in BucketIds : sum'.parts[b] = IF b = sum.next THEN 0 ELSE sum.parts[b]
    BY <1>4, <1>6, <1>9
  <2>2. sum'.calm => /\ 0 <= landed[sum.next][LapOf(sum.now)]
                     /\ LapOf(elapsed) = LapOf(sum.now) => 0 >= sum.least[sum.next]
    BY <1>4, <1>7, <1>8, <1>10
  <2>3. sum'.calm => sum.calm
    BY <1>c, <1>7
  <2>4. sum.at \in {"lap", "count"}
    BY <1>1
  <2> QED  BY <1>0, <1>3, <1>6, <2>1, <2>2, <2>3, <2>4, SumMovesOn
<1>12. sum'.now <= elapsed
  BY <1>0, <1>6 DEF LapsPast
<1> QED  BY <1>6, <1>11, <1>12, TotalReads DEF TotalLoadLap

\* The total loads the count of a bucket of its lap.
LEMMA TotalLoadCountOK ==
    ASSUME CounterInv, TotalLoadCount
    PROVE  CounterInv'
<1>0. CounterTypeOK /\ Begun /\ LapsPast /\ StaleBounded /\ CalmTrue /\ SumTrue
  BY DEF CounterInv
<1> DEFINE c == sum.calm /\ Calm(sum.next)
<1>1. sum \in Sums /\ c \in BOOLEAN /\ sum.at = "count"
  BY <1>0, CounterNumbers DEF TotalLoadCount
<1>c. c => sum.calm /\ sum.next \notin raced /\ Clearing(sum.next) = {}
  BY DEF Calm
<1>4. PICK k \in BucketIds : sum.next = k
  BY <1>0, <1>1 DEF SumTrue
<1>v. PICK v \in 0..MaxIncrs : counters[k] = v
  BY <1>0 DEF CounterTypeOK
<1>p. PICK parts \in [BucketIds -> 0..MaxIncrs] : parts = [sum.parts EXCEPT ![k] = v]
  <2>1. sum.parts \in [BucketIds -> 0..MaxIncrs]
    BY <1>1 DEF Sums
  <2> QED  BY <2>1
<1>q. \A b \in BucketIds : parts[b] = IF b = k THEN v ELSE sum.parts[b]
  <2>1. sum.parts \in [BucketIds -> 0..MaxIncrs]
    BY <1>1 DEF Sums
  <2> QED  BY <1>p, <2>1
<1>2. sum' = [sum EXCEPT !.at = After(sum.next + 1), !.next = sum.next + 1, !.parts = parts, !.calm = c]
  BY <1>4, <1>v, <1>p DEF TotalLoadCount
<1>3. /\ elapsed' = elapsed /\ laps' = laps /\ landed' = landed
  BY DEF TotalLoadCount
<1> HIDE DEF c
<1>5. sum.next + 1 \in 0..Buckets /\ After(sum.next + 1) \in {"lap", "done"}
  BY <1>4, CounterAssumption DEF BucketIds, After
<1>6. /\ sum' \in Sums /\ sum'.at = After(sum.next + 1) /\ sum'.now = sum.now
      /\ sum'.next = sum.next + 1 /\ sum'.parts = parts /\ sum'.least = sum.least
  <2>1. PICK a \in {"lap", "done"}, m \in 0..Buckets : After(sum.next + 1) = a /\ sum.next + 1 = m
    BY <1>5
  <2>2. sum' = [sum EXCEPT !.at = a, !.next = m, !.parts = parts, !.calm = c]
    BY <1>2, <2>1
  <2>3. /\ sum' \in Sums /\ sum'.at = a /\ sum'.now = sum.now
        /\ sum'.next = m /\ sum'.parts = parts /\ sum'.least = sum.least
    BY <1>1, <2>2 DEF Sums
  <2> QED  BY <2>1, <2>3
<1>7. sum'.calm = c
  BY <1>1, <1>2 DEF Sums
<1>8. PICK l \in LapIds : LapOf(sum.now) = l /\ l \in Nat
  BY <1>0, SumAt
<1>10. ASSUME c
       PROVE  v <= landed[k][l] /\ v >= sum.least[k]
  <2>1. landed[k][l] \in Nat
    BY <1>0, CounterNumbers
  <2>2. laps[k] = l
    BY <1>0, <1>1, <1>c, <1>4, <1>8, <1>10 DEF SumTrue
  <2>3. v = landed[k][l]
    BY <1>0, <1>c, <1>4, <1>v, <1>10, <2>2 DEF CalmTrue
  <2>4. sum.least[k] <= landed[k][l]
    BY <1>0, <1>1, <1>8 DEF SumTrue
  <2>5. sum.least[k] \in 0..MaxIncrs
    BY <1>1 DEF Sums
  <2>6. sum.least[k] \in Nat
    BY <2>5, CounterAssumption
  <2> QED  BY <2>1, <2>3, <2>4, <2>6
<1>11. SumTrue'
  <2>1. \A b \in BucketIds : sum'.parts[b] = IF b = sum.next THEN v ELSE sum.parts[b]
    BY <1>4, <1>6, <1>q
  <2>2. sum'.calm => /\ v <= landed[sum.next][LapOf(sum.now)]
                     /\ LapOf(elapsed) = LapOf(sum.now) => v >= sum.least[sum.next]
    BY <1>4, <1>7, <1>8, <1>10
  <2>3. sum'.calm => sum.calm
    BY <1>c, <1>7
  <2>4. sum.at \in {"lap", "count"}
    BY <1>1
  <2> QED  BY <1>0, <1>3, <1>6, <2>1, <2>2, <2>3, <2>4, SumMovesOn
<1>12. sum'.now <= elapsed
  BY <1>0, <1>6 DEF LapsPast
<1> QED  BY <1>6, <1>11, <1>12, TotalReads DEF TotalLoadCount

\* Time passes: the lap of a total that is over stays over.
LEMMA ElapseOK ==
    ASSUME CounterInv, Elapse
    PROVE  CounterInv'
<1>0. CounterTypeOK /\ Begun /\ LapsPast /\ StaleBounded /\ CalmTrue /\ SumTrue
  BY DEF CounterInv
<1>1. /\ elapsed < MaxBuckets /\ elapsed' = elapsed + 1 /\ counters' = counters /\ laps' = laps
      /\ incr' = incr /\ sum' = sum /\ begun' = begun /\ landed' = landed
      /\ counted' = counted /\ raced' = raced
  BY DEF Elapse
<1>n. elapsed \in Nat /\ MaxBuckets \in Nat
  BY <1>0, CounterNumbers, CounterAssumption
<1>2. CounterTypeOK'
  <2>1. elapsed' \in 0..MaxBuckets
    BY <1>n, <1>1
  <2> QED  BY <1>0, <1>1, <2>1 DEF CounterTypeOK
<1>3. \A b \in BucketIds : Under(b)' = Under(b) /\ Clearing(b)' = Clearing(b) /\ Stale(b)' = Stale(b)
  BY <1>1 DEF Under, Clearing, Stale
<1>4. Begun' /\ StaleBounded' /\ CalmTrue'
  BY <1>0, <1>1, <1>3, BegunKept, StaleKept
<1>5. PICK p \in Nat, q \in Nat : LapOf(elapsed) = p /\ LapOf(elapsed)' = q /\ p <= q
  <2>1. elapsed + 1 \in Nat /\ elapsed <= elapsed + 1
    BY <1>n
  <2>2. LapOf(elapsed) \in Nat /\ LapOf(elapsed + 1) \in Nat /\ LapOf(elapsed) <= LapOf(elapsed + 1)
    BY <1>n, <2>1, LapGrows
  <2>3. LapOf(elapsed)' = LapOf(elapsed + 1)
    BY <1>1 DEF LapOf
  <2> QED  BY <2>2, <2>3
<1>6. PICK m \in Nat, l \in Nat : sum.now = m /\ m <= elapsed /\ LapOf(sum.now) = l /\ l <= p
  <2>1. sum \in Sums
    BY <1>0, CounterNumbers
  <2>2. sum.now \in Nat /\ sum.now <= elapsed
    BY <1>0, <1>n, <2>1 DEF Sums, LapsPast
  <2> QED  BY <1>n, <1>5, <2>2, LapGrows
<1>7. LapsPast'
  <2>1. \A b \in BucketIds : laps[b] \in Nat /\ laps[b] <= p
    BY <1>0, <1>5, CounterNumbers DEF LapsPast
  <2>2. \A u \in CountThreads : incr[u].lap \in Nat /\ incr[u].lap <= p
    <3>1. \A u \in CountThreads : incr[u].lap \in LapIds
      BY <1>0, CounterNumbers DEF Locals
    <3> QED  BY <1>0, <1>5, <3>1, CounterLapNat DEF LapsPast
  <2>3. \A b \in BucketIds : laps[b] <= q
    BY <1>5, <2>1
  <2>4. \A u \in CountThreads : incr[u].lap <= q
    BY <1>5, <2>2
  <2>5. sum.now <= elapsed + 1
    BY <1>n, <1>6
  <2> QED  BY <1>1, <1>5, <2>3, <2>4, <2>5 DEF LapsPast
<1>8. SumTrue'
  <2>1. q = l => p = l
    BY <1>5, <1>6
  <2>2. LapOf(sum.now)' = l
    BY <1>1, <1>6
  <2> QED  BY <1>0, <1>1, <1>5, <1>6, <2>1, <2>2 DEF SumTrue
<1> QED  BY <1>2, <1>4, <1>7, <1>8 DEF CounterInv

\* Nothing has been counted.
LEMMA CounterStarts == CounterInit => CounterInv
<1> SUFFICES ASSUME CounterInit  PROVE CounterInv
  OBVIOUS
<1>1. /\ elapsed = 0 /\ begun = 0 /\ raced = {}
      /\ counters = [b \in BucketIds |-> 0] /\ laps = [b \in BucketIds |-> 0]
      /\ incr = [t \in CountThreads |-> [at |-> "idle", idx |-> 0, lap |-> 0, last |-> 0]]
      /\ landed = [b \in BucketIds |-> [l \in LapIds |-> 0]] /\ counted = landed
  BY DEF CounterInit
<1>2. sum = [at |-> "idle", now |-> 0, next |-> 0, parts |-> counters, calm |-> TRUE, least |-> counters]
  BY DEF CounterInit
<1>3. /\ 0 \in 0..MaxIncrs /\ 0 \in 0..MaxBuckets /\ 0 \in 0..Buckets
      /\ 0 \in BucketIds /\ 0 \in LapIds
  <2>1. 0 \in 0..MaxIncrs /\ 0 \in 0..MaxBuckets /\ 0 \in 0..Buckets /\ 0 \in BucketIds
    BY CounterAssumption DEF BucketIds
  <2>2. LapOf(MaxBuckets) \in Nat
    BY CounterAssumption, LapGrows
  <2> QED  BY <2>1, <2>2 DEF LapIds, LapOf
<1>4. /\ counters \in [BucketIds -> 0..MaxIncrs] /\ laps \in [BucketIds -> LapIds]
      /\ landed \in [BucketIds -> [LapIds -> 0..MaxIncrs]]
  BY <1>1, <1>3
<1>5. incr \in [CountThreads -> Locals]
  BY <1>1, <1>3 DEF Locals
<1>6. sum \in Sums
  BY <1>2, <1>3, <1>4 DEF Sums
<1>7. CounterTypeOK
  BY <1>1, <1>3, <1>4, <1>5, <1>6 DEF CounterTypeOK, Locals, Sums
<1>8. \A t \in CountThreads : incr[t].at = "idle" /\ incr[t].lap = 0
  BY <1>1
<1>9. \A b \in BucketIds : Under(b) = {} /\ Clearing(b) = {} /\ Stale(b) = {}
  BY <1>8 DEF Under, Clearing, Stale
<1>10. Cardinality({}) = 0
  BY FS_EmptySet
<1>11. \A b \in BucketIds : /\ counters[b] = 0 /\ laps[b] = 0
                            /\ \A l \in LapIds : landed[b][l] = 0 /\ counted[b][l] = 0
  BY <1>1
<1>12. Begun
  BY <1>1, <1>9, <1>10, <1>11 DEF Begun
<1>13. LapsPast
  <2>1. LapOf(elapsed) \in Nat
    BY <1>1, LapGrows
  <2> QED  BY <1>1, <1>2, <1>8, <1>11, <2>1 DEF LapsPast
<1>14. StaleBounded
  <2>1. PICK t \in CountThreads : TRUE
    BY CounterAssumption
  <2>2. 0 < Cardinality(CountThreads)
    <3>1. {} \in SUBSET CountThreads /\ t \notin {}
      OBVIOUS
    <3> QED  BY <1>10, <3>1, ThreadsFewer
  <2>3. Cardinality(CountThreads) \in Nat
    BY ThreadsFinite
  <2>4. ASSUME NEW b \in BucketIds
        PROVE  /\ \E u \in CountThreads : u \notin Stale(b)
               /\ \A l \in LapIds : counted[b][l] <= counters[b]
               /\ counters[b] - counted[b][laps[b]] + Cardinality(Stale(b)) < Cardinality(CountThreads)
    <3>1. Stale(b) = {} /\ Cardinality(Stale(b)) = 0
      BY <1>9, <1>10
    <3>2. counters[b] = 0 /\ counted[b][laps[b]] = 0 /\ \A l \in LapIds : counted[b][l] = 0
      BY <1>3, <1>11
    <3> QED  BY <2>1, <2>2, <2>3, <3>1, <3>2
  <2> QED  BY <2>4 DEF StaleBounded
<1>15. CalmTrue
  BY <1>3, <1>9, <1>11 DEF CalmTrue
<1>16. SumTrue
  BY <1>2 DEF SumTrue
<1> QED  BY <1>7, <1>12, <1>13, <1>14, <1>15, <1>16 DEF CounterInv

\* One step per access to an atomic.
LEMMA CounterStepInv == CounterInv /\ [CounterNext]_counterVars => CounterInv'
<1> SUFFICES ASSUME CounterInv, [CounterNext]_counterVars  PROVE CounterInv'
  OBVIOUS
<1>1. ASSUME NEW t \in CountThreads, ReadClock(t) \/ LoadLap(t) \/ StoreZero(t) \/ FetchAdd(t)
      PROVE  CounterInv'
  BY <1>1, ReadClockOK, LoadLapOK, StoreZeroOK, FetchAddOK
<1>2. ASSUME NEW t \in CountThreads, Exchange(t)  PROVE CounterInv'
  BY <1>2, ExchangeWon, ExchangeLost
<1>3. CASE StartTotal \/ TotalLoadLap \/ TotalLoadCount
  BY <1>3, StartTotalOK, TotalEntersOK, TotalSkipsOK, TotalLoadCountOK
<1>4. CASE Elapse
  BY <1>4, ElapseOK
<1>5. CASE UNCHANGED counterVars
  <2>1. /\ elapsed' = elapsed /\ counters' = counters /\ laps' = laps /\ incr' = incr
        /\ begun' = begun /\ landed' = landed /\ counted' = counted /\ raced' = raced /\ sum' = sum
    BY <1>5 DEF counterVars
  <2>2. SumTrue'
    BY <2>1, SumKept DEF CounterInv
  <2>3. sum' \in Sums /\ sum'.now <= elapsed
    BY <2>1, CounterNumbers DEF CounterInv, LapsPast
  <2> QED  BY <2>1, <2>2, <2>3, TotalReads
<1> QED  BY <1>1, <1>2, <1>3, <1>4, <1>5 DEF CounterNext

\* The threads that may still add an event of another lap to a bucket are fewer than all,
\* and a bucket whose change of lap no increment met holds what landed in its lap, in
\* every interleaving of the accesses of incr() and total().
THEOREM CounterInvariant == CounterSpec => []CounterInv
BY CounterStarts, CounterStepInv, PTL DEF CounterSpec

\* Counts, laps, the locals of the threads and of the total keep their types.
THEOREM CounterTypeCorrect == CounterSpec => []CounterTypeOK
<1>1. CounterInv => CounterTypeOK
  BY DEF CounterInv
<1> QED  BY <1>1, CounterInvariant, PTL

\* An event is lost, or counted in another lap, only where an increment or a total meets a
\* change of lap, and then at most one for each other thread: for every number of threads,
\* buckets and increments (incr() and total() of RollingCounter).
THEOREM CountsAlwaysTrue == CounterSpec => []CountsTrue
<1>1. CounterInv => CountsTrue
  <2> SUFFICES ASSUME CounterInv  PROVE CountsTrue
    OBVIOUS
  <2>0. CounterTypeOK /\ Begun /\ LapsPast /\ StaleBounded /\ CalmTrue /\ SumTrue
    BY DEF CounterInv
  <2>1. OldEventsForgotten
    <3> SUFFICES ASSUME NEW b \in BucketIds, Clearing(b) = {}
                 PROVE  counters[b] - counted[b][laps[b]] < Cardinality(CountThreads)
      BY DEF OldEventsForgotten
    <3>1. /\ counters[b] \in Nat /\ counted[b][laps[b]] \in Nat
      BY <2>0, CounterNumbers
    <3>2. Stale(b) \in SUBSET CountThreads
      BY DEF Stale
    <3>3. PICK n \in Nat, m \in Nat : Cardinality(Stale(b)) = n /\ Cardinality(CountThreads) = m
      BY <3>2, ThreadsFinite
    <3>4. counters[b] - counted[b][laps[b]] + n < m
      BY <2>0, <3>3 DEF StaleBounded
    <3> QED  BY <3>1, <3>3, <3>4
  <2>2. CountsExact
    BY <2>0 DEF CountsExact, CalmTrue, Calm
  <2>3. TotalIsOfItsLap
    <3> SUFFICES ASSUME sum.at = "done", sum.calm, NEW b \in BucketIds
                 PROVE  /\ sum.parts[b] <= landed[b][LapOf(sum.now)]
                        /\ LapOf(elapsed) = LapOf(sum.now) => sum.parts[b] >= sum.least[b]
      BY DEF TotalIsOfItsLap
    <3>1. sum.next = Buckets
      BY <2>0 DEF SumTrue
    <3>2. b < Buckets
      BY CounterAssumption DEF BucketIds
    <3> QED  BY <2>0, <3>1, <3>2 DEF SumTrue
  <2> QED  BY <2>1, <2>2, <2>3 DEF CountsTrue
<1> QED  BY <1>1, CounterInvariant, PTL
=============================================================================
