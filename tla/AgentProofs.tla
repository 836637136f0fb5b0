----------------------------- MODULE AgentProofs -----------------------------
(***************************************************************************)
(* The endpoints agents use, for any number of calls, batches and gateways.*)
(*                                                                         *)
(* MCP sessions: a tool is executed at most once per call, callers are     *)
(* told the truth about it, and sessions are initialized one at a time.  A *)
(* call may be posted several times; the invariant ties what the server    *)
(* made of the last post to the step the call has reached, and the right   *)
(* to initialize to the lock in Redis and to the gateway's flight.         *)
(*                                                                         *)
(* Batches of events: the invariant ties the log to the cursor of the      *)
(* batch, and what has passed the check of a step to the claim of it.      *)
(***************************************************************************)
EXTENDS MCAgent, EventLogProofs, FiniteSetTheorems, SequenceTheorems, TLAPS

(* MCP sessions                                                             *)

\* Steps in which the call may still post a tools/call.
Posting == {"new", "load", "guard", "init", "keep", "await"}

\* What the server did, by its answer to the last post.
ServerTruth ==
    \A c \in Calls :
        /\ executed[c] \in 0..1
        /\ post[c] \in {"none", "sent", "expired", "denied"} => executed[c] = 0
        /\ post[c] = "ok" => executed[c] = 1

\* A call posts again only when the server did not know its session.
PostByStep ==
    \A c \in Calls :
        /\ step[c] \in Posting => post[c] \in {"none", "expired"}
        /\ step[c] = "delete" => post[c] \in {"expired", "denied"}
        /\ step[c] = "refresh" => post[c] = "ok"
        /\ step[c] = "await" => waitsFor[c] \in Calls

\* A call with an answer posts no more, and the answer is the server's.
OutcomeByPost ==
    \A c \in Calls :
        /\ step[c] \notin {"release", "done"} => outcome[c] = "none"
        /\ outcome[c] = "completed" => post[c] = "ok"
        /\ outcome[c] \in {"expired", "denied"} => post[c] = outcome[c]

\* Whoever initializes owns the lock, or the flight of its gateway.
InitializerOwns ==
    \A c \in Calls :
        /\ via[c] \in {"owner", "fresh"} /\ step[c] # "done" => lock = c
        /\ step[c] \in {"init", "keep"} => via[c] \in {"owner", "local"}
        /\ step[c] \in {"init", "keep"} /\ via[c] = "local" => flight[GatewayOf[c]] = c
        /\ channel[c] = "open" => flight[GatewayOf[c]] = c

McpInv == McpTypeOK /\ ServerTruth /\ PostByStep /\ OutcomeByPost /\ InitializerOwns

\* Nothing is posted, and nobody owns anything.
LEMMA McpInitInv == McpInit => McpInv
BY McpAssumption
   DEF McpInit, McpInv, McpTypeOK, ServerTruth, PostByStep, OutcomeByPost, InitializerOwns,
       Branches, Posting

\* One step per action.
LEMMA McpStepInv == McpInv /\ [McpNext]_mcpVars => McpInv'
<1> SUFFICES ASSUME McpInv, [McpNext]_mcpVars  PROVE McpInv'
  OBVIOUS
<1> USE McpAssumption
    DEF McpInv, McpTypeOK, ServerTruth, PostByStep, OutcomeByPost, InitializerOwns, Branches,
        Posting, server, singleflight
<1>1. CASE UNCHANGED mcpVars
  BY <1>1 DEF mcpVars
<1>2. ASSUME NEW c \in Calls, ArriveMcp(c)  PROVE McpInv'
  BY <1>2 DEF ArriveMcp
<1>3. ASSUME NEW c \in Calls, Load(c)  PROVE McpInv'
  BY <1>3 DEF Load, CallWith, WithoutSession
<1>4. ASSUME NEW c \in Calls, Answer(c)  PROVE McpInv'
  BY <1>4 DEF Answer, Finish
<1>5. ASSUME NEW c \in Calls, Refresh(c)  PROVE McpInv'
  BY <1>5 DEF Refresh, Write, Finish
<1>6. ASSUME NEW c \in Calls, Delete(c)  PROVE McpInv'
  BY <1>6 DEF Delete, Write, WithoutSession, Finish
<1>7. ASSUME NEW c \in Calls, Guard(c)  PROVE McpInv'
  BY <1>7 DEF Guard, JoinFlight
<1>8. ASSUME NEW c \in Calls, InitializeSession(c)  PROVE McpInv'
  <2>0. step[c] = "init" /\ UNCHANGED <<redis, executed, saved, lock, waitsFor>>
    BY <1>8 DEF InitializeSession
  <2>1. CASE /\ issued < MaxSessions /\ issued' = issued + 1 /\ live' = live \cup {issued + 1}
             /\ held' = [held EXCEPT ![c] = issued + 1]
             /\ step' = [step EXCEPT ![c] = "keep"]
             /\ UNCHANGED <<via, post, outcome, flight, channel>>
    BY <2>0, <2>1
  <2>2. CASE /\ CallWith(c, None, IF via[c] = "owner" THEN "fresh" ELSE via[c])
             /\ FinishFlight(c)
             /\ UNCHANGED <<outcome, server>>
    BY <2>0, <2>2 DEF CallWith, FinishFlight
  <2>3. CASE Finish(c, "error") /\ CloseFlight(c) /\ UNCHANGED <<via, held, post, server>>
    BY <2>0, <2>3 DEF Finish, CloseFlight
  <2> QED  BY <1>8, <2>1, <2>2, <2>3 DEF InitializeSession
<1>9. ASSUME NEW c \in Calls, KeepSession(c)  PROVE McpInv'
  BY <1>9 DEF KeepSession, Write, CallWith, FinishFlight
<1>10. ASSUME NEW c \in Calls, Receive(c)  PROVE McpInv'
  BY <1>10 DEF Receive, CallWith, JoinFlight
<1>11. ASSUME NEW c \in Calls, Release(c)  PROVE McpInv'
  BY <1>11 DEF Release
<1>12. ASSUME NEW c \in Calls, ServerHandles(c)  PROVE McpInv'
  BY <1>12 DEF ServerHandles
<1>13. ASSUME NEW c \in Calls, DropCall(c)  PROVE McpInv'
  BY <1>13 DEF DropCall, CloseFlight
<1>14. CASE LockExpires
  BY <1>14 DEF LockExpires
<1>15. CASE SavedExpires
  BY <1>15 DEF SavedExpires
<1>16. CASE SessionExpires
  BY <1>16 DEF SessionExpires
<1> QED
  BY <1>1, <1>2, <1>3, <1>4, <1>5, <1>6, <1>7, <1>8, <1>9, <1>10, <1>11, <1>12, <1>13, <1>14, <1>15, <1>16
  DEF McpNext, CallStep

(* Calls, servers, locks and flights keep the invariant, whoever leaves and *)
(* whatever expires (mcp_streamable_http's lifecycle and session cache).    *)
THEOREM McpInvariant == McpSpec => []McpInv
<1> QED  BY McpInitInv, McpStepInv, PTL DEF McpSpec

(* Every variable keeps its type.                                           *)
THEOREM McpTypeCorrect == McpSpec => []McpTypeOK
<1>1. McpInv => McpTypeOK
  BY DEF McpInv
<1> QED  BY <1>1, McpInvariant, PTL

(* A tool is executed at most once for a call, although the call may be     *)
(* posted again (execute_with_cached_session: the 404 alone is retried).    *)
THEOREM ToolIsExecutedOnce == McpSpec => []ToolExecutedOnce
<1>1. McpInv => ToolExecutedOnce
  BY DEF McpInv, ServerTruth, ToolExecutedOnce
<1> QED  BY <1>1, McpInvariant, PTL

(* A completed tool was executed, one refused for its session or its        *)
(* credentials was not (the outcomes of execute_lifecycle_with_cache).      *)
THEOREM AnswersAreTrue == McpSpec => []AnswerIsTrue
<1>1. McpInv => AnswerIsTrue
  BY DEF McpInv, ServerTruth, OutcomeByPost, AnswerIsTrue
<1> QED  BY <1>1, McpInvariant, PTL

(* Sessions are initialized one at a time, by the owner of the lock and by  *)
(* the owner of each gateway's flight (execute_fresh_lifecycle_guarded).    *)
THEOREM InitializersExclude == McpSpec => []OneInitializer
<1>1. McpInv => OneInitializer
  BY DEF McpInv, McpTypeOK, InitializerOwns, OneInitializer
<1> QED  BY <1>1, McpInvariant, PTL

(* A tool runs once for a call and its caller is told the truth.            *)
THEOREM McpCallsAreTrue == McpSpec => []McpCallsTrue
<1>1. ToolExecutedOnce /\ AnswerIsTrue => McpCallsTrue
  BY DEF McpCallsTrue
<1> QED  BY <1>1, ToolIsExecutedOnce, AnswersAreTrue, PTL
-----------------------------------------------------------------------------
(* Batches of events                                                        *)

\* Steps at which the batch handles the event under its cursor.
InBatch == {"check", "read", "policy", "audit", "emit"}

\* The cursor stays within the batch until its last event is logged.
CursorByStep ==
    \A b \in Batches :
        /\ bstep[b] = "idle" => cursor[b] = 1
        /\ bstep[b] \in InBatch => cursor[b] \in Indices(b)
        /\ verdict[b] # "none" => bstep[b] = "done"
        /\ verdict[b] = "accepted" => cursor[b] = Len(EventsOf[b]) + 1
        /\ verdict[b] = "step_conflict" => cursor[b] \in Indices(b)

\* What lies behind the cursor is in the log, what lies ahead of it is not.
CopiesByCursor ==
    \A b \in Batches : \A i \in Indices(b) :
        /\ i < cursor[b] => copies[b][i] > 0
        /\ i > cursor[b] => copies[b][i] = 0

\* A claim is one of those ever made; it is gone only if it expired.
ClaimHistory ==
    \A s \in StepIds :
        /\ claim[s] # NoPrint => claim[s] \in claimed[s]
        /\ claim[s] = NoPrint /\ claimed[s] # {} => s \in lapsed

\* A batch reads a claim only where one was made.
ReadAfterClaim ==
    \A b \in Batches : bstep[b] = "read" =>
        Event(b).step \in StepIds /\ claimed[Event(b).step] # {}

\* With strict conflicts, whatever passed the check agrees with the claim of its step, or
\* the claim has expired since.
Agreed(e) == e.step = NoStep \/ claim[e.step] = e.print \/ e.step \in lapsed
PassedAgrees ==
    conf.onConflict = "strict" /\ conf.sink.redis =>
        \A b \in Batches :
            /\ bstep[b] \in {"policy", "audit", "emit"} => Agreed(Event(b))
            /\ \A i \in Indices(b) : copies[b][i] > 0 => Agreed(EventsOf[b][i])

\* The invariant of the batches.
EventInv ==
    /\ EventTypeOK
    /\ cursor \in [Batches -> Nat]
    /\ DOMAIN copies = Batches
    /\ CursorByStep /\ CopiesByCursor /\ ClaimHistory /\ ReadAfterClaim /\ PassedAgrees
    /\ ConflictIsReal

\* The events of a batch.
LEMMA EventFields ==
    ASSUME NEW b \in Batches
    PROVE  /\ Len(EventsOf[b]) \in Nat
           /\ \A i \in Indices(b) : /\ EventsOf[b][i].step \in StepIds \cup {NoStep}
                                    /\ EventsOf[b][i].print \in Prints
                                    /\ EventsOf[b][i].print # NoPrint
                                    /\ EventsOf[b][i].gated \in BOOLEAN
<1>1. EventsOf[b] \in Seq([step : StepIds \cup {NoStep}, print : Prints, gated : BOOLEAN])
  BY EventAssumption
<1>2. \A i \in Indices(b) :
         EventsOf[b][i] \in [step : StepIds \cup {NoStep}, print : Prints, gated : BOOLEAN]
  BY <1>1, ElementOfSeq DEF Indices
<1> QED  BY <1>1, <1>2, EventAssumption

\* No batch has come.
LEMMA EventInitInv == EventInit => EventInv
<1> SUFFICES ASSUME EventInit PROVE EventInv
  OBVIOUS
<1>1. \A b \in Batches : Len(EventsOf[b]) \in Nat
  BY EventFields
<1>2. EventTypeOK
  BY <1>1 DEF EventInit, EventTypeOK, Indices
<1>3. CursorByStep /\ CopiesByCursor /\ ReadAfterClaim /\ ConflictIsReal
  BY <1>1 DEF EventInit, CursorByStep, CopiesByCursor, ReadAfterClaim, ConflictIsReal, Indices, InBatch
<1>4. ClaimHistory /\ PassedAgrees
  BY <1>1 DEF EventInit, ClaimHistory, PassedAgrees, Indices
<1> QED  BY <1>2, <1>3, <1>4 DEF EventInv, EventInit

\* What is ever claimed stays claimed, and a claim goes only by expiring.
StepsGrow ==
    /\ claim' \in [StepIds -> Prints \cup {NoPrint}]
    /\ claimed' \in [StepIds -> SUBSET Prints]
    /\ lapsed' \subseteq StepIds /\ lapsed \subseteq lapsed'
    /\ \A s \in StepIds : /\ claimed[s] \subseteq claimed'[s]
                          /\ claim[s] # NoPrint => claim'[s] = claim[s] \/ s \in lapsed'
    /\ ClaimHistory'

\* The shared part of the actions that log nothing: batch b goes on to `next', or ends
\* with the answer `code'.
LEMMA BatchMoves ==
    ASSUME EventInv, NEW b \in Batches, NEW next \in InBatch \cup {"done"},
           NEW code \in {"none", "accepted", "invalid", "step_conflict", "sink_failed",
                         "policy_unavailable"},
           bstep[b] # "done",
           bstep' = [bstep EXCEPT ![b] = next], verdict' = [verdict EXCEPT ![b] = code],
           UNCHANGED <<conf, cursor, copies>>, StepsGrow,
           next \in InBatch => cursor[b] \in Indices(b) /\ code = "none",
           code = "accepted" => cursor[b] = Len(EventsOf[b]) + 1,
           code = "step_conflict" =>
               /\ cursor[b] \in Indices(b) /\ Event(b).step \in StepIds
               /\ \/ \E p \in claimed'[Event(b).step] : p # Event(b).print
                  \/ Event(b).step \in lapsed',
           next = "read" => Event(b).step \in StepIds /\ claimed'[Event(b).step] # {},
           next \in {"policy", "audit", "emit"} /\ conf.onConflict = "strict" /\ conf.sink.redis
               => \/ Event(b).step = NoStep
                  \/ claim'[Event(b).step] = Event(b).print \/ Event(b).step \in lapsed'
    PROVE  EventInv'
<1> USE DEF EventInv
<1>0. \A x \in Batches : \A i \in Indices(x) : /\ EventsOf[x][i].step \in StepIds \cup {NoStep}
                                               /\ EventsOf[x][i].print # NoPrint
  BY EventFields
<1>1. EventTypeOK' /\ (cursor \in [Batches -> Nat])' /\ DOMAIN copies' = Batches
  BY DEF EventTypeOK, StepsGrow, InBatch
<1>2. CursorByStep'
  BY DEF CursorByStep, EventTypeOK, InBatch
<1>3. CopiesByCursor'
  BY DEF CopiesByCursor
<1>4. ClaimHistory'
  BY DEF StepsGrow
<1>5. ReadAfterClaim'
  BY <1>0 DEF ReadAfterClaim, StepsGrow, Event, EventTypeOK, CursorByStep, InBatch
<1>6. PassedAgrees'
  BY <1>0 DEF PassedAgrees, Agreed, StepsGrow, Event, EventTypeOK, CursorByStep, InBatch
<1>7. ConflictIsReal'
  <2>1. NoStep \notin StepIds
    BY EventAssumption
  <2> QED
    BY <1>0, <2>1 DEF ConflictIsReal, StepsGrow, Event, EventTypeOK, CursorByStep, InBatch
<1> QED  BY <1>1, <1>2, <1>3, <1>4, <1>5, <1>6, <1>7

\* The shared part of the actions that log the event of b: n copies reach the log, and
\* the cursor goes on only past an event that is logged.
LEMMA BatchLogs ==
    ASSUME EventInv, NEW b \in Batches, NEW n \in 0..2, NEW k \in {cursor[b], cursor[b] + 1},
           NEW next \in {"check", "done"},
           NEW code \in {"none", "accepted", "invalid", "sink_failed", "policy_unavailable"},
           bstep[b] \in {"audit", "emit"},
           copies' = [copies EXCEPT ![b][cursor[b]] = n],
           cursor' = [cursor EXCEPT ![b] = k], k = cursor[b] + 1 => n > 0,
           bstep' = [bstep EXCEPT ![b] = next], verdict' = [verdict EXCEPT ![b] = code],
           UNCHANGED <<conf, steps>>,
           next = "check" => k \in Indices(b) /\ code = "none",
           code = "accepted" => k = Len(EventsOf[b]) + 1
    PROVE  EventInv'
<1> USE DEF EventInv
<1>0. /\ cursor[b] \in Indices(b) /\ Len(EventsOf[b]) \in Nat
      /\ verdict[b] = "none" /\ bstep[b] \notin {"idle", "done", "read"}
  BY EventFields DEF CursorByStep, InBatch
<1>1. EventTypeOK' /\ (cursor \in [Batches -> Nat])' /\ DOMAIN copies' = Batches
  <2>1. \A x \in Batches : copies'[x] \in [Indices(x) -> 0..2]
    BY <1>0 DEF EventTypeOK
  <2>2. cursor' \in [Batches -> Nat] /\ \A x \in Batches : cursor'[x] \in 1..Len(EventsOf[x]) + 1
    BY <1>0 DEF EventTypeOK, Indices
  <2>3. bstep' \in [Batches -> {"idle", "check", "read", "policy", "audit", "emit", "done"}]
    BY DEF EventTypeOK
  <2>4. verdict' \in [Batches -> {"none", "accepted", "invalid", "step_conflict", "sink_failed",
                              "policy_unavailable"}]
    BY DEF EventTypeOK
  <2> QED  BY <2>1, <2>2, <2>3, <2>4 DEF EventTypeOK, steps
<1>2. CursorByStep'
  BY <1>0 DEF CursorByStep, EventTypeOK, InBatch, Indices
<1>3. CopiesByCursor'
  BY <1>0 DEF CopiesByCursor, EventTypeOK, Indices
<1>4. ClaimHistory'
  BY DEF ClaimHistory, steps
<1>5. ReadAfterClaim'
  BY <1>0 DEF ReadAfterClaim, Event, EventTypeOK, steps
<1>6. PassedAgrees'
  <2> SUFFICES ASSUME conf.onConflict = "strict" /\ conf.sink.redis, NEW x \in Batches
               PROVE  /\ bstep'[x] \in {"policy", "audit", "emit"} => Agreed(Event(x))'
                      /\ \A i \in Indices(x) : copies'[x][i] > 0 => Agreed(EventsOf[x][i])'
    BY DEF PassedAgrees, EventTypeOK
  <2>1. \A e : Agreed(e)' = Agreed(e)
    BY DEF Agreed, steps
  <2>2. Agreed(EventsOf[b][cursor[b]])
    BY DEF PassedAgrees, Event
  <2>3. bstep'[x] \in {"policy", "audit", "emit"} => bstep'[x] = bstep[x] /\ x # b /\ Event(x)' = Event(x)
    BY DEF EventTypeOK, Event
  <2>4. \A i \in Indices(x) : copies'[x][i] > 0 => copies[x][i] > 0 \/ (x = b /\ i = cursor[b])
    BY <1>0 DEF EventTypeOK
  <2> QED  BY <2>1, <2>2, <2>3, <2>4 DEF PassedAgrees
<1>7. ConflictIsReal'
  <2>1. \A x \in Batches : verdict'[x] = "step_conflict" =>
           verdict[x] = "step_conflict" /\ cursor'[x] = cursor[x]
    BY DEF EventTypeOK
  <2>2. \A x \in Batches : verdict'[x] = "step_conflict" => Event(x)' = Event(x)
    BY <2>1 DEF Event
  <2> QED  BY <2>1, <2>2 DEF ConflictIsReal, steps
<1> QED  BY <1>1, <1>2, <1>3, <1>4, <1>5, <1>6, <1>7

\* One step per action.
LEMMA EventStepInv == EventInv /\ [EventNext]_eventVars => EventInv'
<1> SUFFICES ASSUME EventInv, [EventNext]_eventVars  PROVE EventInv'
  OBVIOUS
<1>0. ASSUME NEW b \in Batches
      PROVE  /\ bstep[b] \in InBatch => /\ cursor[b] \in Indices(b) /\ verdict[b] = "none"
                                        /\ Event(b).step \in StepIds \cup {NoStep}
                                        /\ Event(b).print \in Prints
                                        /\ Event(b).print # NoPrint
             /\ bstep[b] = "idle" => cursor[b] = 1 /\ verdict[b] = "none"
             /\ Len(EventsOf[b]) \in Nat
  BY EventFields DEF EventInv, EventTypeOK, CursorByStep, Event, InBatch
<1>1. ASSUME UNCHANGED steps  PROVE StepsGrow
  BY <1>1 DEF EventInv, EventTypeOK, StepsGrow, ClaimHistory, steps
<1>2. ASSUME NEW b \in Batches, NEW next, Continue(b, next)
      PROVE  bstep' = [bstep EXCEPT ![b] = next] /\ verdict' = [verdict EXCEPT ![b] = verdict[b]]
  BY <1>2 DEF Continue, EventInv, EventTypeOK
<1>a. ASSUME NEW b \in Batches, bstep[b] \in InBatch, Claims(b), TakeClaim(b)
      PROVE  StepsGrow /\ claim'[Event(b).step] = Event(b).print
  <2>1. PICK t \in StepIds : t = Event(b).step
    BY <1>0, <1>a DEF Claims
  <2>2. PICK p \in Prints : p = Event(b).print
    BY <1>0, <1>a
  <2>3. /\ claim[t] = NoPrint /\ claim' = [claim EXCEPT ![t] = p]
        /\ claimed' = [claimed EXCEPT ![t] = @ \cup {p}] /\ lapsed' = lapsed
    BY <1>a, <2>1, <2>2 DEF TakeClaim
  <2>4. claim'[t] = p
    BY <2>3 DEF EventInv, EventTypeOK
  <2>5. StepsGrow
    BY <2>3, EventAssumption DEF StepsGrow, ClaimHistory, EventInv, EventTypeOK
  <2> QED  BY <2>1, <2>2, <2>4, <2>5
<1>3. CASE UNCHANGED eventVars
  BY <1>3 DEF eventVars, EventInv, EventTypeOK, CursorByStep, CopiesByCursor, ClaimHistory,
              ReadAfterClaim, PassedAgrees, ConflictIsReal, Agreed, Event
<1>4. ASSUME NEW b \in Batches, ReceiveBatch(b)  PROVE EventInv'
  <2>1. CASE Continue(b, "check") /\ 1 <= Len(EventsOf[b])
    <3>1. cursor[b] \in Indices(b) /\ bstep[b] # "done" /\ verdict[b] = "none"
      BY <1>0, <1>4, <2>1 DEF ReceiveBatch, Indices
    <3> QED  BY <1>1, <1>2, <1>4, <2>1, <3>1, BatchMoves DEF ReceiveBatch, InBatch
  <2>2. CASE AnswerBatch(b, "accepted") /\ ~(1 <= Len(EventsOf[b]))
    <3>1. cursor[b] = Len(EventsOf[b]) + 1 /\ bstep[b] # "done"
      BY <1>0, <1>4, <2>2 DEF ReceiveBatch
    <3> QED  BY <1>1, <1>4, <2>2, <3>1, BatchMoves DEF ReceiveBatch, AnswerBatch, InBatch
  <2>3. CASE AnswerBatch(b, "invalid")
    BY <1>0, <1>1, <1>4, <2>3, BatchMoves DEF ReceiveBatch, AnswerBatch, InBatch
  <2> QED  BY <1>4, <2>1, <2>2, <2>3 DEF ReceiveBatch, NextEvent
<1>5. ASSUME NEW b \in Batches, ClaimStep(b)  PROVE EventInv'
  <2>1. bstep[b] = "check" /\ bstep[b] \in InBatch /\ UNCHANGED <<conf, cursor, copies>>
    BY <1>5 DEF ClaimStep, InBatch
  <2>2. ASSUME StepsGrow, NEW code \in {"invalid", "sink_failed"}, AnswerBatch(b, code)
        PROVE  EventInv'
    BY <1>0, <2>1, <2>2, BatchMoves DEF AnswerBatch, InBatch
  <2>3. CASE ~Claims(b) /\ Decide(b) /\ UNCHANGED steps
    <3> DEFINE next == IF Event(b).gated THEN "policy" ELSE "emit"
    <3>1. next \in {"policy", "emit"} /\ Continue(b, next)
      BY <2>3 DEF Decide
    <3>2. conf.onConflict = "strict" /\ conf.sink.redis => Event(b).step = NoStep
      BY <2>3 DEF Claims
    <3> HIDE DEF next
    <3> QED  BY <1>0, <1>1, <1>2, <2>1, <2>3, <3>1, <3>2, BatchMoves DEF InBatch
  <2>4. CASE Claims(b) /\ TakeClaim(b) /\ (AnswerBatch(b, "sink_failed") \/ Decide(b))
    <3>1. StepsGrow /\ claim'[Event(b).step] = Event(b).print
      BY <1>a, <2>1, <2>4
    <3>2. CASE AnswerBatch(b, "sink_failed")
      BY <2>2, <3>1, <3>2
    <3>3. CASE Decide(b)
      <4> DEFINE next == IF Event(b).gated THEN "policy" ELSE "emit"
      <4>1. next \in {"policy", "emit"} /\ Continue(b, next)
        BY <3>3 DEF Decide
      <4> HIDE DEF next
      <4> QED  BY <1>0, <1>2, <2>1, <3>1, <4>1, BatchMoves DEF InBatch
    <3> QED  BY <2>4, <3>2, <3>3
  <2>5. CASE Claims(b) /\ claim[Event(b).step] # NoPrint /\ Continue(b, "read") /\ UNCHANGED steps
    <3>1. Event(b).step \in StepIds /\ claimed'[Event(b).step] # {}
      BY <1>0, <2>1, <2>5 DEF EventInv, ClaimHistory, steps, Claims
    <3> QED  BY <1>0, <1>1, <1>2, <2>1, <2>5, <3>1, BatchMoves DEF InBatch
  <2>6. CASE (AnswerBatch(b, "sink_failed") \/ AnswerBatch(b, "invalid")) /\ UNCHANGED steps
    BY <1>1, <2>2, <2>6
  <2> QED  BY <1>5, <2>3, <2>4, <2>5, <2>6 DEF ClaimStep
<1>6. ASSUME NEW b \in Batches, ReadClaim(b)  PROVE EventInv'
  <2>1. bstep[b] = "read" /\ bstep[b] \in InBatch /\ UNCHANGED <<conf, cursor, copies, steps>>
    BY <1>6 DEF ReadClaim, InBatch
  <2>2. CASE AnswerBatch(b, "sink_failed")
    BY <1>0, <1>1, <2>1, <2>2, BatchMoves DEF AnswerBatch, InBatch
  <2>3. CASE claim[Event(b).step] # Event(b).print /\ AnswerBatch(b, "step_conflict")
    <3>1. /\ Event(b).step \in StepIds
          /\ \/ \E p \in claimed'[Event(b).step] : p # Event(b).print
             \/ Event(b).step \in lapsed'
      BY <1>0, <2>1, <2>3 DEF EventInv, ClaimHistory, ReadAfterClaim, steps
    <3> QED  BY <1>0, <1>1, <2>1, <2>3, <3>1, BatchMoves DEF AnswerBatch, InBatch
  <2>4. CASE /\ Decide(b)
             /\ conf.onConflict = "strict" => claim[Event(b).step] = Event(b).print
    <3> DEFINE next == IF Event(b).gated THEN "policy" ELSE "emit"
    <3>1. next \in {"policy", "emit"} /\ Continue(b, next)
      BY <2>4 DEF Decide
    <3> HIDE DEF next
    <3> QED  BY <1>0, <1>1, <1>2, <2>1, <2>4, <3>1, BatchMoves DEF InBatch, steps
  <2> QED  BY <1>6, <2>2, <2>3, <2>4 DEF ReadClaim
<1>7. ASSUME NEW b \in Batches, AskPolicy(b)  PROVE EventInv'
  <2>1. bstep[b] = "policy" /\ bstep[b] \in InBatch /\ UNCHANGED <<conf, cursor, copies, steps>>
    BY <1>7 DEF AskPolicy, InBatch
  <2>2. conf.onConflict = "strict" /\ conf.sink.redis
           => \/ Event(b).step = NoStep
              \/ claim'[Event(b).step] = Event(b).print \/ Event(b).step \in lapsed'
    BY <2>1 DEF EventInv, PassedAgrees, Agreed, steps
  <2>3. ASSUME NEW next \in {"emit", "audit"}, Continue(b, next)  PROVE EventInv'
    BY <1>0, <1>1, <1>2, <2>1, <2>2, <2>3, BatchMoves DEF InBatch
  <2> QED  BY <1>7, <2>3 DEF AskPolicy
<1>8. ASSUME NEW b \in Batches, EmitAudit(b)  PROVE EventInv'
  <2>1. bstep[b] = "audit" /\ bstep[b] \in InBatch /\ UNCHANGED <<conf, cursor, steps>>
    BY <1>8 DEF EmitAudit, InBatch
  <2>2. ASSUME NEW s \in SendEvent(conf.sink), Log(b, s),
               AnswerBatch(b, IF s.ok THEN "policy_unavailable" ELSE "sink_failed")
        PROVE  EventInv'
    <3>1. s.copies \in 0..2
      BY SendEventResult DEF EventInv, EventTypeOK
    <3>2. cursor' = [cursor EXCEPT ![b] = cursor[b]] /\ cursor[b] # cursor[b] + 1
      BY <2>1 DEF EventInv
    <3> DEFINE code == IF s.ok THEN "policy_unavailable" ELSE "sink_failed"
    <3>3. /\ code \in {"sink_failed", "policy_unavailable"}
          /\ bstep' = [bstep EXCEPT ![b] = "done"] /\ verdict' = [verdict EXCEPT ![b] = code]
          /\ copies' = [copies EXCEPT ![b][cursor[b]] = s.copies]
      BY <2>2 DEF AnswerBatch, Log
    <3> HIDE DEF code
    <3> QED  BY <2>1, <3>1, <3>2, <3>3, BatchLogs
  <2>3. CASE AnswerBatch(b, "invalid") /\ UNCHANGED copies
    BY <1>0, <1>1, <2>1, <2>3, BatchMoves DEF AnswerBatch, InBatch
  <2> QED  BY <1>8, <2>2, <2>3 DEF EmitAudit
<1>9. ASSUME NEW b \in Batches, EmitEvent(b)  PROVE EventInv'
  <2>1. bstep[b] = "emit" /\ bstep[b] \in InBatch /\ UNCHANGED <<conf, steps>>
    BY <1>9 DEF EmitEvent, InBatch
  <2>2. CASE AnswerBatch(b, "invalid") /\ UNCHANGED <<copies, cursor>>
    BY <1>0, <1>1, <2>1, <2>2, BatchMoves DEF AnswerBatch, InBatch
  <2>3. ASSUME NEW s \in SendEvent(conf.sink), Log(b, s),
               \/ s.ok /\ cursor' = [cursor EXCEPT ![b] = @ + 1] /\ NextEvent(b, cursor[b] + 1)
               \/ ~s.ok /\ AnswerBatch(b, "sink_failed") /\ UNCHANGED cursor
        PROVE  EventInv'
    <3>3. s.copies \in 0..2 /\ (s.ok => s.copies > 0)
      BY SendEventResult DEF EventInv, EventTypeOK
    <3>4. CASE s.ok /\ cursor' = [cursor EXCEPT ![b] = @ + 1] /\ NextEvent(b, cursor[b] + 1)
      <4>1. cursor[b] + 1 \in 1..Len(EventsOf[b]) + 1 /\ cursor[b] \in Nat
        BY <1>0, <2>1 DEF Indices, EventInv
      <4>2. CASE cursor[b] + 1 <= Len(EventsOf[b]) /\ Continue(b, "check")
        <5>1. /\ bstep' = [bstep EXCEPT ![b] = "check"] /\ verdict' = [verdict EXCEPT ![b] = "none"]
              /\ copies' = [copies EXCEPT ![b][cursor[b]] = s.copies]
              /\ cursor[b] + 1 \in Indices(b)
          BY <1>0, <1>2, <2>1, <2>3, <4>1, <4>2 DEF Log, Indices
        <5> QED  BY <2>1, <3>3, <3>4, <5>1, BatchLogs
      <4>3. CASE ~(cursor[b] + 1 <= Len(EventsOf[b])) /\ AnswerBatch(b, "accepted")
        <5>1. /\ bstep' = [bstep EXCEPT ![b] = "done"] /\ verdict' = [verdict EXCEPT ![b] = "accepted"]
              /\ copies' = [copies EXCEPT ![b][cursor[b]] = s.copies]
              /\ cursor[b] + 1 = Len(EventsOf[b]) + 1
          BY <1>0, <2>3, <4>1, <4>3 DEF Log, AnswerBatch
        <5> QED  BY <2>1, <3>3, <3>4, <5>1, BatchLogs
      <4> QED  BY <3>4, <4>2, <4>3 DEF NextEvent
    <3>5. CASE ~s.ok /\ AnswerBatch(b, "sink_failed") /\ UNCHANGED cursor
      <4>1. cursor' = [cursor EXCEPT ![b] = cursor[b]] /\ cursor[b] \in Nat
        BY <3>5 DEF EventInv
      <4>2. /\ bstep' = [bstep EXCEPT ![b] = "done"] /\ verdict' = [verdict EXCEPT ![b] = "sink_failed"]
            /\ copies' = [copies EXCEPT ![b][cursor[b]] = s.copies]
            /\ cursor[b] # cursor[b] + 1
        BY <2>3, <3>5, <4>1 DEF Log, AnswerBatch
      <4> QED  BY <2>1, <3>3, <4>1, <4>2, BatchLogs
    <3> QED  BY <2>3, <3>4, <3>5
  <2> QED  BY <1>9, <2>2, <2>3 DEF EmitEvent
<1>10. ASSUME NEW b \in Batches, LeaveBatch(b)  PROVE EventInv'
  <2>1. verdict[b] = "none" /\ verdict' = [verdict EXCEPT ![b] = "none"] /\ bstep[b] # "done"
    BY <1>10 DEF LeaveBatch, EventInv, EventTypeOK, CursorByStep
  <2>2. UNCHANGED <<conf, cursor>> /\ bstep' = [bstep EXCEPT ![b] = "done"]
    BY <1>10 DEF LeaveBatch
  <2>3. ASSUME UNCHANGED copies, StepsGrow  PROVE EventInv'
    BY <2>1, <2>2, <2>3, BatchMoves DEF InBatch
  <2>4. CASE UNCHANGED <<copies, steps>>
    BY <1>1, <2>3, <2>4
  <2>5. CASE bstep[b] = "check" /\ Claims(b) /\ TakeClaim(b) /\ UNCHANGED copies
    BY <1>a, <2>3, <2>5 DEF InBatch
  <2>6. ASSUME bstep[b] \in {"audit", "emit"}, NEW s \in SendEvent(conf.sink), Log(b, s),
               UNCHANGED steps
        PROVE  EventInv'
    <3>1. s.copies \in 0..2
      BY SendEventResult DEF EventInv, EventTypeOK
    <3>2. cursor' = [cursor EXCEPT ![b] = cursor[b]] /\ cursor[b] # cursor[b] + 1
      BY <2>2 DEF EventInv
    <3>3. copies' = [copies EXCEPT ![b][cursor[b]] = s.copies]
      BY <2>6 DEF Log
    <3> QED  BY <2>1, <2>2, <2>6, <3>1, <3>2, <3>3, BatchLogs
  <2> QED  BY <1>10, <2>4, <2>5, <2>6 DEF LeaveBatch
<1>11. CASE ClaimExpires
  <2>1. PICK s \in StepIds : /\ claim[s] # NoPrint
                             /\ claim' = [claim EXCEPT ![s] = NoPrint]
                             /\ lapsed' = lapsed \cup {s}
    BY <1>11 DEF ClaimExpires
  <2> USE <1>11, <2>1 DEF ClaimExpires, EventInv, EventTypeOK
  <2>2. EventTypeOK' /\ CursorByStep' /\ CopiesByCursor'
    BY DEF CursorByStep, CopiesByCursor
  <2>3. ClaimHistory' /\ ReadAfterClaim' /\ ConflictIsReal'
    BY DEF ClaimHistory, ReadAfterClaim, ConflictIsReal, Event
  <2>4. \A e : Agreed(e) /\ e.step \in StepIds \cup {NoStep} => Agreed(e)'
    BY DEF Agreed
  <2>5. PassedAgrees'
    BY <1>0, <2>4, EventFields DEF PassedAgrees, Event, InBatch
  <2> QED  BY <2>2, <2>3, <2>5
<1> QED
  BY <1>3, <1>4, <1>5, <1>6, <1>7, <1>8, <1>9, <1>10, <1>11 DEF EventNext, BatchStep

(* Batches keep the invariant, whoever leaves and whatever expires           *)
(* (handle_agent_events).                                                    *)
THEOREM EventInvariant == EventSpec => []EventInv
<1> QED  BY EventInitInv, EventStepInv, PTL DEF EventSpec

(* Every variable keeps its type; at most two copies of an event are logged. *)
THEOREM EventTypeCorrect == EventSpec => []EventTypeOK
<1>1. EventInv => EventTypeOK
  BY DEF EventInv
<1> QED  BY <1>1, EventInvariant, PTL

(* The log, the answers and the other batches agree (detect_step_conflict,   *)
(* and the loop of handle_agent_events that ends at the first error).        *)
THEOREM BatchesAlwaysAgree == EventSpec => []BatchesAgree
<1>1. EventInv => LoggedIsPrefix
  <2> SUFFICES ASSUME EventInv, NEW b \in Batches
               PROVE  /\ \A i, j \in Indices(b) : i < j /\ copies[b][j] > 0 => copies[b][i] > 0
                      /\ verdict[b] = "accepted" => \A i \in Indices(b) : copies[b][i] > 0
    BY DEF LoggedIsPrefix
  <2>1. cursor[b] \in Nat /\ Len(EventsOf[b]) \in Nat
    BY EventFields DEF EventInv
  <2>2. \A i \in Indices(b) : /\ i < cursor[b] => copies[b][i] > 0
                              /\ i > cursor[b] => copies[b][i] = 0
    BY DEF EventInv, CopiesByCursor
  <2>3. \A i, j \in Indices(b) : i < j /\ copies[b][j] > 0 => copies[b][i] > 0
    BY <2>1, <2>2 DEF Indices
  <2>4. verdict[b] = "accepted" => cursor[b] = Len(EventsOf[b]) + 1
    BY DEF EventInv, CursorByStep
  <2>5. verdict[b] = "accepted" => \A i \in Indices(b) : copies[b][i] > 0
    BY <2>1, <2>2, <2>4 DEF Indices
  <2> QED  BY <2>3, <2>5
<1>2. EventInv => StrictStepIsUnique
  BY EventFields DEF EventInv, PassedAgrees, Agreed, StrictStepIsUnique
<1>3. EventInv => BatchesAgree
  BY <1>1, <1>2 DEF EventInv, BatchesAgree
<1> QED  BY <1>3, EventInvariant, PTL
-----------------------------------------------------------------------------
(* The two endpoints together                                               *)

(* Every variable of the sessions and of the batches keeps its type while   *)
(* either of them runs.                                                     *)
THEOREM AgentTypeCorrect == AgentLiveSpec => []AgentTypeOK
<1>1. AgentInit => McpInv /\ EventInv
  BY McpInitInv, EventInitInv DEF AgentInit
<1>2. McpInv /\ EventInv /\ [AgentNext]_agentVars => McpInv' /\ EventInv'
  <2> SUFFICES ASSUME McpInv, EventInv, [AgentNext]_agentVars  PROVE McpInv' /\ EventInv'
    OBVIOUS
  <2>1. [McpNext]_mcpVars /\ [EventNext]_eventVars
    BY DEF AgentNext, agentVars
  <2> QED  BY <2>1, McpStepInv, EventStepInv
<1>3. McpInv /\ EventInv => AgentTypeOK
  BY DEF McpInv, EventInv, AgentTypeOK
<1> QED  BY <1>1, <1>2, <1>3, PTL DEF AgentLiveSpec

(* What the two endpoints promise holds wherever they stand side by side.   *)
THEOREM AgentsAreSafe == AgentLiveSpec => [](McpCallsTrue /\ OneInitializer /\ BatchesAgree)
<1>1. AgentInit => McpInit /\ EventInit  BY DEF AgentInit
<1>2. [AgentNext]_agentVars => [McpNext]_mcpVars /\ [EventNext]_eventVars
  BY DEF AgentNext, agentVars
<1> QED
  BY <1>1, <1>2, McpCallsAreTrue, InitializersExclude, BatchesAlwaysAgree, PTL
  DEF AgentLiveSpec, McpSpec, EventSpec
=============================================================================
