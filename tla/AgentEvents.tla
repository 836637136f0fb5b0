----------------------------- MODULE AgentEvents -----------------------------
(***************************************************************************)
(* Batches of events an agent reports (agent/service.rs                    *)
(* handle_agent_events).  The events of a batch are handled in order, each *)
(* to its end: the claim of its step in Redis, the policy, the event log.  *)
(* The first error ends the batch; what was logged stays logged, and the   *)
(* agent may send the batch again.  Batches of one run interleave.         *)
(***************************************************************************)
EXTENDS Naturals, Sequences, EventLog

CONSTANTS Batches,
          EventsOf,   \* the events of each batch: [step, print, gated]
          StepIds,
          NoStep,     \* an event without a run or a step
          Prints,     \* fingerprints of what an event says of its step
          NoPrint

ASSUME EventAssumption ==
    /\ NoPrint \notin Prints /\ NoStep \notin StepIds
    /\ EventsOf \in [Batches -> Seq([step : StepIds \cup {NoStep}, print : Prints, gated : BOOLEAN])]

VARIABLES
    conf,      \* the event log, and what a conflict of steps does
    bstep,     \* the await each batch has reached
    cursor,    \* the event it handles
    claim,     \* the fingerprint Redis holds for each step
    copies,    \* how often each event is in the log
    verdict,     \* the answer to each batch
    claimed,   \* history: the fingerprints each step was ever claimed with
    lapsed     \* history: the steps whose claim has expired

eventVars == <<conf, bstep, cursor, claim, copies, verdict, claimed, lapsed>>

Indices(b) == 1..Len(EventsOf[b])
Event(b) == EventsOf[b][cursor[b]]

EventTypeOK ==
    /\ conf \in [sink : [redis : BOOLEAN, http : BOOLEAN],
                 onConflict : {"disabled", "warn", "strict"}]
    /\ bstep \in [Batches -> {"idle", "check", "read", "policy", "audit", "emit", "done"}]
    /\ \A b \in Batches : cursor[b] \in 1..Len(EventsOf[b]) + 1
    /\ claim \in [StepIds -> Prints \cup {NoPrint}]
    /\ \A b \in Batches : copies[b] \in [Indices(b) -> 0..2]
    /\ verdict \in [Batches -> {"none", "accepted", "invalid", "step_conflict", "sink_failed",
                              "policy_unavailable"}]
    /\ claimed \in [StepIds -> SUBSET Prints]
    /\ lapsed \subseteq StepIds

EventInit ==
    /\ conf \in [sink : [redis : BOOLEAN, http : BOOLEAN],
                 onConflict : {"disabled", "warn", "strict"}]
    /\ bstep = [b \in Batches |-> "idle"]
    /\ cursor = [b \in Batches |-> 1]
    /\ claim = [s \in StepIds |-> NoPrint]
    /\ copies = [b \in Batches |-> [i \in Indices(b) |-> 0]]
    /\ verdict = [b \in Batches |-> "none"]
    /\ claimed = [s \in StepIds |-> {}]
    /\ lapsed = {}

steps == <<claim, claimed, lapsed>>

AnswerBatch(b, code) ==
    /\ bstep' = [bstep EXCEPT ![b] = "done"]
    /\ verdict' = [verdict EXCEPT ![b] = code]

Continue(b, next) == bstep' = [bstep EXCEPT ![b] = next] /\ UNCHANGED verdict

\* The next event, or the answer 202 after the last one.
NextEvent(b, i) == IF i <= Len(EventsOf[b]) THEN Continue(b, "check") ELSE AnswerBatch(b, "accepted")

\* should_validate_policy_for_event.
Decide(b) == Continue(b, IF Event(b).gated THEN "policy" ELSE "emit")

\* Route, authentication, size and JSON may refuse the batch.
ReceiveBatch(b) ==
    /\ bstep[b] = "idle"
    /\ NextEvent(b, 1) \/ AnswerBatch(b, "invalid")
    /\ UNCHANGED <<conf, cursor, copies, steps>>

\* check_step_conflict and detect_step_conflict ask Redis only then.
Claims(b) == conf.onConflict # "disabled" /\ conf.sink.redis /\ Event(b).step # NoStep

\* SET NX takes effect: the step had no key.
TakeClaim(b) ==
    LET s == Event(b).step IN
    /\ claim[s] = NoPrint
    /\ claim' = [claim EXCEPT ![s] = Event(b).print]
    /\ claimed' = [claimed EXCEPT ![s] = @ \cup {Event(b).print}]
    /\ UNCHANGED lapsed

\* The limit of the metadata and the context of the headers may refuse the event, then
\* detect_step_conflict sets the key of the step if it is not set.  A SET that reports an
\* error may have taken effect.
ClaimStep(b) ==
    /\ bstep[b] = "check"
    /\ \/ AnswerBatch(b, "invalid") /\ UNCHANGED steps
       \/ ~Claims(b) /\ Decide(b) /\ UNCHANGED steps
       \/ /\ Claims(b)
          /\ \/ AnswerBatch(b, "sink_failed") /\ (TakeClaim(b) \/ UNCHANGED steps)
             \/ TakeClaim(b) /\ Decide(b)
             \/ claim[Event(b).step] # NoPrint /\ Continue(b, "read") /\ UNCHANGED steps
    /\ UNCHANGED <<conf, cursor, copies>>

\* As if a conflict were always only a warning.
ReadClaim_NeverStrict(b) ==
    /\ bstep[b] = "read"
    /\ Decide(b)
    /\ UNCHANGED <<conf, cursor, copies, steps>>

\* Then it reads the key, which may have expired meanwhile: that counts as a conflict.
ReadClaim(b) ==
    /\ bstep[b] = "read"
    /\ \/ AnswerBatch(b, "sink_failed")
       \/ claim[Event(b).step] = Event(b).print /\ Decide(b)
       \/ /\ claim[Event(b).step] # Event(b).print
          /\ IF conf.onConflict = "strict" THEN AnswerBatch(b, "step_conflict") ELSE Decide(b)
    /\ UNCHANGED <<conf, cursor, copies, steps>>

\* validate_agent_policy: an allowed and a denied event are both logged, with the verdict.
AskPolicy(b) ==
    /\ bstep[b] = "policy"
    /\ Continue(b, "emit") \/ Continue(b, "audit")
    /\ UNCHANGED <<conf, cursor, copies, steps>>

Log(b, s) == copies' = [copies EXCEPT ![b][cursor[b]] = s.copies]

\* The policy is unavailable: the event is logged as such and the batch ends.
EmitAudit(b) ==
    /\ bstep[b] = "audit"
    /\ \/ \E s \in SendEvent(conf.sink) :
            /\ Log(b, s)
            /\ AnswerBatch(b, IF s.ok THEN "policy_unavailable" ELSE "sink_failed")
       \/ AnswerBatch(b, "invalid") /\ UNCHANGED copies
    /\ UNCHANGED <<conf, cursor, steps>>

\* As if a failed send were retried without a limit.
EmitEvent_Stays(b) ==
    /\ bstep[b] = "emit"
    /\ \E s \in SendEvent(conf.sink) :
         /\ Log(b, s)
         /\ \/ s.ok /\ cursor' = [cursor EXCEPT ![b] = @ + 1] /\ NextEvent(b, cursor[b] + 1)
            \/ ~s.ok /\ UNCHANGED <<cursor, bstep, verdict>>
    /\ UNCHANGED <<conf, steps>>

\* The event, asked about or not, is refused if its metadata is too large now that the
\* decision is part of it; else it is logged, and without an error the batch goes on.
EmitEvent(b) ==
    /\ bstep[b] = "emit"
    /\ \/ AnswerBatch(b, "invalid") /\ UNCHANGED <<copies, cursor>>
       \/ \E s \in SendEvent(conf.sink) :
            /\ Log(b, s)
            /\ \/ s.ok /\ cursor' = [cursor EXCEPT ![b] = @ + 1] /\ NextEvent(b, cursor[b] + 1)
               \/ ~s.ok /\ AnswerBatch(b, "sink_failed") /\ UNCHANGED cursor
    /\ UNCHANGED <<conf, steps>>

\* The agent leaves: the handler is dropped at its await, whose SET or send may still
\* take effect.
LeaveBatch(b) ==
    /\ bstep[b] \notin {"idle", "done"}
    /\ bstep' = [bstep EXCEPT ![b] = "done"]
    /\ \/ UNCHANGED <<copies, steps>>
       \/ bstep[b] = "check" /\ Claims(b) /\ TakeClaim(b) /\ UNCHANGED copies
       \/ bstep[b] \in {"audit", "emit"} /\ (\E s \in SendEvent(conf.sink) : Log(b, s)) /\ UNCHANGED steps
    /\ UNCHANGED <<conf, cursor, verdict>>

\* event_ttl_seconds, which a later event of the step does not extend.
ClaimExpires ==
    /\ \E s \in StepIds :
         /\ claim[s] # NoPrint
         /\ claim' = [claim EXCEPT ![s] = NoPrint]
         /\ lapsed' = lapsed \cup {s}
    /\ UNCHANGED <<conf, bstep, cursor, copies, verdict, claimed>>

BatchStep(b) ==
    \/ ClaimStep(b) \/ ReadClaim(b) \/ AskPolicy(b) \/ EmitAudit(b) \/ EmitEvent(b)

EventNext ==
    \/ \E b \in Batches : ReceiveBatch(b) \/ BatchStep(b) \/ LeaveBatch(b)
    \/ ClaimExpires

EventSpec == EventInit /\ [][EventNext]_eventVars

\* The runtime polls every handler, and the policy and the event log have their timeouts.
\* The SET and the GET of a claim have none (AppRedis waits for its mutex, its connection
\* and its reply without one): that Redis answers or fails them is an assumption.
EventFairness == \A b \in Batches : WF_eventVars(BatchStep(b))

EventLiveSpec == EventSpec /\ EventFairness
-----------------------------------------------------------------------------
(* Properties                                                               *)

\* The logged events of a batch are its beginning, and all of it when it was accepted: an
\* agent that sends a refused batch again repeats events but leaves none out (the loop of
\* handle_agent_events returns at the first error).
LoggedIsPrefix ==
    \A b \in Batches :
        /\ \A i, j \in Indices(b) : i < j /\ copies[b][j] > 0 => copies[b][i] > 0
        /\ verdict[b] = "accepted" => \A i \in Indices(b) : copies[b][i] > 0

\* With strict conflicts, two events that describe one step differently are not both
\* logged, from whatever batches they come, unless the claim expired in between
\* (detect_step_conflict: SET NX, then GET).
StrictStepIsUnique ==
    conf.onConflict = "strict" /\ conf.sink.redis =>
        \A a, b \in Batches : \A i \in Indices(a), j \in Indices(b) :
            LET e == EventsOf[a][i] f == EventsOf[b][j] IN
            (copies[a][i] > 0 /\ copies[b][j] > 0
               /\ e.step # NoStep /\ e.step = f.step /\ e.print # f.print)
                => e.step \in lapsed

\* An event is refused as a conflict only if its step was claimed by a different event or
\* its claim expired: sending a batch again is not refused, also after a SET that reported
\* an error and took effect.
ConflictIsReal ==
    \A b \in Batches : verdict[b] = "step_conflict" =>
        /\ Event(b).step # NoStep
        /\ \/ \E p \in claimed[Event(b).step] : p # Event(b).print
           \/ Event(b).step \in lapsed

\* What the log holds of a batch, what the batch was told and what other batches hold of
\* the same steps agree.
BatchesAgree == LoggedIsPrefix /\ StrictStepIsUnique /\ ConflictIsReal

\* Every batch is answered or its agent has left, with a silent policy service and event
\* log; Redis is taken to answer or fail.
BatchEnds == \A b \in Batches : bstep[b] = "check" ~> bstep[b] = "done"
=============================================================================
