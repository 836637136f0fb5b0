----------------------------- MODULE ChatBridge -----------------------------
(***************************************************************************)
(* The events of a streamed response of the Responses API rewritten into   *)
(* the chunks of a chat completion                                         *)
(* (ide_adapation/unified_responses_chat_compat.rs BridgeStreamState), and *)
(* the finish reason of the conversion of whole responses.                 *)
(***************************************************************************)
EXTENDS Naturals, Sequences, FiniteSets

CONSTANTS OutputItems,   \* the items of the response
          ItemKind,      \* of each: "message", "commentary" or "function_call"
          MaxEvents      \* bound on the events of a stream

ASSUME ChatBridgeAssumption ==
    /\ MaxEvents \in Nat
    /\ ItemKind \in [OutputItems -> {"message", "commentary", "function_call"}]

Calls == {i \in OutputItems : ItemKind[i] = "function_call"}
Texts == OutputItems \ Calls

VARIABLES
    orderly,       \* whether the provider announces every item before its deltas and sends
                   \* nothing after completed, failed or incomplete; the bridge checks neither
    roleSent, hasToolCalls,
    hidden,        \* hidden_text_item_ids
    toolIndices,   \* tool_call_indices
    nextIndex,     \* next_tool_index
    announced,     \* the items the provider has announced
    ending,        \* how the provider last ended the response, or "open"
    eventCount,    \* events so far
    wire           \* the chunks sent to the client

chatBridgeVars == <<orderly, roleSent, hasToolCalls, hidden, toolIndices, nextIndex,
                    announced, ending, eventCount, wire>>

None0 == 0     \* no item; the role, finish and error chunks have none
Chunk(type, index, item) == [type |-> type, index |-> index, item |-> item]

ChatBridgeTypeOK ==
    /\ orderly \in BOOLEAN /\ roleSent \in BOOLEAN /\ hasToolCalls \in BOOLEAN
    /\ hidden \subseteq Texts /\ announced \subseteq OutputItems
    /\ DOMAIN toolIndices \subseteq Calls
    /\ nextIndex = Cardinality(announced \cap Calls)
    /\ \A i \in DOMAIN toolIndices : toolIndices[i] \in 0..nextIndex
    /\ ending \in {"open", "completed", "failed", "incomplete"}
    /\ eventCount \in 0..MaxEvents

ChatBridgeInit ==
    /\ orderly \in BOOLEAN
    /\ roleSent = FALSE /\ hasToolCalls = FALSE
    /\ hidden = {} /\ announced = {}
    /\ toolIndices = [i \in {} |-> 0] /\ nextIndex = 0
    /\ ending = "open" /\ eventCount = 0
    /\ wire = <<>>

\* push_role_if_needed.
RoleChunk == IF roleSent THEN <<>> ELSE <<Chunk("role", 0, None0)>>

\* The chunk c, after the role.
Pushed(c) == roleSent' = TRUE /\ wire' = wire \o RoleChunk \o <<c>>

\* One more event, which nothing the bridge remembers can stop.
OneEvent ==
    /\ orderly => ending = "open"
    /\ eventCount < MaxEvents /\ eventCount' = eventCount + 1

Referable(i) == orderly => i \in announced

\* response.output_text.delta: nothing of hidden items.
OutputTextDelta(i) ==
    /\ OneEvent /\ Referable(i)
    /\ IF i \in hidden THEN UNCHANGED <<roleSent, wire>> ELSE Pushed(Chunk("text", 0, i))
    /\ UNCHANGED <<orderly, hasToolCalls, hidden, toolIndices, nextIndex, announced, ending>>

\* response.reasoning_text.delta and response.refusal.delta.
OtherDelta(type) ==
    /\ OneEvent
    /\ Pushed(Chunk(type, 0, None0))
    /\ UNCHANGED <<orderly, hasToolCalls, hidden, toolIndices, nextIndex, announced, ending>>

\* response.output_item.added of a message; commentary is hidden.
ItemAddedMessage(i) ==
    /\ OneEvent /\ i \in Texts \ announced
    /\ announced' = announced \cup {i}
    /\ hidden' = IF ItemKind[i] = "commentary" THEN hidden \cup {i} ELSE hidden
    /\ UNCHANGED <<orderly, roleSent, hasToolCalls, toolIndices, nextIndex, ending, wire>>

\* As if the index were taken from the calls that have arguments.
ItemAddedCall_SameIndex(i) ==
    /\ OneEvent /\ i \in Calls \ announced
    /\ announced' = announced \cup {i}
    /\ hasToolCalls' = TRUE
    /\ toolIndices' = [j \in DOMAIN toolIndices \cup {i} |-> 0]
    /\ nextIndex' = nextIndex + 1
    /\ Pushed(Chunk("call", 0, i))
    /\ UNCHANGED <<orderly, hidden, ending>>

\* ... and of a function call, which gets the next index.
ItemAddedCall(i) ==
    /\ OneEvent /\ i \in Calls \ announced
    /\ announced' = announced \cup {i}
    /\ hasToolCalls' = TRUE
    /\ toolIndices' = [j \in DOMAIN toolIndices \cup {i} |->
                          IF j = i THEN nextIndex ELSE toolIndices[j]]
    /\ nextIndex' = nextIndex + 1
    /\ Pushed(Chunk("call", nextIndex, i))
    /\ UNCHANGED <<orderly, hidden, ending>>

\* response.function_call_arguments.delta: an item that was never announced counts as the
\* first, and no role is pushed.
ArgumentsDelta(i) ==
    /\ OneEvent /\ i \in Calls /\ Referable(i)
    /\ wire' = Append(wire,
                  Chunk("arguments", IF i \in DOMAIN toolIndices THEN toolIndices[i] ELSE 0, i))
    /\ UNCHANGED <<orderly, roleSent, hasToolCalls, hidden, toolIndices, nextIndex, announced,
                   ending>>

\* response.function_call_arguments.done.
ArgumentsDone(i) ==
    /\ OneEvent /\ i \in Calls /\ Referable(i)
    /\ hasToolCalls' = TRUE
    /\ UNCHANGED <<orderly, roleSent, hidden, toolIndices, nextIndex, announced, ending, wire>>

\* finish_chunk.
FinishReason == IF hasToolCalls THEN "tool_calls" ELSE "stop"

\* response.completed and response.failed: the role if it is still due, the finish reason
\* and [DONE].
Ended(how) ==
    /\ OneEvent /\ ending' = how
    /\ Pushed(Chunk(FinishReason, 0, None0))
    /\ UNCHANGED <<orderly, hasToolCalls, hidden, toolIndices, nextIndex, announced>>

\* error: an error object, without the role; the stream goes on.
ErrorEvent ==
    /\ OneEvent
    /\ wire' = Append(wire, Chunk("error", 0, None0))
    /\ UNCHANGED <<orderly, roleSent, hasToolCalls, hidden, toolIndices, nextIndex, announced,
                   ending>>

\* response.incomplete is one of the events the bridge does not know.
EndedIncomplete ==
    /\ OneEvent /\ ending' = "incomplete"
    /\ UNCHANGED <<orderly, roleSent, hasToolCalls, hidden, toolIndices, nextIndex, announced,
                   wire>>

ChatBridgeNext ==
    \/ \E i \in Texts : OutputTextDelta(i) \/ ItemAddedMessage(i)
    \/ \E type \in {"reasoning", "refusal"} : OtherDelta(type)
    \/ \E i \in Calls : ItemAddedCall(i) \/ ArgumentsDelta(i) \/ ArgumentsDone(i)
    \/ \E how \in {"completed", "failed"} : Ended(how)
    \/ ErrorEvent \/ EndedIncomplete

ChatBridgeSpec == ChatBridgeInit /\ [][ChatBridgeNext]_chatBridgeVars

\* finish_reason_for_status, of a response that was not streamed.
FinishReasonForStatus(status, calls) ==
    CASE status = "completed" -> IF calls THEN "tool_calls" ELSE "stop"
      [] status = "incomplete" -> "length"
      [] status = "failed" -> "stop"
-----------------------------------------------------------------------------
(* Properties                                                               *)

OnWire(type) == {k \in DOMAIN wire : wire[k].type = type}

\* The role comes once, and before everything but errors (push_role_if_needed in each
\* branch but those of an error and of arguments, which an announcement precedes).
RoleComesFirst ==
    orderly => \A k \in DOMAIN wire : wire[k].type # "error" =>
        (wire[k].type = "role" <=> \A j \in 1..(k - 1) : wire[j].type = "error")

\* Arguments reach the client under the index their own call was announced with, and no
\* two calls share one (tool_call_indices).
ArgumentsReachTheirCall ==
    orderly => \A k \in OnWire("arguments") : \E a \in OnWire("call") :
        /\ a < k /\ wire[a].item = wire[k].item
        /\ \A b \in OnWire("call") : wire[b].index = wire[k].index <=> b = a

\* Commentary is never shown as the answer (hidden_text_item_ids).
CommentaryHidden ==
    orderly => \A k \in OnWire("text") : ItemKind[wire[k].item] # "commentary"

\* A response that completes ends with the finish reason the same response would have if
\* it were not streamed: the two conversions agree.
FinishAgrees ==
    (orderly /\ ending = "completed") =>
        wire[Len(wire)].type = FinishReasonForStatus("completed", announced \cap Calls # {})

\* The chunks of a response say what its items said: each part in its place, none shown
\* that is hidden, and the right end.
ChunksTrue == RoleComesFirst /\ ArgumentsReachTheirCall /\ CommentaryHidden /\ FinishAgrees
=============================================================================
