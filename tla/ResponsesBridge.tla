--------------------------- MODULE ResponsesBridge ---------------------------
(***************************************************************************)
(* A streamed chat completion rewritten into the events of the Responses   *)
(* API (ide_adapation/cursor_responses_openrouter_bridge.rs), for clients  *)
(* that speak Responses to providers that do not.  The state is that of    *)
(* CursorChatToResponsesStreamState and the events sent so far.            *)
(***************************************************************************)
EXTENDS Naturals, Sequences, FiniteSets

CONSTANTS ToolIndexes,  \* the indexes of the tool calls
          MaxChunks     \* bound on the chunks of a stream

Shells == {"message", "reasoning"}     \* message_item_id, reasoning_item_id

ASSUME BridgeAssumption == MaxChunks \in Nat /\ ToolIndexes \cap (Shells \cup {"response"}) = {}

Items == Shells \cup ToolIndexes
Finishes == {"stop", "tool_calls", "length"}

VARIABLES
    codex,       \* emit_tool_done_events, emit_content_part_shell_events
    namesFirst,  \* whether the provider names a tool in its first entry
    finishesLast,\* whether it sends no choice after the one with the finish reason; the
                 \* bridge checks neither
    started,
    added,       \* the items announced: the two shells' flags and `added' of each track
    track,       \* tools: ToolIndexes seen -> arguments gathered and done flag
    lastFinish,
    upstream,    \* the provider's body: open, ended or broken
    chunks,      \* chunks so far
    sent         \* the events sent to the client

bridgeVars == <<codex, namesFirst, finishesLast, started, added, track, lastFinish, upstream,
                chunks, sent>>

Event(type, item) == [type |-> type, item |-> item, arguments |-> 0]
ToolEvent(type, i, n) == [type |-> type, item |-> i, arguments |-> n]

EventTypes == {"created", "in_progress", "added", "part_added", "delta", "refusal",
               "arguments_done", "item_done", "completed", "incomplete"}

BridgeTypeOK ==
    /\ codex \in BOOLEAN /\ started \in BOOLEAN
    /\ namesFirst \in BOOLEAN /\ finishesLast \in BOOLEAN
    /\ added \subseteq Items
    /\ DOMAIN track \subseteq ToolIndexes
    /\ \A i \in DOMAIN track : track[i] \in [arguments : 0..MaxChunks, done : BOOLEAN]
    /\ lastFinish \in Finishes \cup {"none"}
    /\ upstream \in {"open", "ended", "broken"}
    /\ chunks \in 0..MaxChunks
    /\ \A e \in {sent[k] : k \in DOMAIN sent} :
          /\ e.type \in EventTypes /\ e.item \in Items \cup {"response"}
          /\ e.arguments \in 0..MaxChunks

BridgeInit ==
    /\ codex \in BOOLEAN /\ namesFirst \in BOOLEAN /\ finishesLast \in BOOLEAN
    /\ started = FALSE /\ added = {}
    /\ track = [i \in {} |-> 0]
    /\ lastFinish = "none" /\ upstream = "open" /\ chunks = 0
    /\ sent = <<>>

\* ensure_header.
Header == IF started THEN <<>>
          ELSE <<Event("created", "response"), Event("in_progress", "response")>>

\* ensure_message_streaming_shell, ensure_reasoning_streaming_shell.
ShellEvents(item) ==
    IF item \in added THEN <<>>
    ELSE <<Event("added", item)>>
         \o (IF item = "message" /\ codex THEN <<Event("part_added", item)>> ELSE <<>>)

\* As if the events of a tool were repeated with every later chunk.
ToolDone_Again(t, a, finish) ==
    IF ~codex \/ finish # "tool_calls" THEN {} ELSE {i \in DOMAIN t : i \in a}

\* The tools emit_tool_done_events closes.
ToolDone(t, a, finish) ==
    IF ~codex \/ finish # "tool_calls" THEN {} ELSE {i \in DOMAIN t : i \in a /\ ~t[i].done}

\* ... and its events, in some order of the map.
DoneEvents(t, order) ==
    [k \in 1..2 * Len(order) |->
        LET i == order[(k + 1) \div 2]
        IN  ToolEvent(IF k % 2 = 1 THEN "arguments_done" ELSE "item_done", i, t[i].arguments)]
Orders(S) == {s \in [1..Cardinality(S) -> S] : \A i, j \in DOMAIN s : s[i] = s[j] => i = j}

\* last_finish after a chunk that has the given finish reason or none.
Latest(finish) == IF finish = "none" THEN lastFinish ELSE finish

\* The end of process_upstream_chat_chunk, after the deltas of the chunk: `evs' were
\* sent for them, t and a are the tracks and the announced items.
ChunkDone(evs, t, a, finish) ==
    LET closed == ToolDone(t, a, Latest(finish)) IN
    /\ chunks < MaxChunks /\ chunks' = chunks + 1
    /\ started' = TRUE
    /\ lastFinish' = Latest(finish)
    /\ added' = a
    /\ track' = [i \in DOMAIN t |-> [t[i] EXCEPT !.done = @ \/ i \in closed]]
    /\ \E order \in Orders(closed) : sent' = sent \o Header \o evs \o DoneEvents(t, order)
    /\ UNCHANGED <<codex, namesFirst, finishesLast, upstream>>

\* A chunk with a choice, before or after the one with the finish reason.
Choice == upstream = "open" /\ (finishesLast => lastFinish = "none")

\* A chunk of content or of reasoning.  A chunk with several parts is one chunk for each.
TextChunk(item, finish) ==
    /\ Choice
    /\ ChunkDone(ShellEvents(item) \o <<Event("delta", item)>>, track, added \cup {item}, finish)

RefusalChunk(finish) ==
    /\ Choice
    /\ ChunkDone(<<Event("refusal", "response")>>, track, added, finish)

\* The announcement of tool i: once, when its name is known.
ToolAdded(i, named) == IF named /\ i \notin added THEN <<Event("added", i)>> ELSE <<>>

ToolEvents(i, named, args) ==
    ToolAdded(i, named) \o (IF args THEN <<Event("delta", i)>> ELSE <<>>)

\* The track of tool i after an entry of delta.tool_calls.
ToolTrack(i, args) ==
    LET before == IF i \in DOMAIN track THEN track[i] ELSE [arguments |-> 0, done |-> FALSE]
    IN  [before EXCEPT !.arguments = IF args THEN @ + 1 ELSE @]

\* A chunk with an entry of delta.tool_calls: with or without the name, with or without
\* arguments.  Arguments that come before the name are sent before the announcement.
ToolChunk(i, named, args, finish) ==
    LET t == [j \in DOMAIN track \cup {i} |-> IF j = i THEN ToolTrack(i, args) ELSE track[j]]
    IN  /\ namesFirst /\ i \notin DOMAIN track => named
        /\ Choice
        /\ ChunkDone(ToolEvents(i, named, args), t,
                     IF named THEN added \cup {i} ELSE added, finish)

\* A chunk without a choice: the usage, or a choice with the finish reason alone.
FinishChunk(finish) ==
    /\ Choice
    /\ ChunkDone(<<>>, track, added, finish)
UsageChunk ==
    /\ upstream = "open"
    /\ ChunkDone(<<>>, track, added, "none")

\* finalize_stream, chained to the end of the body: response.completed with its status,
\* and [DONE].
Finalize ==
    /\ upstream = "open" /\ upstream' = "ended"
    /\ sent' = Append(sent, Event(IF lastFinish = "length" THEN "incomplete" ELSE "completed",
                                  "response"))
    /\ UNCHANGED <<codex, namesFirst, finishesLast, started, added, track, lastFinish, chunks>>

\* The body breaks or a payload does not parse: the client's stream ends with the error.
StreamError ==
    /\ upstream = "open" /\ upstream' = "broken"
    /\ UNCHANGED <<codex, namesFirst, finishesLast, started, added, track, lastFinish, chunks, sent>>

BridgeNext ==
    \/ \E finish \in Finishes \cup {"none"} :
          \/ \E item \in Shells : TextChunk(item, finish)
          \/ RefusalChunk(finish)
          \/ \E i \in ToolIndexes : \E named, args \in BOOLEAN : ToolChunk(i, named, args, finish)
          \/ FinishChunk(finish)
    \/ UsageChunk
    \/ Finalize \/ StreamError

BridgeSpec == BridgeInit /\ [][BridgeNext]_bridgeVars
-----------------------------------------------------------------------------
(* Properties                                                               *)

Terminal == {"completed", "incomplete"}
SentAt(type, item) == {k \in DOMAIN sent : sent[k].type = type /\ sent[k].item = item}

\* The client is told that the response is over once, as the last event, only when the
\* provider's body ended without an error (finalize_stream is chained to the body), and
\* as incomplete exactly when the provider stopped at the token limit.
OverOnlyAtTheEnd ==
    \A k \in DOMAIN sent : sent[k].type \in Terminal =>
        /\ k = Len(sent) /\ upstream = "ended"
        /\ sent[k].type = "incomplete" <=> lastFinish = "length"
        /\ chunks > 0 => sent[1].type = "created"

\* No event refers to an item before the client was told of it, once: clients require it
\* for text; for tools it holds for providers that name the tool in its first entry.
DeltasAnnounced ==
    /\ \A item \in Items : Cardinality(SentAt("added", item)) <= 1
    /\ \A item \in IF namesFirst THEN Items ELSE Shells :
          \A d \in SentAt("delta", item) : \E a \in SentAt("added", item) : a < d

\* A Codex client sees every announced tool of a stream that finished with tool_calls
\* closed once, before the response is over; if the provider sends no choice after its
\* finish reason, after the tool's last arguments and with all of them (tr.done).
ToolsClosedWhole ==
    (codex /\ lastFinish = "tool_calls") =>
        \A i \in ToolIndexes \cap added :
            \E k \in DOMAIN sent :
                /\ SentAt("item_done", i) = {k}
                /\ SentAt("arguments_done", i) = {k - 1}
                /\ finishesLast => /\ sent[k].arguments = Cardinality(SentAt("delta", i))
                                   /\ \A d \in SentAt("delta", i) : d < k - 1

\* The events of a response come in the order its clients rely on, announced, whole and
\* ended once.
EventsInOrder == OverOnlyAtTheEnd /\ DeltasAnnounced /\ ToolsClosedWhole
=============================================================================
