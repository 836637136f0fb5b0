-------------------------- MODULE ChatToolObserver --------------------------
(***************************************************************************)
(* The tool calls of a streamed chat completion, put together again from   *)
(* the deltas of its frames (agent/tool_observer.rs                        *)
(* observe_chat_completion_stream_tool_calls).  A delta names its call by  *)
(* an index, by an identifier, by both or by neither; the observer keeps a *)
(* draft for each call it can tell apart and an alias for each name it has *)
(* seen.  The actions are the entries of the frames, in their order.       *)
(***************************************************************************)
EXTENDS Naturals, Sequences, FiniteSets

CONSTANTS ModelCalls,    \* the tool calls the model makes, all of one choice
          IndexOf, IdOf, \* what tells them apart
          NameOf,        \* the tool of each call; two calls may have the same
          Absent,        \* a field the delta does not have
          MaxDrafts,     \* MAX_OBSERVED_CHAT_STREAM_TOOL_CALLS
          MaxChars,      \* MAX_CHAT_STREAM_ARGUMENT_CHARS_PER_TOOL
          MaxFrames,     \* MAX_CHAT_STREAM_FRAMES
          MaxDeltas      \* bound on the deltas of a stream

ASSUME ObserverAssumption ==
    /\ MaxDrafts \in Nat \ {0} /\ MaxChars \in Nat \ {0}
    /\ MaxFrames \in Nat /\ MaxDeltas \in Nat
    /\ \A c, d \in ModelCalls : c # d => IndexOf[c] # IndexOf[d] /\ IdOf[c] # IdOf[d]
    /\ \A c \in ModelCalls : Absent \notin {IndexOf[c], IdOf[c], NameOf[c]}
    /\ \A c, d \in ModelCalls : IndexOf[c] # IdOf[d]   \* variants of ChatStreamToolKey

VARIABLES
    names,     \* which names the provider gives: always the index, always the id, any
    drafts,    \* the drafts, in the order of their calls
    aliases,   \* draft_indexes: index or id -> position of the draft
    given,     \* the arguments of each call in the frames, as <<call, n>>
    deltas,    \* entries so far
    frames,    \* frames so far, MaxFrames + 1 past the limit
    over,      \* the provider has sent the finish reason
    doneSeen   \* [DONE] was read

chatVars == <<names, drafts, aliases, given, deltas, frames, over, doneSeen>>

Named == {IndexOf[c] : c \in ModelCalls} \cup {IdOf[c] : c \in ModelCalls}
Draft == [index : {IndexOf[c] : c \in ModelCalls} \cup {Absent},
          id : {IdOf[c] : c \in ModelCalls} \cup {Absent},
          name : {NameOf[c] : c \in ModelCalls} \cup {Absent},
          arguments : Seq(ModelCalls \X Nat), truncated : BOOLEAN, finished : BOOLEAN,
          of : SUBSET ModelCalls]

ChatTypeOK ==
    /\ names \in {"index", "id", "any"}
    /\ drafts \in Seq(Draft) /\ Len(drafts) <= MaxDrafts
    /\ \A i \in DOMAIN drafts : Len(drafts[i].arguments) <= MaxChars
    /\ DOMAIN aliases \subseteq Named
    /\ \A n \in DOMAIN aliases : aliases[n] \in 1..Len(drafts)
    /\ given \in [ModelCalls -> Seq(ModelCalls \X Nat)]
    /\ deltas \in 0..MaxDeltas /\ frames \in 0..MaxFrames + 1
    /\ over \in BOOLEAN /\ doneSeen \in BOOLEAN

ChatInit ==
    /\ names \in {"index", "id", "any"}
    /\ drafts = <<>>
    /\ aliases = [n \in {} |-> 0]
    /\ given = [c \in ModelCalls |-> <<>>]
    /\ deltas = 0 /\ frames = 0
    /\ over = FALSE /\ doneSeen = FALSE

\* A delta of call c: the fields it shows, whether one of them is the arguments, and how
\* many characters they have.
Deltas(c) ==
    {e \in [call : {c},
            index : {IndexOf[c]} \cup IF names = "index" THEN {} ELSE {Absent},
            id : {IdOf[c]} \cup IF names = "id" THEN {} ELSE {Absent},
            name : {NameOf[c], Absent},
            has : BOOLEAN, chars : 0..MaxChars] : e.has \/ e.chars = 0}

\* chat_stream_tool_keys.
KeysOf(e) == {e.index, e.id} \ {Absent}

Positions(P(_)) == {i \in DOMAIN drafts : P(drafts[i])}
First(S) == IF S = {} THEN 0 ELSE CHOOSE i \in S : \A j \in S : i <= j

\* unique_chat_stream_draft_candidate: a draft known by its id alone takes over the index,
\* if it is the only one of the tool.
Candidate(e) ==
    LET S == Positions(LAMBDA d : /\ d.index = Absent /\ d.id # Absent
                                  /\ e.name # Absent /\ d.name = e.name)
    IN  IF Cardinality(S) = 1 THEN First(S) ELSE 0

\* The match of find_chat_stream_draft_index on the fields of the drafts; 0: none.
FindByFields(e) ==
    LET same == First(Positions(LAMBDA d : d.index = e.index /\ d.id = Absent))
    IN  CASE e.index # Absent /\ e.id = Absent -> IF same # 0 THEN same ELSE Candidate(e)
          [] e.index = Absent /\ e.id # Absent -> First(Positions(LAMBDA d : d.id = e.id))
          [] e.index # Absent /\ e.id # Absent ->
                First(Positions(LAMBDA d : d.index = e.index \/ d.id = e.id))
          [] e.index = Absent /\ e.id = Absent -> 0

\* find_chat_stream_draft_index: the alias of the index, else that of the id, else the
\* fields of the drafts.
FindDraft(e) ==
    CASE e.index \in DOMAIN aliases -> aliases[e.index]
      [] e.index \notin DOMAIN aliases /\ e.id \in DOMAIN aliases -> aliases[e.id]
      [] e.index \notin DOMAIN aliases /\ e.id \notin DOMAIN aliases -> FindByFields(e)

NewDraft(e) ==
    [index |-> e.index, id |-> e.id, name |-> Absent, arguments |-> <<>>, truncated |-> FALSE,
     finished |-> FALSE, of |-> {}]

Or(a, b) == IF a = Absent THEN b ELSE a

\* The characters the delta adds to the arguments of its call.
Characters(e) == [n \in 1..e.chars |-> <<e.call, Len(given[e.call]) + n>>]

\* append_chat_stream_arguments: as many characters as there is room for.
Room(d) == MaxChars - Len(d.arguments)
Appended(d, s) == d.arguments \o SubSeq(s, 1, IF Len(s) < Room(d) THEN Len(s) ELSE Room(d))

\* As if only what comes after full arguments were reported as a cut.
Truncates_WhenFull(d, s) == Room(d) = 0

\* Also an empty addition to full arguments truncates.
Truncates(d, s) == Room(d) = 0 \/ Len(s) > Room(d)

\* What an entry gives to its draft: each field once, the arguments if it has any.
Updated(d, e) ==
    [index |-> Or(d.index, e.index), id |-> Or(d.id, e.id), name |-> Or(d.name, e.name),
     arguments |-> IF e.has THEN Appended(d, Characters(e)) ELSE d.arguments,
     truncated |-> d.truncated \/ (e.has /\ Truncates(d, Characters(e))),
     finished |-> d.finished, of |-> d.of \cup {e.call}]

\* register_chat_stream_key_aliases.
Alias(e, i) ==
    [n \in DOMAIN aliases \cup KeysOf(e) |-> IF n \in KeysOf(e) THEN i ELSE aliases[n]]

\* An entry is in a new frame or in that of the entry before it.  Frames past the limit
\* are not read; they count as one.
NextFrame == frames' \in {frames, IF frames > MaxFrames THEN frames ELSE frames + 1} \ {0}
Read == frames' <= MaxFrames

\* One entry of delta.tool_calls; without a name, or past the limit, it is skipped.
ObserveDelta(e) ==
    /\ deltas < MaxDeltas /\ ~over
    /\ deltas' = deltas + 1
    /\ given' = [given EXCEPT ![e.call] = @ \o Characters(e)]
    /\ NextFrame
    /\ LET found == FindDraft(e)
           i == IF found # 0 THEN found ELSE Len(drafts) + 1
       IN  IF ~Read \/ KeysOf(e) = {} \/ i > MaxDrafts
           THEN UNCHANGED <<drafts, aliases>>
           ELSE /\ aliases' = Alias(e, i)
                /\ drafts' = IF found # 0
                             THEN [drafts EXCEPT ![i] = Updated(@, e)]
                             ELSE Append(drafts, Updated(NewDraft(e), e))
    /\ UNCHANGED <<names, over, doneSeen>>

\* The finish reason "tool_calls" of the choice, after its last delta.
ObserveFinish ==
    /\ ~over
    /\ over' = TRUE
    /\ NextFrame
    /\ drafts' = [i \in DOMAIN drafts |-> [drafts[i] EXCEPT !.finished = @ \/ Read]]
    /\ UNCHANGED <<names, aliases, given, deltas, doneSeen>>

ObserveDone ==
    /\ over /\ ~doneSeen /\ frames <= MaxFrames
    /\ frames' = frames + 1
    /\ doneSeen' = Read
    /\ UNCHANGED <<names, drafts, aliases, given, deltas, over>>

ChatNext ==
    \/ \E c \in ModelCalls : \E e \in Deltas(c) : ObserveDelta(e)
    \/ ObserveFinish \/ ObserveDone

ChatSpec == ChatInit /\ [][ChatNext]_chatVars

\* aggregation_status, and the last part of idempotency_key.
Complete(d) == ~d.truncated /\ (d.finished \/ doneSeen)
KeyPart(d) == IF d.index # Absent THEN d.index ELSE d.id
-----------------------------------------------------------------------------
(* Properties                                                               *)

\* Each event the observer emits has its own idempotency key, whatever the provider shows:
\* no event is taken for a repetition of another (aliases and take-overs by name).
KeysDistinct ==
    \A i, j \in DOMAIN drafts : i # j => KeyPart(drafts[i]) # KeyPart(drafts[j])

\* From a provider that always gives the index, or always the identifier, every draft is
\* made of the deltas of one call, no call has two drafts, and its arguments are the
\* call's in their order, up to the limit; other providers' calls may be mixed up
\* (the candidate by name).
DraftIsOneCall ==
    names # "any" =>
        /\ \A i, j \in DOMAIN drafts : i # j => drafts[i].of \cap drafts[j].of = {}
        /\ \A i \in DOMAIN drafts : \E c \in ModelCalls :
              /\ drafts[i].of = {c}
              /\ Len(drafts[i].arguments) <= Len(given[c])
              /\ \A n \in 1..Len(drafts[i].arguments) : drafts[i].arguments[n] = given[c][n]

\* An event that is reported complete has all of the arguments the provider sent for the
\* call (truncated is set whenever something is left out).
CompleteIsWhole ==
    names # "any" =>
        \A i \in DOMAIN drafts : Complete(drafts[i]) =>
            \A c \in drafts[i].of : drafts[i].arguments = given[c]

\* The observer puts the calls of a stream together right: separate keys, nothing mixed up,
\* nothing reported complete that is not.
CallsPutTogether == KeysDistinct /\ DraftIsOneCall /\ CompleteIsWhole
=============================================================================
