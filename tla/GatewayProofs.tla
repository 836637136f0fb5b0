---------------------------- MODULE GatewayProofs ----------------------------
(***************************************************************************)
(* What surrounds the provider call, for any number of items, tools,       *)
(* events and chunks: the two protocol bridges keep the order their        *)
(* clients rely on, and the parts together keep what each promises alone.  *)
(*                                                                         *)
(* What a bridge has sent is a history and its state remembers little of   *)
(* it: both invariants say which part of the history the state stands for  *)
(* - the indexes that were given out, the items that were announced, the   *)
(* arguments that were gathered - and the lemmas say what one more event   *)
(* does to it.                                                             *)
(***************************************************************************)
EXTENDS MCGateway, AccountingProofs, ProviderFailoverProofs, FiniteSetTheorems,
        SequenceTheorems, TLAPS

-----------------------------------------------------------------------------
(* ChatBridge                                                              *)

\* The chunks on the wire.
ChunkTypes == {"role", "text", "reasoning", "refusal", "call", "arguments", "stop",
               "tool_calls", "error"}
BridgeChunks == [type : ChunkTypes, index : Nat, item : OutputItems \cup {None0}]

\* The types the induction uses.
ChatBridgeTypes ==
    /\ orderly \in BOOLEAN /\ roleSent \in BOOLEAN /\ hasToolCalls \in BOOLEAN
    /\ hidden \subseteq Texts /\ announced \subseteq OutputItems /\ IsFiniteSet(announced)
    /\ DOMAIN toolIndices = announced \cap Calls
    /\ toolIndices \in [announced \cap Calls -> Nat]
    /\ nextIndex \in Nat /\ nextIndex = Cardinality(announced \cap Calls)
    /\ ending \in {"open", "completed", "failed", "incomplete"}
    /\ eventCount \in 0..MaxEvents
    /\ wire \in Seq(BridgeChunks)

\* Every announced call has an index of its own, below the next one.
IndexesDiffer ==
    /\ \A i \in announced \cap Calls : toolIndices[i] < nextIndex
    /\ \A i, j \in announced \cap Calls : toolIndices[i] = toolIndices[j] => i = j

\* What the state remembers of an orderly stream.
FlagsTrue ==
    orderly => /\ hasToolCalls <=> announced \cap Calls # {}
               /\ announced \cap Calls # {} => roleSent
               /\ \A i \in announced : ItemKind[i] = "commentary" => i \in hidden
               /\ roleSent => \E k \in DOMAIN wire : wire[k].type # "error"
               /\ ~roleSent => \A k \in DOMAIN wire : wire[k].type = "error"

\* The calls on the wire are the announced ones, each once and with its index.
CallsOnWire ==
    /\ \A a \in OnWire("call") : /\ wire[a].item \in announced \cap Calls
                                 /\ wire[a].index = toolIndices[wire[a].item]
    /\ \A a, b \in OnWire("call") : wire[a].item = wire[b].item => a = b

\* Arguments come after their call, with its index.
ArgumentsOnWire ==
    orderly => \A k \in OnWire("arguments") :
        /\ wire[k].item \in announced \cap Calls
        /\ wire[k].index = toolIndices[wire[k].item]
        /\ \E a \in OnWire("call") : a < k /\ wire[a].item = wire[k].item

\* The call of each announced item is on the wire.
AnnouncedOnWire ==
    \A i \in announced \cap Calls : \E a \in OnWire("call") : wire[a].item = i

\* What holds of a stream at every moment.
ChatBridgeInv ==
    /\ ChatBridgeTypes
    /\ IndexesDiffer /\ FlagsTrue
    /\ CallsOnWire /\ AnnouncedOnWire /\ ArgumentsOnWire
    /\ RoleComesFirst /\ CommentaryHidden /\ FinishAgrees
\* The wire after a step that sends chunk c, after the role if r is 1.
Grown(r, c) ==
    /\ wire' \in Seq(BridgeChunks) /\ Len(wire') = Len(wire) + r + 1
    /\ \A k \in 1..Len(wire) : wire'[k] = wire[k]
    /\ r = 1 => wire'[Len(wire) + 1].type = "role"
    /\ wire'[Len(wire')] = c

\* The fields of a chunk.
LEMMA ChunkFields ==
    ASSUME NEW type \in ChunkTypes, NEW index \in Nat, NEW item \in OutputItems \cup {None0}
    PROVE  /\ Chunk(type, index, item) \in BridgeChunks /\ Chunk(type, index, item).type = type
           /\ Chunk(type, index, item).index = index /\ Chunk(type, index, item).item = item
BY DEF Chunk, BridgeChunks

\* A chunk pushed after the role, if that has not been sent, is one of the two ways to grow.
LEMMA PushedGrows ==
    ASSUME ChatBridgeTypes, NEW c \in BridgeChunks, Pushed(c)
    PROVE  roleSent' = TRUE /\ Grown(IF roleSent THEN 0 ELSE 1, c)
<1>0. wire \in Seq(BridgeChunks) /\ Len(wire) \in Nat
  BY DEF ChatBridgeTypes
<1>1. CASE roleSent
  <2>1. wire' = wire \o <<>> \o <<c>>
    BY <1>1 DEF Pushed, RoleChunk
  <2>2. wire \o <<>> = wire
    BY <1>0
  <2>3. wire' = Append(wire, c)
    BY <1>0, <2>1, <2>2
  <2>4. Grown(0, c)
    BY <1>0, <2>3 DEF Grown
  <2> QED  BY <1>1, <2>4 DEF Pushed
<1>2. CASE ~roleSent
  <2> DEFINE role == Chunk("role", 0, None0)
  <2>1. role \in BridgeChunks /\ role.type = "role"
    BY ChunkFields DEF ChunkTypes
  <2> HIDE DEF role
  <2>2. wire' = wire \o <<role>> \o <<c>>
    BY <1>2 DEF Pushed, RoleChunk, role
  <2>3. wire \o <<role>> = Append(wire, role)
    BY <1>0, <2>1
  <2>4. wire' = Append(Append(wire, role), c)
    BY <1>0, <2>1, <2>2, <2>3
  <2>5. Append(wire, role) \in Seq(BridgeChunks) /\ Len(Append(wire, role)) = Len(wire) + 1
    BY <1>0, <2>1
  <2>6. Grown(1, c)
    BY <1>0, <2>1, <2>4, <2>5 DEF Grown
  <2> QED  BY <1>2, <2>6 DEF Pushed
<1> QED  BY <1>1, <1>2

\* A chunk without the role is the other.
LEMMA AppendedGrows ==
    ASSUME ChatBridgeTypes, NEW c \in BridgeChunks, wire' = Append(wire, c)
    PROVE  Grown(0, c)
BY DEF Grown, ChatBridgeTypes

\* The chunks of a type after such a step.
LEMMA GrownOnWire ==
    ASSUME ChatBridgeTypes, NEW c \in BridgeChunks, NEW r \in {0, 1}, Grown(r, c)
    PROVE  /\ DOMAIN wire = 1..Len(wire) /\ DOMAIN wire' = 1..Len(wire') /\ Len(wire) \in Nat
           /\ \A type : type # "role" =>
                OnWire(type)' = OnWire(type) \cup (IF c.type = type THEN {Len(wire')} ELSE {})
           /\ \A k \in 1..Len(wire') : \/ k \in 1..Len(wire) /\ wire'[k] = wire[k]
                                       \/ k = Len(wire') /\ wire'[k] = c
                                       \/ r = 1 /\ k = Len(wire) + 1 /\ wire'[k].type = "role"
<1>1. /\ DOMAIN wire = 1..Len(wire) /\ DOMAIN wire' = 1..Len(wire') /\ Len(wire) \in Nat
      /\ Len(wire') \in Nat
  BY DEF ChatBridgeTypes, Grown
<1>2. \A k \in 1..Len(wire') : \/ k \in 1..Len(wire) /\ wire'[k] = wire[k]
                               \/ k = Len(wire') /\ wire'[k] = c
                               \/ r = 1 /\ k = Len(wire) + 1 /\ wire'[k].type = "role"
  BY <1>1 DEF Grown
<1>3. Len(wire') \in 1..Len(wire') /\ Len(wire') > Len(wire) /\ wire'[Len(wire')] = c
      /\ (\A k \in 1..Len(wire) : k \in 1..Len(wire') /\ wire'[k] = wire[k])
  BY <1>1 DEF Grown
<1>4. ASSUME NEW type, type # "role"
      PROVE  OnWire(type)' = OnWire(type) \cup (IF c.type = type THEN {Len(wire')} ELSE {})
  BY <1>1, <1>2, <1>3, <1>4 DEF OnWire
<1> QED  BY <1>1, <1>2, <1>4

\* The invariant holds of a stream nothing of which has come.
LEMMA ChatBridgeInitInv == ChatBridgeInit => ChatBridgeInv
<1> SUFFICES ASSUME ChatBridgeInit  PROVE ChatBridgeInv
  OBVIOUS
<1>1. wire = <<>> /\ Len(wire) = 0 /\ DOMAIN wire = {} /\ announced = {}
  BY DEF ChatBridgeInit
<1>2. ChatBridgeTypes
  <2>1. announced \cap Calls = {} /\ Cardinality(announced \cap Calls) = 0 /\ IsFiniteSet(announced)
    BY <1>1, FS_EmptySet
  <2>2. toolIndices \in [announced \cap Calls -> Nat] /\ DOMAIN toolIndices = announced \cap Calls
    BY <2>1 DEF ChatBridgeInit
  <2>3. orderly \in BOOLEAN /\ roleSent \in BOOLEAN /\ hasToolCalls \in BOOLEAN
    BY DEF ChatBridgeInit
  <2>4. nextIndex = 0 /\ eventCount = 0 /\ ending = "open" /\ hidden = {}
    BY DEF ChatBridgeInit
  <2> QED  BY <1>1, <2>1, <2>2, <2>3, <2>4, ChatBridgeAssumption DEF ChatBridgeTypes
<1>3. IndexesDiffer
  BY <1>1 DEF IndexesDiffer
<1>4. FlagsTrue
  BY <1>1 DEF FlagsTrue, ChatBridgeInit
<1>5. OnWire("call") = {} /\ OnWire("arguments") = {} /\ OnWire("text") = {}
  BY <1>1 DEF OnWire
<1>6. CallsOnWire /\ AnnouncedOnWire /\ ArgumentsOnWire /\ CommentaryHidden
  BY <1>1, <1>5 DEF CallsOnWire, AnnouncedOnWire, ArgumentsOnWire, CommentaryHidden
<1>7. RoleComesFirst /\ FinishAgrees
  BY <1>1 DEF RoleComesFirst, FinishAgrees, ChatBridgeInit
<1> QED  BY <1>2, <1>3, <1>4, <1>6, <1>7 DEF ChatBridgeInv

\* The role comes before a chunk, once.
LEMMA RoleStaysFirst ==
    ASSUME ChatBridgeInv, NEW c \in BridgeChunks, NEW r \in {0, 1}, Grown(r, c), c.type # "role",
           orderly' = orderly,
           roleSent => r = 0,
           ~roleSent => r = 1 \/ c.type = "error" \/ ~orderly
    PROVE  RoleComesFirst'
<1> SUFFICES ASSUME orderly, NEW k \in DOMAIN wire', wire'[k].type # "error"
             PROVE  wire'[k].type = "role" <=> \A j \in 1..(k - 1) : wire'[j].type = "error"
  BY DEF RoleComesFirst
<1>0. ChatBridgeTypes
  BY DEF ChatBridgeInv
<1>1. /\ DOMAIN wire = 1..Len(wire) /\ DOMAIN wire' = 1..Len(wire') /\ Len(wire) \in Nat
      /\ \A j \in 1..Len(wire') : \/ j \in 1..Len(wire) /\ wire'[j] = wire[j]
                                  \/ j = Len(wire') /\ wire'[j] = c
                                  \/ r = 1 /\ j = Len(wire) + 1 /\ wire'[j].type = "role"
  BY <1>0, GrownOnWire
<1>2. /\ Len(wire') = Len(wire) + r + 1
      /\ \A j \in 1..Len(wire) : wire'[j] = wire[j]
      /\ r = 1 => wire'[Len(wire) + 1].type = "role"
  BY DEF Grown
<1>3. roleSent => \E j \in 1..Len(wire) : wire[j].type # "error"
  BY <1>1 DEF ChatBridgeInv, FlagsTrue
<1>4. ~roleSent => \A j \in 1..Len(wire) : wire[j].type = "error"
  BY <1>1 DEF ChatBridgeInv, FlagsTrue
<1>5. CASE k \in 1..Len(wire) /\ wire'[k] = wire[k]
  <2>1. \A j \in 1..(k - 1) : wire'[j] = wire[j]
    BY <1>1, <1>2, <1>5
  <2>2. wire[k].type = "role" <=> \A j \in 1..(k - 1) : wire[j].type = "error"
    BY <1>1, <1>5 DEF ChatBridgeInv, RoleComesFirst
  <2> QED  BY <1>5, <2>1, <2>2
<1>6. CASE k = Len(wire') /\ wire'[k] = c
  <2>1. \E j \in 1..(k - 1) : wire'[j].type # "error"
    <3>1. CASE roleSent
      <4>1. PICK j \in 1..Len(wire) : wire[j].type # "error"
        BY <1>3, <3>1
      <4>2. j \in 1..(k - 1) /\ wire'[j] = wire[j]
        BY <1>1, <1>2, <1>6, <4>1
      <4> QED  BY <4>1, <4>2
    <3>2. CASE ~roleSent
      <4>1. r = 1 /\ Len(wire) + 1 \in 1..(k - 1)
        BY <1>1, <1>2, <1>6, <3>2
      <4> QED  BY <1>2, <4>1
    <3> QED  BY <3>1, <3>2
  <2> QED  BY <1>6, <2>1
<1>7. CASE r = 1 /\ k = Len(wire) + 1 /\ wire'[k].type = "role"
  <2>1. \A j \in 1..(k - 1) : wire'[j] = wire[j] /\ wire[j].type = "error"
    BY <1>1, <1>2, <1>4, <1>7
  <2> QED  BY <1>7, <2>1
<1> QED  BY <1>1, <1>5, <1>6, <1>7

\* A chunk that announces nothing is sent.
LEMMA ChunkSent ==
    ASSUME ChatBridgeInv, ChatBridgeTypes', NEW c \in BridgeChunks, NEW r \in {0, 1}, Grown(r, c),
           c.type \notin {"role", "call"},
           UNCHANGED <<orderly, hasToolCalls, hidden, toolIndices, nextIndex, announced>>,
           roleSent => r = 0 /\ roleSent',
           ~roleSent => \/ r = 1 /\ roleSent'
                        \/ r = 0 /\ c.type = "error" /\ ~roleSent'
                        \/ c.type = "arguments" /\ ~roleSent',
           orderly /\ c.type = "arguments" =>
               c.item \in announced \cap Calls /\ c.index = toolIndices[c.item],
           orderly /\ c.type = "text" => ItemKind[c.item] # "commentary",
           orderly /\ ending' = "completed" => c.type = FinishReason
    PROVE  ChatBridgeInv'
<1>0. ChatBridgeTypes
  BY DEF ChatBridgeInv
<1>1. /\ DOMAIN wire = 1..Len(wire) /\ DOMAIN wire' = 1..Len(wire') /\ Len(wire) \in Nat
      /\ Len(wire') = Len(wire) + r + 1 /\ Len(wire') \in Nat /\ Len(wire') > Len(wire)
      /\ \A k \in 1..Len(wire) : wire'[k] = wire[k]
      /\ wire'[Len(wire')] = c
  BY <1>0, GrownOnWire DEF Grown
<1>2. \A type : type # "role" =>
        OnWire(type)' = OnWire(type) \cup (IF c.type = type THEN {Len(wire')} ELSE {})
  BY <1>0, GrownOnWire
<1>3. /\ OnWire("call")' = OnWire("call")
      /\ OnWire("call") \subseteq 1..Len(wire) /\ OnWire("arguments") \subseteq 1..Len(wire)
      /\ OnWire("text") \subseteq 1..Len(wire)
  <2>1. OnWire("call")' = OnWire("call")
    BY <1>2
  <2> QED  BY <1>1, <2>1 DEF OnWire
<1>4. FlagsTrue'
  <2>1. orderly => (announced \cap Calls # {} => roleSent)
    BY DEF ChatBridgeInv, FlagsTrue
  <2>2. orderly => (roleSent' => \E k \in DOMAIN wire' : wire'[k].type # "error")
    <3> SUFFICES ASSUME orderly, roleSent'
                 PROVE  \E k \in 1..Len(wire') : wire'[k].type # "error"
      BY <1>1
    <3>1. CASE roleSent
      <4>1. PICK k \in 1..Len(wire) : wire[k].type # "error"
        BY <1>1, <3>1 DEF ChatBridgeInv, FlagsTrue
      <4> QED  BY <1>1, <4>1
    <3>2. CASE ~roleSent
      <4>1. r = 1 /\ wire'[Len(wire) + 1].type = "role"
        BY <3>2 DEF Grown
      <4> QED  BY <1>1, <4>1
    <3> QED  BY <3>1, <3>2
  <2>3. orderly => (~roleSent' => \A k \in DOMAIN wire' : wire'[k].type = "error")
    <3> SUFFICES ASSUME orderly, ~roleSent', NEW k \in 1..Len(wire')
                 PROVE  wire'[k].type = "error"
      BY <1>1
    <3>1. ~roleSent /\ c.type = "error" /\ r = 0
      BY <2>1
    <3>2. \A j \in 1..Len(wire) : wire[j].type = "error"
      BY <1>1, <3>1 DEF ChatBridgeInv, FlagsTrue
    <3> QED  BY <1>1, <3>1, <3>2
  <2> QED  BY <2>1, <2>2, <2>3 DEF ChatBridgeInv, FlagsTrue
<1>5. IndexesDiffer'
  BY DEF ChatBridgeInv, IndexesDiffer
<1>6. CallsOnWire'
  BY <1>1, <1>3 DEF ChatBridgeInv, CallsOnWire
<1>7. AnnouncedOnWire'
  BY <1>1, <1>3 DEF ChatBridgeInv, AnnouncedOnWire
<1>8. ArgumentsOnWire'
  <2> SUFFICES ASSUME orderly, NEW k \in OnWire("arguments")'
               PROVE  /\ wire'[k].item \in announced \cap Calls
                      /\ wire'[k].index = toolIndices[wire'[k].item]
                      /\ \E a \in OnWire("call")' : a < k /\ wire'[a].item = wire'[k].item
    BY DEF ArgumentsOnWire
  <2>1. CASE k \in OnWire("arguments")
    <3>1. PICK a \in OnWire("call") : a < k /\ wire[a].item = wire[k].item
      BY <2>1 DEF ChatBridgeInv, ArgumentsOnWire
    <3>2. wire'[k] = wire[k] /\ wire'[a] = wire[a]
      BY <1>1, <1>3, <2>1
    <3> QED  BY <1>3, <2>1, <3>1, <3>2 DEF ChatBridgeInv, ArgumentsOnWire
  <2>2. CASE k \notin OnWire("arguments")
    <3>1. k = Len(wire') /\ wire'[k] = c /\ c.type = "arguments"
      BY <1>1, <1>2, <2>2
    <3>2. PICK a \in OnWire("call") : wire[a].item = c.item
      BY <3>1 DEF ChatBridgeInv, AnnouncedOnWire
    <3>3. a < k /\ wire'[a] = wire[a]
      BY <1>1, <1>3, <3>1
    <3> QED  BY <1>3, <3>1, <3>2, <3>3
  <2> QED  BY <2>1, <2>2
<1>9. RoleComesFirst'
  <2>1. orderly /\ ~roleSent => r = 1 \/ c.type = "error"
    BY DEF ChatBridgeInv, FlagsTrue
  <2> QED  BY <2>1, RoleStaysFirst
<1>10. CommentaryHidden'
  <2> SUFFICES ASSUME orderly, NEW k \in OnWire("text")'
               PROVE  ItemKind[wire'[k].item] # "commentary"
    BY DEF CommentaryHidden
  <2>1. CASE k \in OnWire("text")
    BY <1>1, <1>3, <2>1 DEF ChatBridgeInv, CommentaryHidden
  <2>2. CASE k \notin OnWire("text")
    BY <1>1, <1>2, <2>2
  <2> QED  BY <2>1, <2>2
<1>11. FinishAgrees'
  <2> SUFFICES ASSUME orderly, ending' = "completed"
               PROVE  wire'[Len(wire')].type =
                        FinishReasonForStatus("completed", announced' \cap Calls # {})
    BY DEF FinishAgrees
  <2>1. hasToolCalls <=> announced \cap Calls # {}
    BY DEF ChatBridgeInv, FlagsTrue
  <2> QED  BY <1>1, <2>1 DEF FinishReason, FinishReasonForStatus
<1> QED  BY <1>4, <1>5, <1>6, <1>7, <1>8, <1>9, <1>10, <1>11 DEF ChatBridgeInv
\* Nothing is sent, and what the state remembers changes.
LEMMA NothingSent ==
    ASSUME ChatBridgeInv, ChatBridgeTypes', FlagsTrue', wire' = wire,
           UNCHANGED <<orderly, toolIndices, nextIndex>>,
           announced' \cap Calls = announced \cap Calls,
           ending' = "completed" => ending = "completed"
    PROVE  ChatBridgeInv'
<1>1. \A type : OnWire(type)' = OnWire(type)
  BY DEF OnWire
<1>2. IndexesDiffer' /\ CallsOnWire' /\ AnnouncedOnWire' /\ ArgumentsOnWire'
  BY <1>1 DEF ChatBridgeInv, IndexesDiffer, CallsOnWire, AnnouncedOnWire, ArgumentsOnWire
<1>3. RoleComesFirst' /\ CommentaryHidden' /\ FinishAgrees'
  BY <1>1 DEF ChatBridgeInv, RoleComesFirst, CommentaryHidden, FinishAgrees
<1> QED  BY <1>2, <1>3 DEF ChatBridgeInv

\* A call is announced, with the next index.
LEMMA ItemAddedCallOK ==
    ASSUME ChatBridgeInv, NEW i \in Calls, ItemAddedCall(i)
    PROVE  ChatBridgeInv'
<1> DEFINE old == announced \cap Calls
           c == Chunk("call", nextIndex, i)
           r == IF roleSent THEN 0 ELSE 1
<1>0. /\ ChatBridgeTypes /\ i \in OutputItems /\ i \notin announced
      /\ orderly => ending = "open"
      /\ eventCount' \in 0..MaxEvents
  BY ChatBridgeAssumption DEF ChatBridgeInv, ItemAddedCall, Calls, OneEvent, ChatBridgeTypes
<1>1. nextIndex \in Nat /\ nextIndex = Cardinality(old) /\ IsFiniteSet(announced)
      /\ toolIndices \in [old -> Nat] /\ DOMAIN toolIndices = old
  BY <1>0 DEF ChatBridgeTypes
<1>2. c \in BridgeChunks /\ c.type = "call" /\ c.index = nextIndex /\ c.item = i
  BY <1>0, <1>1, ChunkFields DEF ChunkTypes
<1>3. r \in {0, 1} /\ Grown(r, c) /\ roleSent' = TRUE
  BY <1>0, <1>2, PushedGrows DEF ItemAddedCall
<1> HIDE DEF c, r
<1>4. announced' \cap Calls = old \cup {i} /\ i \notin old
  BY <1>0 DEF ItemAddedCall
<1>5. /\ DOMAIN toolIndices' = old \cup {i} /\ toolIndices'[i] = nextIndex
      /\ toolIndices' \in [old \cup {i} -> Nat] /\ \A j \in old : toolIndices'[j] = toolIndices[j]
  BY <1>1, <1>4 DEF ItemAddedCall
<1>6. ChatBridgeTypes'
  <2>1. nextIndex' = Cardinality(old \cup {i}) /\ nextIndex' \in Nat
    <3>1. IsFiniteSet(old)
      BY <1>1, FS_Intersection
    <3>2. Cardinality(old \cup {i}) = Cardinality(old) + 1
      BY <1>4, <3>1, FS_AddElement
    <3> QED  BY <1>1, <3>2 DEF ItemAddedCall
  <2>2. IsFiniteSet(announced') /\ announced' \subseteq OutputItems
    <3>1. IsFiniteSet(announced \cup {i})
      BY <1>1, FS_AddElement
    <3> QED  BY <1>0, <3>1 DEF ItemAddedCall, ChatBridgeTypes
  <2>3. hasToolCalls' \in BOOLEAN /\ roleSent' \in BOOLEAN /\ orderly' = orderly
        /\ hidden' = hidden /\ ending' = ending
    BY <1>3 DEF ItemAddedCall
  <2>4. wire' \in Seq(BridgeChunks)
    BY <1>3 DEF Grown
  <2> QED  BY <1>0, <1>4, <1>5, <2>1, <2>2, <2>3, <2>4 DEF ChatBridgeTypes
<1>7. /\ DOMAIN wire = 1..Len(wire) /\ DOMAIN wire' = 1..Len(wire') /\ Len(wire) \in Nat
      /\ Len(wire') \in Nat /\ Len(wire') > Len(wire)
      /\ \A k \in 1..Len(wire) : wire'[k] = wire[k]
      /\ wire'[Len(wire')] = c
  BY <1>0, <1>2, <1>3, GrownOnWire DEF Grown
<1>8. /\ OnWire("call")' = OnWire("call") \cup {Len(wire')}
      /\ OnWire("arguments")' = OnWire("arguments") /\ OnWire("text")' = OnWire("text")
  <2>1. \A type : type # "role" =>
          OnWire(type)' = OnWire(type) \cup (IF c.type = type THEN {Len(wire')} ELSE {})
    BY <1>0, <1>2, <1>3, GrownOnWire
  <2> QED  BY <1>2, <2>1
<1>9. /\ OnWire("call") \subseteq 1..Len(wire) /\ OnWire("arguments") \subseteq 1..Len(wire)
      /\ OnWire("text") \subseteq 1..Len(wire)
  BY <1>7 DEF OnWire
<1>10. IndexesDiffer'
  <2>1. \A j \in old : toolIndices[j] \in Nat /\ toolIndices[j] < nextIndex
    BY <1>1 DEF ChatBridgeInv, IndexesDiffer
  <2>2. nextIndex' = nextIndex + 1
    BY DEF ItemAddedCall
  <2>3. \A j, k \in old : toolIndices[j] = toolIndices[k] => j = k
    BY DEF ChatBridgeInv, IndexesDiffer
  <2> HIDE DEF old
  <2>4. \A j \in old \cup {i} : toolIndices'[j] < nextIndex'
    BY <1>1, <1>5, <2>1, <2>2
  <2>5. \A j, k \in old \cup {i} : toolIndices'[j] = toolIndices'[k] => j = k
    BY <1>1, <1>5, <2>1, <2>3
  <2> QED  BY <1>4, <2>4, <2>5 DEF IndexesDiffer
<1>11. FlagsTrue'
  <2>1. orderly => \A j \in announced : ItemKind[j] = "commentary" => j \in hidden
    BY DEF ChatBridgeInv, FlagsTrue
  <2>2. ItemKind[i] # "commentary" /\ announced' = announced \cup {i} /\ hidden' = hidden
        /\ hasToolCalls' /\ orderly' = orderly
    BY DEF Calls, ItemAddedCall
  <2>3. announced' \cap Calls # {} /\ \E k \in DOMAIN wire' : wire'[k].type # "error"
    BY <1>2, <1>4, <1>7
  <2> QED  BY <1>3, <2>1, <2>2, <2>3 DEF FlagsTrue
<1>12. CallsOnWire'
  <2>1. \A a \in OnWire("call") : /\ wire[a].item \in old /\ wire[a].index = toolIndices[wire[a].item]
                                  /\ wire'[a] = wire[a]
    BY <1>7, <1>9 DEF ChatBridgeInv, CallsOnWire
  <2>2. \A a, b \in OnWire("call") : wire[a].item = wire[b].item => a = b
    BY DEF ChatBridgeInv, CallsOnWire
  <2> HIDE DEF old
  <2>3. \A a \in OnWire("call")' : /\ wire'[a].item \in old \cup {i}
                                   /\ wire'[a].index = toolIndices'[wire'[a].item]
    BY <1>2, <1>5, <1>7, <1>8, <2>1
  <2>4. \A a, b \in OnWire("call")' : wire'[a].item = wire'[b].item => a = b
    BY <1>2, <1>4, <1>7, <1>8, <2>1, <2>2
  <2> QED  BY <1>4, <2>3, <2>4 DEF CallsOnWire
<1>13. AnnouncedOnWire'
  <2> SUFFICES ASSUME NEW j \in old \cup {i}
               PROVE  \E a \in OnWire("call")' : wire'[a].item = j
    BY <1>4 DEF AnnouncedOnWire
  <2>1. CASE j = i
    BY <1>2, <1>7, <1>8, <2>1
  <2>2. CASE j \in old
    <3>1. PICK a \in OnWire("call") : wire[a].item = j
      BY <2>2 DEF ChatBridgeInv, AnnouncedOnWire
    <3> QED  BY <1>7, <1>8, <1>9, <3>1
  <2> QED  BY <2>1, <2>2
<1>14. ArgumentsOnWire'
  <2> SUFFICES ASSUME orderly, NEW k \in OnWire("arguments")
               PROVE  /\ wire'[k].item \in old \cup {i}
                      /\ wire'[k].index = toolIndices'[wire'[k].item]
                      /\ \E a \in OnWire("call")' : a < k /\ wire'[a].item = wire'[k].item
    BY <1>4, <1>8 DEF ArgumentsOnWire, ItemAddedCall
  <2>1. /\ wire[k].item \in old /\ wire[k].index = toolIndices[wire[k].item]
        /\ \E a \in OnWire("call") : a < k /\ wire[a].item = wire[k].item
    BY DEF ChatBridgeInv, ArgumentsOnWire
  <2>2. PICK a \in OnWire("call") : a < k /\ wire[a].item = wire[k].item
    BY <2>1
  <2>3. wire'[k] = wire[k] /\ wire'[a] = wire[a]
    BY <1>7, <1>9
  <2> QED  BY <1>5, <1>8, <2>1, <2>2, <2>3
<1>15. RoleComesFirst'
  <2>1. (roleSent => r = 0) /\ (~roleSent => r = 1) /\ orderly' = orderly
    BY DEF r, ItemAddedCall
  <2> QED  BY <1>0, <1>2, <1>3, <2>1, RoleStaysFirst
<1>16. CommentaryHidden'
  <2> SUFFICES ASSUME orderly, NEW k \in OnWire("text")
               PROVE  ItemKind[wire'[k].item] # "commentary"
    BY <1>8 DEF CommentaryHidden, ItemAddedCall
  <2> QED  BY <1>7, <1>9 DEF ChatBridgeInv, CommentaryHidden
<1>17. FinishAgrees'
  BY <1>0 DEF FinishAgrees, ItemAddedCall
<1> QED  BY <1>6, <1>10, <1>11, <1>12, <1>13, <1>14, <1>15, <1>16, <1>17 DEF ChatBridgeInv

\* The steps that send a chunk, or none, and announce no call.
LEMMA ChatBridgeStepInv ==
    ChatBridgeInv /\ [ChatBridgeNext]_chatBridgeVars => ChatBridgeInv'
<1> SUFFICES ASSUME ChatBridgeInv, [ChatBridgeNext]_chatBridgeVars  PROVE ChatBridgeInv'
  OBVIOUS
<1>0. ChatBridgeTypes
  BY DEF ChatBridgeInv
<1>1. CASE UNCHANGED chatBridgeVars
  <2>1. ChatBridgeTypes' /\ FlagsTrue'
    BY <1>1 DEF ChatBridgeInv, ChatBridgeTypes, FlagsTrue, chatBridgeVars
  <2> QED  BY <1>1, <2>1, NothingSent DEF chatBridgeVars
<1>2. ASSUME NEW c \in BridgeChunks, Pushed(c), OneEvent, c.type \notin {"role", "call", "arguments"},
             UNCHANGED <<orderly, hasToolCalls, hidden, toolIndices, nextIndex, announced>>,
             ending' = ending \/ ending' \in {"completed", "failed"},
             orderly /\ c.type = "text" => ItemKind[c.item] # "commentary",
             orderly /\ ending' = "completed" => c.type = FinishReason
      PROVE  ChatBridgeInv'
  <2> DEFINE r == IF roleSent THEN 0 ELSE 1
  <2>1. r \in {0, 1} /\ Grown(r, c) /\ roleSent' = TRUE
    BY <1>0, <1>2, PushedGrows
  <2>2. eventCount' \in 0..MaxEvents
    BY <1>0, <1>2, ChatBridgeAssumption DEF OneEvent, ChatBridgeTypes
  <2>3. ChatBridgeTypes'
    <3>1. wire' \in Seq(BridgeChunks)
      BY <2>1 DEF Grown
    <3> QED  BY <1>0, <1>2, <2>1, <2>2, <3>1 DEF ChatBridgeTypes
  <2>4. (roleSent => r = 0 /\ roleSent') /\ (~roleSent => r = 1 /\ roleSent')
    BY <2>1
  <2> HIDE DEF r
  <2> QED  BY <1>2, <2>1, <2>2, <2>3, <2>4, ChunkSent
<1>3. ASSUME NEW i \in Texts, OutputTextDelta(i)
      PROVE  ChatBridgeInv'
  <2>1. CASE i \in hidden
    <3>1. ChatBridgeTypes'
      BY <1>0, <1>3, <2>1, ChatBridgeAssumption DEF OutputTextDelta, OneEvent, ChatBridgeTypes
    <3>2. FlagsTrue'
      BY <1>3, <2>1 DEF OutputTextDelta, ChatBridgeInv, FlagsTrue
    <3> QED  BY <1>3, <2>1, <3>1, <3>2, NothingSent DEF OutputTextDelta
  <2>2. CASE i \notin hidden
    <3> DEFINE c == Chunk("text", 0, i)
    <3>1. c \in BridgeChunks /\ c.type = "text" /\ c.item = i
      BY ChunkFields DEF ChunkTypes, Texts
    <3>2. orderly => ItemKind[i] # "commentary"
      BY <1>3, <2>2 DEF OutputTextDelta, Referable, ChatBridgeInv, FlagsTrue
    <3>3. Pushed(c) /\ OneEvent /\ ending' = ending /\ (orderly => ending = "open")
          /\ UNCHANGED <<orderly, hasToolCalls, hidden, toolIndices, nextIndex, announced>>
      BY <1>3, <2>2 DEF OutputTextDelta, OneEvent
    <3> HIDE DEF c
    <3> QED  BY <1>2, <3>1, <3>2, <3>3
  <2> QED  BY <2>1, <2>2
<1>4. ASSUME NEW type \in {"reasoning", "refusal"}, OtherDelta(type)
      PROVE  ChatBridgeInv'
  <2> DEFINE c == Chunk(type, 0, None0)
  <2>1. c \in BridgeChunks /\ c.type = type
    BY ChunkFields DEF ChunkTypes
  <2>2. Pushed(c) /\ OneEvent /\ ending' = ending /\ (orderly => ending = "open")
        /\ UNCHANGED <<orderly, hasToolCalls, hidden, toolIndices, nextIndex, announced>>
    BY <1>4 DEF OtherDelta, OneEvent
  <2> HIDE DEF c
  <2> QED  BY <1>2, <2>1, <2>2
<1>5. ASSUME NEW i \in Texts, ItemAddedMessage(i)
      PROVE  ChatBridgeInv'
  <2>1. /\ announced' = announced \cup {i} /\ i \notin Calls /\ i \in OutputItems
        /\ wire' = wire /\ announced' \cap Calls = announced \cap Calls
    BY <1>5 DEF ItemAddedMessage, Texts
  <2>2. IsFiniteSet(announced')
    BY <1>0, <2>1, FS_AddElement DEF ChatBridgeTypes
  <2>3. hidden' \subseteq Texts /\ hidden \subseteq hidden'
        /\ (ItemKind[i] = "commentary" => i \in hidden')
    BY <1>0, <1>5 DEF ItemAddedMessage, ChatBridgeTypes
  <2>4. eventCount' \in 0..MaxEvents
    BY <1>0, <1>5, ChatBridgeAssumption DEF ItemAddedMessage, OneEvent, ChatBridgeTypes
  <2>5. ChatBridgeTypes'
    BY <1>0, <1>5, <2>1, <2>2, <2>3, <2>4 DEF ItemAddedMessage, ChatBridgeTypes
  <2>6. FlagsTrue'
    BY <1>5, <2>1, <2>3 DEF ItemAddedMessage, ChatBridgeInv, FlagsTrue
  <2> QED  BY <1>5, <2>1, <2>5, <2>6, NothingSent DEF ItemAddedMessage
<1>6. ASSUME NEW i \in Calls, ArgumentsDelta(i)
      PROVE  ChatBridgeInv'
  <2> DEFINE n == IF i \in DOMAIN toolIndices THEN toolIndices[i] ELSE 0
             c == Chunk("arguments", n, i)
  <2>1. n \in Nat /\ (i \in announced \cap Calls => n = toolIndices[i]) /\ i \in OutputItems
    BY <1>0 DEF ChatBridgeTypes, Calls
  <2>2. c \in BridgeChunks /\ c.type = "arguments" /\ c.index = n /\ c.item = i
    BY <2>1, ChunkFields DEF ChunkTypes
  <2>3. wire' = Append(wire, c) /\ (orderly => ending = "open")
        /\ ending' = ending /\ roleSent' = roleSent
        /\ UNCHANGED <<orderly, hasToolCalls, hidden, toolIndices, nextIndex, announced>>
    BY <1>6 DEF ArgumentsDelta, OneEvent
  <2>4. orderly => i \in announced \cap Calls
    BY <1>6 DEF ArgumentsDelta, Referable
  <2>5. eventCount' \in 0..MaxEvents
    BY <1>0, <1>6, ChatBridgeAssumption DEF ArgumentsDelta, OneEvent, ChatBridgeTypes
  <2> HIDE DEF n, c
  <2>6. Grown(0, c) /\ 0 \in {0, 1}
    BY <1>0, <2>2, <2>3, AppendedGrows
  <2>7. ChatBridgeTypes'
    <3>1. wire' \in Seq(BridgeChunks)
      BY <2>6 DEF Grown
    <3> QED  BY <1>0, <2>3, <2>5, <3>1 DEF ChatBridgeTypes
  <2> QED  BY <2>1, <2>2, <2>3, <2>4, <2>6, <2>7, ChunkSent
<1>7. ASSUME NEW i \in Calls, ArgumentsDone(i)
      PROVE  ChatBridgeInv'
  <2>1. ChatBridgeTypes'
    BY <1>0, <1>7, ChatBridgeAssumption DEF ArgumentsDone, OneEvent, ChatBridgeTypes
  <2>2. orderly => announced \cap Calls # {}
    BY <1>7 DEF ArgumentsDone, Referable
  <2>3. FlagsTrue'
    BY <1>7, <2>2 DEF ArgumentsDone, ChatBridgeInv, FlagsTrue
  <2> QED  BY <1>7, <2>1, <2>3, NothingSent DEF ArgumentsDone
<1>8. ASSUME NEW how \in {"completed", "failed"}, Ended(how)
      PROVE  ChatBridgeInv'
  <2> DEFINE c == Chunk(FinishReason, 0, None0)
  <2>1. FinishReason \in {"stop", "tool_calls"}
    BY DEF FinishReason
  <2>2. c \in BridgeChunks /\ c.type = FinishReason
    BY <2>1, ChunkFields DEF ChunkTypes
  <2>3. Pushed(c) /\ OneEvent /\ ending' = how
        /\ UNCHANGED <<orderly, hasToolCalls, hidden, toolIndices, nextIndex, announced>>
    BY <1>8 DEF Ended
  <2> HIDE DEF c
  <2>4. c.type \notin {"role", "call", "arguments", "text"}
    BY <2>1, <2>2
  <2> QED  BY <1>2, <2>2, <2>3, <2>4
<1>9. CASE ErrorEvent
  <2> DEFINE c == Chunk("error", 0, None0)
  <2>1. c \in BridgeChunks /\ c.type = "error"
    BY ChunkFields DEF ChunkTypes
  <2>2. wire' = Append(wire, c) /\ (orderly => ending = "open")
        /\ ending' = ending /\ roleSent' = roleSent
        /\ UNCHANGED <<orderly, hasToolCalls, hidden, toolIndices, nextIndex, announced>>
    BY <1>9 DEF ErrorEvent, OneEvent
  <2>3. eventCount' \in 0..MaxEvents
    BY <1>0, <1>9, ChatBridgeAssumption DEF ErrorEvent, OneEvent, ChatBridgeTypes
  <2> HIDE DEF c
  <2>4. Grown(0, c) /\ 0 \in {0, 1}
    BY <1>0, <2>1, <2>2, AppendedGrows
  <2>5. ChatBridgeTypes'
    <3>1. wire' \in Seq(BridgeChunks)
      BY <2>4 DEF Grown
    <3> QED  BY <1>0, <2>2, <2>3, <3>1 DEF ChatBridgeTypes
  <2> QED  BY <2>1, <2>2, <2>4, <2>5, ChunkSent
<1>10. CASE EndedIncomplete
  <2>1. ChatBridgeTypes'
    BY <1>0, <1>10, ChatBridgeAssumption DEF EndedIncomplete, OneEvent, ChatBridgeTypes
  <2>2. FlagsTrue'
    BY <1>10 DEF EndedIncomplete, ChatBridgeInv, FlagsTrue
  <2> QED  BY <1>10, <2>1, <2>2, NothingSent DEF EndedIncomplete
<1> QED  BY <1>1, <1>3, <1>4, <1>5, <1>6, <1>7, <1>8, <1>9, <1>10, ItemAddedCallOK
         DEF ChatBridgeNext

\* At every moment of a stream the indexes of the announced calls differ, and every call and
\* its arguments on the wire have the index they were announced with.
THEOREM ChatBridgeInvariant == ChatBridgeSpec => []ChatBridgeInv
BY ChatBridgeInitInv, ChatBridgeStepInv, PTL DEF ChatBridgeSpec

\* The invariant gives the types of the run.
LEMMA ChatBridgeTyped == ChatBridgeInv => ChatBridgeTypeOK
<1> SUFFICES ASSUME ChatBridgeInv  PROVE ChatBridgeTypeOK
  OBVIOUS
<1>1. ChatBridgeTypes /\ IndexesDiffer
  BY DEF ChatBridgeInv
<1>2. \A i \in DOMAIN toolIndices : toolIndices[i] \in 0..nextIndex
  <2>1. DOMAIN toolIndices = announced \cap Calls /\ nextIndex \in Nat
    BY <1>1 DEF ChatBridgeTypes
  <2>2. \A i \in announced \cap Calls : toolIndices[i] \in Nat /\ toolIndices[i] < nextIndex
    BY <1>1 DEF ChatBridgeTypes, IndexesDiffer
  <2> QED  BY <2>1, <2>2
<1>3. DOMAIN toolIndices \subseteq Calls
  BY <1>1 DEF ChatBridgeTypes
<1> QED  BY <1>1, <1>2, <1>3 DEF ChatBridgeTypes, ChatBridgeTypeOK

\* The state of the bridge and the chunks it sends keep their types (ChatBridgeTypeOK).
THEOREM ChatBridgeTypeCorrect == ChatBridgeSpec => []ChatBridgeTypeOK
BY ChatBridgeInvariant, ChatBridgeTyped, PTL

\* The invariant gives what the clients of the stream rely on.
LEMMA InvChunksTrue == ChatBridgeInv => ChunksTrue
<1> SUFFICES ASSUME ChatBridgeInv  PROVE ChunksTrue
  OBVIOUS
<1>1. ArgumentsReachTheirCall
  <2> SUFFICES ASSUME orderly, NEW k \in OnWire("arguments")
               PROVE  \E a \in OnWire("call") :
                        /\ a < k /\ wire[a].item = wire[k].item
                        /\ \A b \in OnWire("call") : wire[b].index = wire[k].index <=> b = a
    BY DEF ArgumentsReachTheirCall
  <2>1. PICK a \in OnWire("call") : a < k /\ wire[a].item = wire[k].item
    BY DEF ChatBridgeInv, ArgumentsOnWire
  <2>2. wire[k].index = toolIndices[wire[k].item] /\ wire[k].item \in announced \cap Calls
    BY DEF ChatBridgeInv, ArgumentsOnWire
  <2>3. ASSUME NEW b \in OnWire("call")
        PROVE  wire[b].index = wire[k].index <=> b = a
    <3>1. /\ wire[b].item \in announced \cap Calls /\ wire[b].index = toolIndices[wire[b].item]
          /\ wire[a].index = toolIndices[wire[a].item]
      BY DEF ChatBridgeInv, CallsOnWire
    <3>2. wire[b].index = wire[k].index => wire[b].item = wire[a].item
      BY <2>1, <2>2, <3>1 DEF ChatBridgeInv, IndexesDiffer
    <3>3. wire[b].item = wire[a].item => b = a
      BY DEF ChatBridgeInv, CallsOnWire
    <3> QED  BY <2>1, <2>2, <3>1, <3>2, <3>3
  <2> QED  BY <2>1, <2>3
<1> QED  BY <1>1 DEF ChatBridgeInv, ChunksTrue

\* For any number of items and events: in a stream whose items are announced before their
\* deltas the role comes first and once, arguments carry the index of their own call and no
\* two calls share one, commentary is not shown, and the finish reason is that of the whole
\* response (the stream state of the chat bridge: ChunksTrue).
THEOREM ChunksAlwaysTrue == ChatBridgeSpec => []ChunksTrue
BY ChatBridgeInvariant, InvChunksTrue, PTL

-----------------------------------------------------------------------------
(* ResponsesBridge                                                         *)

\* The events a client may be sent; the closing ones carry arguments.
BridgeEvents == [type : EventTypes, item : Items \cup {"response"}, arguments : Nat]
DoneTypes == {"arguments_done", "item_done"}

\* The events of a type and an item in s.
EventsAt(s, type, item) == {k \in DOMAIN s : s[k].type = type /\ s[k].item = item}

\* The arguments that track t has gathered for tool i.
Gathered(t, i) == IF i \in DOMAIN t THEN t[i].arguments ELSE 0

\* The types the induction uses.
BridgeTypes ==
    /\ codex \in BOOLEAN /\ started \in BOOLEAN
    /\ namesFirst \in BOOLEAN /\ finishesLast \in BOOLEAN
    /\ lastFinish \in Finishes \cup {"none"}
    /\ upstream \in {"open", "ended", "broken"}
    /\ chunks \in 0..MaxChunks

\* What the tracks t and the announced items a have in common.
TracksOK(t, a) ==
    /\ a \subseteq Items
    /\ DOMAIN t \subseteq ToolIndexes /\ IsFiniteSet(DOMAIN t)
    /\ t \in [DOMAIN t -> [arguments : Nat, done : BOOLEAN]]
    /\ a \cap ToolIndexes \subseteq DOMAIN t
    /\ namesFirst => DOMAIN t \subseteq a

\* The events s of a response that is not over, whose items a are announced and whose
\* tools have gathered the arguments in t.
EventsOK(s, t, a) ==
    /\ s \in Seq(BridgeEvents)
    /\ \A item \in Items : item \in a <=> EventsAt(s, "added", item) # {}
    /\ \A item \in Items : \A k, l \in EventsAt(s, "added", item) : k = l
    /\ \A item \in Items : (namesFirst \/ item \in Shells) =>
          \A d \in EventsAt(s, "delta", item) : \E k \in EventsAt(s, "added", item) : k < d
    /\ \A i \in ToolIndexes : Cardinality(EventsAt(s, "delta", i)) = Gathered(t, i)

\* Tool i is not closed in s, or it is: once, and whole if no choice follows the finish reason.
NotClosed(s, i) == \A type \in DoneTypes : EventsAt(s, type, i) = {}
Closed(s, i) ==
    \E k \in 1..Len(s) :
        /\ EventsAt(s, "item_done", i) = {k}
        /\ EventsAt(s, "arguments_done", i) = {k - 1}
        /\ finishesLast => /\ s[k].arguments = Cardinality(EventsAt(s, "delta", i))
                           /\ \A d \in EventsAt(s, "delta", i) : d < k - 1

\* The tools of t that are marked as closed; exactly the tools D are closed in s.
DoneTools(t) == {i \in DOMAIN t : t[i].done}
ClosedOK(s, D) ==
    \A i \in ToolIndexes : (i \in D => Closed(s, i)) /\ (i \notin D => NotClosed(s, i))

\* The response is not over, the header was sent.
NoneOver(s) == \A k \in DOMAIN s : s[k].type \notin Terminal
Headed(s) == Len(s) > 0 /\ s[1].type = "created"

\* The invariant.  The tools marked as closed are those the client saw closed: while the
\* finish reason is that of the tools, all that were announced, and before it, if no choice
\* follows it, none.  Until the body ended the response is not over.
BridgeInv ==
    /\ BridgeTypes /\ TracksOK(track, added) /\ EventsOK(sent, track, added)
    /\ ClosedOK(sent, DoneTools(track))
    /\ \A i \in DOMAIN track : track[i].arguments <= chunks
    /\ \A k \in DOMAIN sent : sent[k].arguments <= chunks
    /\ started => Headed(sent)
    /\ (~started /\ upstream # "ended") => sent = <<>>
    /\ chunks > 0 => started
    /\ upstream # "ended" => NoneOver(sent)
    /\ finishesLast /\ lastFinish # "tool_calls" => DoneTools(track) = {}
    /\ codex /\ lastFinish = "tool_calls" => added \cap ToolIndexes \subseteq DoneTools(track)
    /\ OverOnlyAtTheEnd

\* What a sequence of events is.
LEMMA SeqFacts ==
    ASSUME NEW s \in Seq(BridgeEvents)
    PROVE  Len(s) \in Nat /\ DOMAIN s = 1..Len(s) /\ \A k \in DOMAIN s : s[k] \in BridgeEvents
BY ElementOfSeq, LenProperties

\* Its events of a kind are finitely many of its positions.
LEMMA EventsAtFacts ==
    ASSUME NEW s \in Seq(BridgeEvents), NEW type, NEW item
    PROVE  /\ EventsAt(s, type, item) \subseteq 1..Len(s)
           /\ IsFiniteSet(EventsAt(s, type, item))
<1>1. Len(s) \in Nat /\ DOMAIN s = 1..Len(s)
  BY SeqFacts
<1>2. EventsAt(s, type, item) \subseteq 1..Len(s)
  BY <1>1 DEF EventsAt
<1>3. IsFiniteSet(1..Len(s))
  BY <1>1, FS_Interval
<1> QED  BY <1>2, <1>3, FS_Subset

\* What appending an event does,
LEMMA Appends ==
    ASSUME NEW s \in Seq(BridgeEvents), NEW e \in BridgeEvents
    PROVE  /\ Append(s, e) \in Seq(BridgeEvents) /\ Len(Append(s, e)) = Len(s) + 1
           /\ DOMAIN Append(s, e) = 1..Len(s) + 1
           /\ \A k \in 1..Len(s) : Append(s, e)[k] = s[k]
           /\ Append(s, e)[Len(s) + 1] = e
OBVIOUS

\* ... and to the events of a kind.
LEMMA AppendAt ==
    ASSUME NEW s \in Seq(BridgeEvents), NEW e \in BridgeEvents, NEW type, NEW item
    PROVE  EventsAt(Append(s, e), type, item) =
             IF e.type = type /\ e.item = item
             THEN EventsAt(s, type, item) \cup {Len(s) + 1} ELSE EventsAt(s, type, item)
<1> DEFINE q == Append(s, e)
<1>1. /\ DOMAIN q = 1..Len(s) + 1 /\ \A k \in 1..Len(s) : q[k] = s[k]
      /\ q[Len(s) + 1] = e
  BY Appends
<1>2. DOMAIN s = 1..Len(s) /\ Len(s) \in Nat
  BY SeqFacts
<1> HIDE DEF q
<1>3. EventsAt(q, type, item) =
        IF e.type = type /\ e.item = item
        THEN EventsAt(s, type, item) \cup {Len(s) + 1} ELSE EventsAt(s, type, item)
  BY <1>1, <1>2 DEF EventsAt
<1> QED  BY <1>3 DEF q

\* An event that is neither an announcement nor a delta.
LEMMA PlainEvent ==
    ASSUME NEW s, NEW t, NEW a, EventsOK(s, t, a), NEW e \in BridgeEvents,
           e.type \notin {"added", "delta"}
    PROVE  EventsOK(Append(s, e), t, a)
<1>0. s \in Seq(BridgeEvents)
  BY DEF EventsOK
<1>1. \A item : /\ EventsAt(Append(s, e), "added", item) = EventsAt(s, "added", item)
                /\ EventsAt(Append(s, e), "delta", item) = EventsAt(s, "delta", item)
  BY <1>0, AppendAt
<1>2. Append(s, e) \in Seq(BridgeEvents)
  BY <1>0, Appends
<1> QED  BY <1>1, <1>2 DEF EventsOK

\* An item is announced, once.
LEMMA AddedEvent ==
    ASSUME NEW s, NEW t, NEW a, EventsOK(s, t, a), NEW e \in BridgeEvents,
           e.type = "added", e.item \in Items, e.item \notin a
    PROVE  EventsOK(Append(s, e), t, a \cup {e.item})
<1> DEFINE q == Append(s, e)
           n == Len(s) + 1
<1>0. s \in Seq(BridgeEvents) /\ q \in Seq(BridgeEvents)
  BY Appends DEF EventsOK
<1>1. \A item : /\ EventsAt(q, "added", item) =
                     IF item = e.item THEN EventsAt(s, "added", item) \cup {n}
                     ELSE EventsAt(s, "added", item)
                /\ EventsAt(q, "delta", item) = EventsAt(s, "delta", item)
  BY <1>0, AppendAt
<1>2. EventsAt(s, "added", e.item) = {}
  BY DEF EventsOK
<1> HIDE DEF q, n
<1>3. \A item \in Items : item \in a \cup {e.item} <=> EventsAt(q, "added", item) # {}
  BY <1>1 DEF EventsOK
<1>4. \A item \in Items : \A k, l \in EventsAt(q, "added", item) : k = l
  BY <1>1, <1>2 DEF EventsOK
<1>5. \A item \in Items : (namesFirst \/ item \in Shells) =>
        \A d \in EventsAt(q, "delta", item) : \E k \in EventsAt(q, "added", item) : k < d
  BY <1>1 DEF EventsOK
<1>6. \A i \in ToolIndexes : Cardinality(EventsAt(q, "delta", i)) = Gathered(t, i)
  BY <1>1 DEF EventsOK
<1> QED  BY <1>0, <1>3, <1>4, <1>5, <1>6 DEF EventsOK, q

\* A delta of an item that is announced, or of a tool that may not be; a tool gathers it.
LEMMA DeltaEvent ==
    ASSUME NEW s, NEW t, NEW u, NEW a, EventsOK(s, t, a), NEW e \in BridgeEvents,
           e.type = "delta", e.item \in Items,
           namesFirst \/ e.item \in Shells => e.item \in a,
           \A i \in ToolIndexes : /\ Gathered(t, i) \in Nat
                                  /\ Gathered(u, i) = IF i = e.item THEN Gathered(t, i) + 1
                                                      ELSE Gathered(t, i)
    PROVE  EventsOK(Append(s, e), u, a)
<1> DEFINE q == Append(s, e)
           n == Len(s) + 1
<1>0. s \in Seq(BridgeEvents) /\ q \in Seq(BridgeEvents) /\ Len(s) \in Nat
  BY Appends, SeqFacts DEF EventsOK
<1>1. \A item : /\ EventsAt(q, "delta", item) =
                     IF item = e.item THEN EventsAt(s, "delta", item) \cup {n}
                     ELSE EventsAt(s, "delta", item)
                /\ EventsAt(q, "added", item) = EventsAt(s, "added", item)
  BY <1>0, AppendAt
<1>2. \A item : /\ EventsAt(s, "added", item) \subseteq 1..Len(s)
                /\ EventsAt(s, "delta", item) \subseteq 1..Len(s)
                /\ IsFiniteSet(EventsAt(s, "delta", item))
  BY <1>0, EventsAtFacts
<1> HIDE DEF q
<1>3. ASSUME NEW item \in Items, namesFirst \/ item \in Shells,
             NEW d \in EventsAt(q, "delta", item)
      PROVE  \E k \in EventsAt(q, "added", item) : k < d
  <2>1. CASE d \in EventsAt(s, "delta", item)
    BY <1>1, <1>3, <2>1 DEF EventsOK
  <2>2. CASE d \notin EventsAt(s, "delta", item)
    <3>1. d = n /\ item = e.item
      BY <1>1, <2>2
    <3>a. item \in a
      BY <1>3, <3>1
    <3>b. EventsAt(s, "added", item) # {}
      BY <3>a DEF EventsOK
    <3>2. PICK k \in EventsAt(s, "added", item) : TRUE
      BY <3>b
    <3>3. k < n
      <4>1. k \in 1..Len(s)
        BY <1>2, <3>2
      <4> QED  BY <1>0, <4>1
    <3> QED  BY <1>1, <3>1, <3>2, <3>3
  <2> QED  BY <2>1, <2>2
<1>4. ASSUME NEW i \in ToolIndexes
      PROVE  Cardinality(EventsAt(q, "delta", i)) = Gathered(u, i)
  <2>1. Cardinality(EventsAt(s, "delta", i)) = Gathered(t, i)
    BY DEF EventsOK
  <2>2. CASE i = e.item
    <3>1. EventsAt(q, "delta", i) = EventsAt(s, "delta", i) \cup {n}
      BY <1>1, <2>2
    <3>2. n \notin EventsAt(s, "delta", i)
      BY <1>0, <1>2
    <3> QED  BY <1>2, <2>1, <2>2, <3>1, <3>2, FS_AddElement
  <2>3. CASE i # e.item
    BY <1>1, <2>1, <2>3
  <2> QED  BY <2>2, <2>3
<1>5. /\ \A item \in Items : item \in a <=> EventsAt(q, "added", item) # {}
      /\ \A item \in Items : \A k, l \in EventsAt(q, "added", item) : k = l
  BY <1>1 DEF EventsOK
<1> QED  BY <1>0, <1>3, <1>4, <1>5 DEF EventsOK, q

\* Only what the tracks gathered counts.
LEMMA SameGathered ==
    ASSUME NEW s, NEW t, NEW u, NEW a, EventsOK(s, t, a),
           \A i \in ToolIndexes : Gathered(u, i) = Gathered(t, i)
    PROVE  EventsOK(s, u, a)
BY DEF EventsOK

\* Concatenations with short sequences are appends.
LEMMA Concats ==
    ASSUME NEW s \in Seq(BridgeEvents)
    PROVE  /\ s \o <<>> = s
           /\ \A e \in BridgeEvents : s \o <<e>> = Append(s, e) /\ <<e>> \in Seq(BridgeEvents)
           /\ \A x, y \in Seq(BridgeEvents) : s \o (x \o y) = (s \o x) \o y /\ x \o y \in Seq(BridgeEvents)
<1>1. s \o <<>> = s
  OBVIOUS
<1>2. ASSUME NEW e \in BridgeEvents  PROVE s \o <<e>> = Append(s, e) /\ <<e>> \in Seq(BridgeEvents)
  OBVIOUS
<1>3. ASSUME NEW x \in Seq(BridgeEvents), NEW y \in Seq(BridgeEvents)
      PROVE  s \o (x \o y) = (s \o x) \o y /\ x \o y \in Seq(BridgeEvents)
  BY ConcatAssociative, ConcatProperties
<1> QED  BY <1>1, <1>2, <1>3
\* The closing events of the tools C: two for each, in the order of order.
LEMMA DoneShape ==
    ASSUME NEW t, NEW a, TracksOK(t, a), NEW C \in SUBSET DOMAIN t, NEW order \in Orders(C),
           NEW D, D = DoneEvents(t, order), NEW n, n = Cardinality(C)
    PROVE  /\ n \in Nat /\ D \in Seq(BridgeEvents) /\ Len(D) = 2 * n
           /\ \A p \in 1..n :
                 /\ order[p] \in C
                 /\ D[2 * p - 1] = ToolEvent("arguments_done", order[p], t[order[p]].arguments)
                 /\ D[2 * p] = ToolEvent("item_done", order[p], t[order[p]].arguments)
           /\ \A i \in C : \E p \in 1..n : order[p] = i
           /\ \A p, r \in 1..n : order[p] = order[r] => p = r
           /\ \A k \in 1..2 * n : \E p \in 1..n : k \in {2 * p - 1, 2 * p}
<1>1. IsFiniteSet(C) /\ n \in Nat
  BY FS_Subset, FS_CardinalityType DEF TracksOK
<1>2. order \in [1..n -> C] /\ \A p, r \in DOMAIN order : order[p] = order[r] => p = r
  BY DEF Orders
<1>3. Len(order) = n /\ DOMAIN order = 1..n
  <2>1. order \in Seq(C)
    BY <1>1, <1>2
  <2> QED  BY <1>1, <1>2, <2>1
<1>4. \A i \in C : \E p \in 1..n : order[p] = i
  <2>1. order \in Injection(1..n, C)
    BY <1>2, <1>3 DEF Injection, IsInjective
  <2>2. Cardinality(1..n) = n
    BY <1>1, FS_Interval
  <2>3. order \in Surjection(1..n, C)
    BY <1>1, <2>1, <2>2, FS_Injection
  <2> QED  BY <2>3 DEF Surjection
<1>5. \A k \in 1..2 * n : \E p \in 1..n : k \in {2 * p - 1, 2 * p}
  <2> SUFFICES ASSUME NEW k \in 1..2 * n  PROVE \E p \in 1..n : k \in {2 * p - 1, 2 * p}
    OBVIOUS
  <2>1. (k + 1) \div 2 \in 1..n /\ k \in {2 * ((k + 1) \div 2) - 1, 2 * ((k + 1) \div 2)}
    BY <1>1
  <2> QED  BY <2>1
<1>6. D = [k \in 1..2 * n |->
             ToolEvent(IF k % 2 = 1 THEN "arguments_done" ELSE "item_done",
                       order[(k + 1) \div 2], t[order[(k + 1) \div 2]].arguments)]
  BY <1>3 DEF DoneEvents
<1>7. ASSUME NEW p \in 1..n
      PROVE  /\ order[p] \in C /\ order[p] \in Items
             /\ t[order[p]].arguments \in Nat
             /\ D[2 * p - 1] = ToolEvent("arguments_done", order[p], t[order[p]].arguments)
             /\ D[2 * p] = ToolEvent("item_done", order[p], t[order[p]].arguments)
  <2>1. /\ 2 * p - 1 \in 1..2 * n /\ 2 * p \in 1..2 * n
        /\ (2 * p - 1 + 1) \div 2 = p /\ (2 * p + 1) \div 2 = p
        /\ (2 * p - 1) % 2 = 1 /\ (2 * p) % 2 # 1
    BY <1>1
  <2>2. order[p] \in C
    BY <1>2
  <2>3. order[p] \in Items /\ t[order[p]].arguments \in Nat
    BY <2>2 DEF TracksOK, Items
  <2>4. D[2 * p - 1] = ToolEvent("arguments_done", order[p], t[order[p]].arguments)
    BY <1>6, <2>1
  <2>5. D[2 * p] = ToolEvent("item_done", order[p], t[order[p]].arguments)
    BY <1>6, <2>1
  <2> QED  BY <2>2, <2>3, <2>4, <2>5
<1>8. D \in Seq(BridgeEvents) /\ Len(D) = 2 * n
  <2>1. ASSUME NEW k \in 1..2 * n  PROVE D[k] \in BridgeEvents
    <3>1. PICK p \in 1..n : k \in {2 * p - 1, 2 * p}
      BY <1>5
    <3>2. /\ ToolEvent("arguments_done", order[p], t[order[p]].arguments) \in BridgeEvents
          /\ ToolEvent("item_done", order[p], t[order[p]].arguments) \in BridgeEvents
      BY <1>7 DEF ToolEvent, BridgeEvents, EventTypes
    <3> QED  BY <1>7, <3>1, <3>2
  <2>2. DOMAIN D = 1..2 * n /\ 2 * n \in Nat
    BY <1>1, <1>6
  <2>3. D \in [1..2 * n -> BridgeEvents]
    <3>1. D = [k \in 1..2 * n |-> D[k]]
      BY <1>6
    <3> QED  BY <2>1, <3>1
  <2> QED  BY <2>2, <2>3
<1> QED  BY <1>1, <1>2, <1>3, <1>4, <1>5, <1>7, <1>8

\* Q is P with the closing events of the tools C of track t after it.
Closes(P, Q, t, C) ==
    /\ Len(P) <= Len(Q)
    /\ \A k \in 1..Len(P) : Q[k] = P[k]
    /\ \A k \in 1..Len(Q) : k > Len(P) =>
          Q[k].type \in DoneTypes /\ \E i \in C : Q[k].arguments = t[i].arguments
    /\ \A i \in C : \E k \in 1..Len(Q) :
          /\ EventsAt(Q, "item_done", i) = {k}
          /\ EventsAt(Q, "arguments_done", i) = {k - 1}
          /\ Q[k].arguments = t[i].arguments /\ Len(P) < k - 1
    /\ \A i : i \notin C => \A type \in DoneTypes : EventsAt(Q, type, i) = EventsAt(P, type, i)

\* What the closing events of tools C add to events P without any of them.
LEMMA ToolsClosed ==
    ASSUME NEW t, NEW a, TracksOK(t, a), NEW P, EventsOK(P, t, a),
           NEW C \in SUBSET DOMAIN t, \A i \in C : NotClosed(P, i), NEW order \in Orders(C),
           NEW Q, Q = P \o DoneEvents(t, order)
    PROVE  EventsOK(Q, t, a) /\ Closes(P, Q, t, C)
<1> DEFINE D == DoneEvents(t, order)
           n == Cardinality(C)
<1>1. /\ n \in Nat /\ D \in Seq(BridgeEvents) /\ Len(D) = 2 * n
      /\ \A p \in 1..n :
            /\ order[p] \in C
            /\ D[2 * p - 1] = ToolEvent("arguments_done", order[p], t[order[p]].arguments)
            /\ D[2 * p] = ToolEvent("item_done", order[p], t[order[p]].arguments)
      /\ \A i \in C : \E p \in 1..n : order[p] = i
      /\ \A p, r \in 1..n : order[p] = order[r] => p = r
      /\ \A k \in 1..2 * n : \E p \in 1..n : k \in {2 * p - 1, 2 * p}
  BY DoneShape
<1>2. P \in Seq(BridgeEvents) /\ Len(P) \in Nat /\ DOMAIN P = 1..Len(P)
  BY SeqFacts DEF EventsOK
<1>a. Q = P \o D
  OBVIOUS
<1> HIDE DEF D, n
<1>3. /\ Q \in Seq(BridgeEvents) /\ Len(Q) = Len(P) + 2 * n
      /\ \A k \in 1..Len(P) + 2 * n : Q[k] = IF k <= Len(P) THEN P[k] ELSE D[k - Len(P)]
  <2>1. /\ P \o D \in Seq(BridgeEvents) /\ Len(P \o D) = Len(P) + Len(D)
        /\ \A k \in 1..Len(P) + Len(D) :
              (P \o D)[k] = IF k <= Len(P) THEN P[k] ELSE D[k - Len(P)]
    <3>1. P \in Seq(BridgeEvents) /\ D \in Seq(BridgeEvents)
      BY <1>1, <1>2
    <3> QED  BY ONLY <3>1, ConcatProperties
  <2>2. Len(D) = 2 * n
    BY <1>1
  <2> QED  BY <1>a, <2>1, <2>2
<1>4. DOMAIN Q = 1..Len(Q)
  BY <1>3, SeqFacts
<1>5. \A k \in 1..Len(P) : Q[k] = P[k] /\ k \in DOMAIN Q
  BY <1>1, <1>2, <1>3, <1>4
<1>6. ASSUME NEW k \in 1..Len(Q), k > Len(P)
      PROVE  \E p \in 1..n :
               /\ k \in {Len(P) + 2 * p - 1, Len(P) + 2 * p}
               /\ Q[k] = IF k = Len(P) + 2 * p
                         THEN ToolEvent("item_done", order[p], t[order[p]].arguments)
                         ELSE ToolEvent("arguments_done", order[p], t[order[p]].arguments)
  <2>1. k - Len(P) \in 1..2 * n /\ Q[k] = D[k - Len(P)]
    BY <1>1, <1>2, <1>3, <1>6
  <2>2. PICK p \in 1..n : k - Len(P) \in {2 * p - 1, 2 * p}
    BY <1>1, <2>1
  <2>3. CASE k - Len(P) = 2 * p - 1
    <3>1. k = Len(P) + 2 * p - 1 /\ k # Len(P) + 2 * p
      BY <1>2, <2>3
    <3>2. Q[k] = ToolEvent("arguments_done", order[p], t[order[p]].arguments)
      BY <1>1, <2>1, <2>3
    <3> QED  BY <3>1, <3>2
  <2>4. CASE k - Len(P) = 2 * p
    <3>1. k = Len(P) + 2 * p
      BY <1>2, <2>4
    <3>2. Q[k] = ToolEvent("item_done", order[p], t[order[p]].arguments)
      BY <1>1, <2>1, <2>4
    <3> QED  BY <3>1, <3>2
  <2> QED  BY <2>2, <2>3, <2>4
<1>7. ASSUME NEW k \in 1..Len(Q), k > Len(P)
      PROVE  Q[k].type \in DoneTypes /\ \E i \in C : Q[k].arguments = t[i].arguments
  <2>1. PICK p \in 1..n :
          Q[k] = IF k = Len(P) + 2 * p
                 THEN ToolEvent("item_done", order[p], t[order[p]].arguments)
                 ELSE ToolEvent("arguments_done", order[p], t[order[p]].arguments)
    BY <1>6, <1>7
  <2>2. order[p] \in C
    BY <1>1
  <2> QED  BY <2>1, <2>2 DEF ToolEvent, DoneTypes
<1>8. ASSUME NEW type \in {"added", "delta"}, NEW item
      PROVE  EventsAt(Q, type, item) = EventsAt(P, type, item)
  <2>0. Len(Q) \in Nat
    BY <1>1, <1>2, <1>3
  <2>1. ASSUME NEW k \in 1..Len(Q)  PROVE k <= Len(P) \/ Q[k].type # type
    <3>1. CASE k > Len(P)
      BY <1>7, <3>1 DEF DoneTypes
    <3> QED  BY <1>2, <2>0, <3>1
  <2>2. \A k \in 1..Len(Q) : k <= Len(P) => k \in 1..Len(P)
    OBVIOUS
  <2> QED  BY <1>2, <1>4, <1>5, <2>1, <2>2 DEF EventsAt
<1>9. EventsOK(Q, t, a)
  BY <1>3, <1>8 DEF EventsOK
<1>10. ASSUME NEW i \in C
       PROVE  \E k \in 1..Len(Q) :
                /\ EventsAt(Q, "item_done", i) = {k}
                /\ EventsAt(Q, "arguments_done", i) = {k - 1}
                /\ Q[k].arguments = t[i].arguments /\ Len(P) < k - 1
  <2>1. PICK p \in 1..n : order[p] = i
    BY <1>1
  <2> DEFINE k == Len(P) + 2 * p
  <2>2. /\ k \in 1..Len(Q) /\ k - 1 \in 1..Len(Q) /\ Len(P) < k - 1 /\ Len(P) < k
        /\ ~(k <= Len(P)) /\ ~(k - 1 <= Len(P)) /\ k - Len(P) = 2 * p
        /\ k - 1 - Len(P) = 2 * p - 1
    BY <1>1, <1>2, <1>3
  <2>3. Q[k] = D[2 * p] /\ Q[k - 1] = D[2 * p - 1]
    BY <1>3, <2>2
  <2>4. Q[k] = ToolEvent("item_done", i, t[i].arguments)
        /\ Q[k - 1] = ToolEvent("arguments_done", i, t[i].arguments)
    BY <1>1, <2>1, <2>3
  <2>5. ASSUME NEW j \in 1..Len(Q), Q[j].type \in DoneTypes, Q[j].item = i
        PROVE  j = (IF Q[j].type = "item_done" THEN k ELSE k - 1)
    <3>1. j > Len(P)
      <4>0. ASSUME j \in 1..Len(P)  PROVE FALSE
        <5>1. P[j].type \in DoneTypes /\ P[j].item = i
          BY <1>5, <2>5, <4>0
        <5>2. j \in EventsAt(P, P[j].type, i)
          BY <1>2, <4>0, <5>1 DEF EventsAt
        <5> QED  BY <5>1, <5>2 DEF NotClosed
      <4>1. j \notin 1..Len(P)
        BY <4>0
      <4>2. j \in Nat /\ j >= 1
        BY <1>3, SeqFacts
      <4> QED  BY <1>2, <4>1, <4>2
    <3>2. PICK r \in 1..n :
            /\ j \in {Len(P) + 2 * r - 1, Len(P) + 2 * r}
            /\ Q[j] = IF j = Len(P) + 2 * r
                      THEN ToolEvent("item_done", order[r], t[order[r]].arguments)
                      ELSE ToolEvent("arguments_done", order[r], t[order[r]].arguments)
      BY <1>6, <3>1
    <3>3. order[r] = i
      BY <2>5, <3>2 DEF ToolEvent
    <3>4. r = p
      BY <1>1, <2>1, <3>3
    <3>5. CASE j = Len(P) + 2 * r
      BY <3>2, <3>4, <3>5 DEF ToolEvent
    <3>6. CASE j # Len(P) + 2 * r
      <4>1. j = k - 1
        BY <1>2, <3>2, <3>4, <3>6
      <4>2. Q[j].type = "arguments_done"
        BY <3>2, <3>6 DEF ToolEvent
      <4> QED  BY <4>1, <4>2
    <3> QED  BY <3>5, <3>6
  <2>6. /\ Q[k].type = "item_done" /\ Q[k].item = i /\ Q[k].arguments = t[i].arguments
        /\ Q[k - 1].type = "arguments_done" /\ Q[k - 1].item = i
    BY <2>4 DEF ToolEvent
  <2> HIDE DEF k
  <2>7. EventsAt(Q, "item_done", i) = {k}
    BY <1>4, <2>2, <2>5, <2>6 DEF EventsAt, DoneTypes
  <2>8. EventsAt(Q, "arguments_done", i) = {k - 1}
    <3>1. \A j \in 1..Len(Q) : Q[j].type = "arguments_done" /\ Q[j].item = i => j = k - 1
      BY <2>5 DEF DoneTypes
    <3> QED  BY <1>4, <2>2, <2>6, <3>1 DEF EventsAt
  <2> QED  BY <2>2, <2>6, <2>7, <2>8
<1>11. Len(P) <= Len(Q)
  BY <1>1, <1>2, <1>3
<1>12. ASSUME NEW i, i \notin C, NEW type \in DoneTypes
       PROVE  EventsAt(Q, type, i) = EventsAt(P, type, i)
  <2>0. Len(Q) \in Nat
    BY <1>1, <1>2, <1>3
  <2>1. ASSUME NEW k \in 1..Len(Q)  PROVE k <= Len(P) \/ Q[k].item # i
    <3>1. CASE k > Len(P)
      <4>1. PICK p \in 1..n :
              Q[k] = IF k = Len(P) + 2 * p
                     THEN ToolEvent("item_done", order[p], t[order[p]].arguments)
                     ELSE ToolEvent("arguments_done", order[p], t[order[p]].arguments)
        BY <1>6, <3>1
      <4>2. order[p] \in C
        BY <1>1
      <4> QED  BY <1>12, <4>1, <4>2 DEF ToolEvent
    <3> QED  BY <1>2, <2>0, <3>1
  <2>2. \A k \in 1..Len(Q) : k <= Len(P) => k \in 1..Len(P)
    OBVIOUS
  <2> QED  BY <1>2, <1>4, <1>5, <2>1, <2>2 DEF EventsAt
<1> QED  BY <1>5, <1>7, <1>9, <1>10, <1>11, <1>12 DEF Closes
\* The events of a response that goes on, whose tools D are closed.
Good(s, t, a, D, n) ==
    /\ EventsOK(s, t, a) /\ ClosedOK(s, D) /\ NoneOver(s) /\ Headed(s)
    /\ \A k \in DOMAIN s : s[k].arguments <= n

\* Closing a tool changes its flag alone.
LEMMA TrackFields ==
    ASSUME NEW r \in [arguments : Nat, done : BOOLEAN], NEW b \in BOOLEAN
    PROVE  /\ [r EXCEPT !.done = b] \in [arguments : Nat, done : BOOLEAN]
           /\ [r EXCEPT !.done = b].arguments = r.arguments /\ [r EXCEPT !.done = b].done = b
BY Zenon

\* Marking tools C as closed adds them to those that are.
LEMMA MarkedDone ==
    ASSUME NEW t, NEW a, TracksOK(t, a), NEW C \in SUBSET DOMAIN t, NEW u,
           u = [i \in DOMAIN t |-> [t[i] EXCEPT !.done = @ \/ i \in C]]
    PROVE  /\ TracksOK(u, a) /\ DOMAIN u = DOMAIN t
           /\ \A i \in DOMAIN t : u[i].arguments = t[i].arguments
           /\ DoneTools(u) = DoneTools(t) \cup C
<1>1. DOMAIN u = DOMAIN t
  OBVIOUS
<1>2. ASSUME NEW i \in DOMAIN t
      PROVE  /\ u[i] \in [arguments : Nat, done : BOOLEAN]
             /\ u[i].arguments = t[i].arguments
             /\ u[i].done <=> t[i].done \/ i \in C
  <2> DEFINE b == t[i].done \/ i \in C
  <2>1. t[i] \in [arguments : Nat, done : BOOLEAN]
    BY DEF TracksOK
  <2>2. u[i] = [t[i] EXCEPT !.done = b]
    OBVIOUS
  <2>3. b \in BOOLEAN
    OBVIOUS
  <2> HIDE DEF b
  <2>4. /\ u[i] \in [arguments : Nat, done : BOOLEAN]
        /\ u[i].arguments = t[i].arguments /\ u[i].done = b
    BY <2>1, <2>2, <2>3, TrackFields
  <2> QED  BY <2>4 DEF b
<1>3. TracksOK(u, a)
  <2>1. u = [i \in DOMAIN u |-> u[i]]
    OBVIOUS
  <2>2. u \in [DOMAIN u -> [arguments : Nat, done : BOOLEAN]]
    BY <1>1, <1>2, <2>1
  <2> QED  BY <1>1, <2>2 DEF TracksOK
<1>4. DoneTools(u) = DoneTools(t) \cup C
  BY <1>1, <1>2 DEF DoneTools
<1> QED  BY <1>1, <1>2, <1>3, <1>4

\* The closing events of tools C close them, whole, and leave the others as they were.
LEMMA ClosesOK ==
    ASSUME NEW t, NEW a, TracksOK(t, a), NEW P, EventsOK(P, t, a), NEW D, ClosedOK(P, D),
           NEW C \in SUBSET DOMAIN t, C \cap D = {}, NEW order \in Orders(C),
           NEW Q, Q = P \o DoneEvents(t, order)
    PROVE  EventsOK(Q, t, a) /\ Closes(P, Q, t, C) /\ ClosedOK(Q, D \cup C)
<1>1. \A i \in C : NotClosed(P, i)
  BY DEF ClosedOK, TracksOK
<1>2. EventsOK(Q, t, a) /\ Closes(P, Q, t, C)
  <2> HIDE DEF ClosedOK
  <2> QED  BY <1>1, ToolsClosed
<1>3. /\ Len(P) <= Len(Q)
      /\ \A k \in 1..Len(P) : Q[k] = P[k]
      /\ \A k \in 1..Len(Q) : k > Len(P) => Q[k].type \in DoneTypes
      /\ \A i \in C : \E k \in 1..Len(Q) :
            /\ EventsAt(Q, "item_done", i) = {k}
            /\ EventsAt(Q, "arguments_done", i) = {k - 1}
            /\ Q[k].arguments = t[i].arguments /\ Len(P) < k - 1
      /\ \A i : i \notin C => \A type \in DoneTypes : EventsAt(Q, type, i) = EventsAt(P, type, i)
  BY <1>2 DEF Closes
<1>4. /\ Len(P) \in Nat /\ DOMAIN P = 1..Len(P) /\ Len(Q) \in Nat /\ DOMAIN Q = 1..Len(Q)
  BY <1>2, SeqFacts DEF EventsOK
<1>5. ASSUME NEW i  PROVE EventsAt(Q, "delta", i) = EventsAt(P, "delta", i)
                          /\ EventsAt(P, "delta", i) \subseteq 1..Len(P)
  <2>1. \A k \in 1..Len(Q) : k \in 1..Len(P) \/ k > Len(P)
    BY <1>4
  <2>2. \A k \in 1..Len(P) : k \in 1..Len(Q)
    BY <1>3, <1>4
  <2> QED  BY <1>3, <1>4, <2>1, <2>2 DEF EventsAt, DoneTypes
<1>6. ASSUME NEW i \in ToolIndexes, i \in C  PROVE Closed(Q, i)
  <2>1. PICK k \in 1..Len(Q) :
          /\ EventsAt(Q, "item_done", i) = {k}
          /\ EventsAt(Q, "arguments_done", i) = {k - 1}
          /\ Q[k].arguments = t[i].arguments /\ Len(P) < k - 1
    BY <1>3, <1>6
  <2>2. Cardinality(EventsAt(Q, "delta", i)) = t[i].arguments
    BY <1>2, <1>6 DEF EventsOK, Gathered
  <2>3. \A d \in EventsAt(Q, "delta", i) : d < k - 1
    BY <1>4, <1>5, <2>1
  <2> QED  BY <2>1, <2>2, <2>3 DEF Closed
<1>7. ASSUME NEW i \in ToolIndexes, i \notin C
      PROVE  (Closed(P, i) => Closed(Q, i)) /\ (NotClosed(P, i) => NotClosed(Q, i))
  <2>1. /\ EventsAt(Q, "item_done", i) = EventsAt(P, "item_done", i)
        /\ EventsAt(Q, "arguments_done", i) = EventsAt(P, "arguments_done", i)
        /\ EventsAt(Q, "delta", i) = EventsAt(P, "delta", i)
    BY <1>3, <1>5, <1>7 DEF DoneTypes
  <2>2. \A k \in 1..Len(P) : k \in 1..Len(Q) /\ Q[k] = P[k]
    BY <1>3, <1>4
  <2> QED  BY <2>1, <2>2 DEF Closed, NotClosed, DoneTypes
<1> QED  BY <1>2, <1>6, <1>7 DEF ClosedOK

\* The end of a chunk: the tools are closed if the provider finished for them.
LEMMA ChunkDoneOK ==
    ASSUME BridgeInv, NEW evs, NEW t, NEW a, NEW finish \in Finishes \cup {"none"},
           ChunkDone(evs, t, a, finish), upstream = "open",
           TracksOK(t, a), Good(sent \o Header \o evs, t, a, DoneTools(t), chunks + 1),
           finishesLast /\ Latest(finish) # "tool_calls" => DoneTools(t) = {},
           \A i \in DOMAIN t : t[i].arguments <= chunks + 1
    PROVE  BridgeInv'
<1> DEFINE P == sent \o Header \o evs
           last == Latest(finish)
           C == ToolDone(t, a, last)
           D == DoneTools(t)
<1>0. /\ BridgeTypes /\ EventsOK(P, t, a) /\ ClosedOK(P, D) /\ NoneOver(P) /\ Headed(P)
      /\ \A k \in DOMAIN P : P[k].arguments <= chunks + 1
      /\ last \in Finishes \cup {"none"}
      /\ finishesLast /\ last # "tool_calls" => D = {}
  BY DEF BridgeInv, BridgeTypes, Good, Latest
<1>3. /\ C = IF codex /\ last = "tool_calls" THEN (DOMAIN t \cap a) \ D ELSE {}
      /\ C \in SUBSET DOMAIN t /\ C \cap D = {}
  BY <1>0 DEF ToolDone, DoneTools
<1> HIDE DEF P
<1>1. PICK order \in Orders(C) : sent' = P \o DoneEvents(t, order)
  BY DEF ChunkDone, P
<1>2. /\ chunks' = chunks + 1 /\ chunks \in 0..MaxChunks /\ chunks' \in 0..MaxChunks
      /\ started' = TRUE /\ lastFinish' = last /\ added' = a /\ codex' = codex
      /\ namesFirst' = namesFirst /\ finishesLast' = finishesLast /\ upstream' = "open"
      /\ track' = [i \in DOMAIN t |-> [t[i] EXCEPT !.done = @ \/ i \in C]]
  BY <1>0, BridgeAssumption DEF ChunkDone, BridgeTypes
<1> HIDE DEF C, D, last
<1>4. P \in Seq(BridgeEvents) /\ Len(P) \in Nat /\ DOMAIN P = 1..Len(P)
  BY <1>0, SeqFacts DEF EventsOK
<1>5. EventsOK(sent', t, a) /\ Closes(P, sent', t, C) /\ ClosedOK(sent', D \cup C)
  <2>1. EventsOK(P, t, a) /\ ClosedOK(P, D)
    BY <1>0
  <2>2. C \in SUBSET DOMAIN t /\ C \cap D = {}
    BY <1>3
  <2> QED  BY <1>1, <2>1, <2>2, ClosesOK
<1>6. /\ sent' \in Seq(BridgeEvents) /\ Len(sent') \in Nat /\ DOMAIN sent' = 1..Len(sent')
      /\ Len(P) <= Len(sent')
      /\ \A k \in 1..Len(P) : sent'[k] = P[k]
      /\ \A k \in 1..Len(sent') : k > Len(P) =>
            sent'[k].type \in DoneTypes /\ \E i \in C : sent'[k].arguments = t[i].arguments
  BY <1>5, SeqFacts DEF EventsOK, Closes
<1>7. \A k \in 1..Len(sent') : k \in 1..Len(P) \/ k > Len(P)
  BY <1>4, <1>6
<1>8. /\ TracksOK(track', a) /\ DOMAIN track' = DOMAIN t
      /\ \A i \in DOMAIN t : track'[i].arguments = t[i].arguments
      /\ DoneTools(track') = D \cup C
  <2>1. C \in SUBSET DOMAIN t
    BY <1>3
  <2> QED  BY <1>2, <2>1, MarkedDone DEF D
<1>9. TracksOK(track, added)'
  BY <1>2, <1>8 DEF TracksOK
<1>10. EventsOK(sent, track, added)'
  <2>1. \A i \in ToolIndexes : Gathered(track', i) = Gathered(t, i)
    BY <1>8 DEF Gathered
  <2>2. EventsOK(sent', track', a)
    BY <1>5, <2>1, SameGathered
  <2> QED  BY <1>2, <2>2 DEF EventsOK
<1>11. ClosedOK(sent, DoneTools(track))'
  <2>1. ClosedOK(sent', DoneTools(track'))
    BY <1>5, <1>8
  <2> QED  BY <1>2, <2>1 DEF ClosedOK, Closed, NotClosed, DoneTools
<1>12. BridgeTypes'
  BY <1>0, <1>2 DEF BridgeTypes
<1>13. \A i \in DOMAIN track' : track'[i].arguments <= chunks'
  BY <1>2, <1>8
<1>14. \A k \in DOMAIN sent' : sent'[k].arguments <= chunks'
  BY <1>0, <1>2, <1>3, <1>4, <1>6, <1>7
<1>15. Headed(sent')
  BY <1>0, <1>4, <1>6 DEF Headed
<1>16. NoneOver(sent')
  BY <1>0, <1>4, <1>6, <1>7 DEF NoneOver, DoneTypes, Terminal
<1>17. OverOnlyAtTheEnd'
  BY <1>16 DEF OverOnlyAtTheEnd, NoneOver
<1>18. finishesLast' /\ lastFinish' # "tool_calls" => DoneTools(track') = {}
  BY <1>0, <1>2, <1>3, <1>8
<1>19. codex' /\ lastFinish' = "tool_calls" => added' \cap ToolIndexes \subseteq DoneTools(track')
  <2>1. a \cap ToolIndexes \subseteq DOMAIN t
    BY DEF TracksOK
  <2> QED  BY <1>2, <1>3, <1>8, <2>1
<1> QED  BY <1>2, <1>9, <1>10, <1>11, <1>12, <1>13, <1>14, <1>15, <1>16, <1>17, <1>18, <1>19
         DEF BridgeInv, DoneTools

\* The fields of an event.
LEMMA BridgeEventFields ==
    ASSUME NEW type \in EventTypes, NEW item \in Items \cup {"response"}
    PROVE  /\ Event(type, item) \in BridgeEvents /\ Event(type, item).type = type
           /\ Event(type, item).item = item /\ Event(type, item).arguments = 0
BY DEF Event, BridgeEvents

\* An event that closes nothing leaves the closed tools closed.
LEMMA ClosedAppend ==
    ASSUME NEW s \in Seq(BridgeEvents), NEW D, ClosedOK(s, D), NEW e \in BridgeEvents,
           e.type \notin DoneTypes, e.type = "delta" /\ finishesLast => D = {}
    PROVE  ClosedOK(Append(s, e), D)
<1> DEFINE q == Append(s, e)
<1>1. Len(s) \in Nat /\ Len(q) = Len(s) + 1 /\ \A k \in 1..Len(s) : q[k] = s[k]
  BY SeqFacts, Appends
<1>2. \A i : \A type \in DoneTypes : EventsAt(q, type, i) = EventsAt(s, type, i)
  BY AppendAt
<1>3. e.type # "delta" => \A i : EventsAt(q, "delta", i) = EventsAt(s, "delta", i)
  BY AppendAt
<1> HIDE DEF q
<1>4. ASSUME NEW i \in ToolIndexes, i \in D  PROVE Closed(q, i)
  <2>1. PICK k \in 1..Len(s) :
          /\ EventsAt(s, "item_done", i) = {k}
          /\ EventsAt(s, "arguments_done", i) = {k - 1}
          /\ finishesLast => /\ s[k].arguments = Cardinality(EventsAt(s, "delta", i))
                             /\ \A d \in EventsAt(s, "delta", i) : d < k - 1
    BY <1>4 DEF ClosedOK, Closed
  <2>2. k \in 1..Len(q) /\ q[k] = s[k]
    BY <1>1
  <2>3. EventsAt(q, "item_done", i) = {k} /\ EventsAt(q, "arguments_done", i) = {k - 1}
    BY <1>2, <2>1 DEF DoneTypes
  <2>4. finishesLast => EventsAt(q, "delta", i) = EventsAt(s, "delta", i)
    BY <1>3, <1>4
  <2> QED  BY <2>1, <2>2, <2>3, <2>4 DEF Closed
<1>5. ASSUME NEW i \in ToolIndexes, i \notin D  PROVE NotClosed(q, i)
  BY <1>2, <1>5 DEF ClosedOK, NotClosed
<1>6. ClosedOK(q, D)
  BY <1>4, <1>5 DEF ClosedOK
<1> QED  BY <1>6 DEF q

\* One more event of a response that goes on.
LEMMA GoodAppend ==
    ASSUME NEW s, NEW t, NEW a, NEW D, NEW n \in Nat, Good(s, t, a, D, n), NEW e \in BridgeEvents,
           e.type \notin DoneTypes \cup Terminal, e.arguments = 0,
           e.type = "delta" /\ finishesLast => D = {},
           NEW u, NEW b, EventsOK(Append(s, e), u, b)
    PROVE  Good(Append(s, e), u, b, D, n)
<1>1. s \in Seq(BridgeEvents) /\ Len(s) \in Nat /\ DOMAIN s = 1..Len(s)
  BY SeqFacts DEF Good, EventsOK
<1> DEFINE q == Append(s, e)
<1>2. /\ Len(q) = Len(s) + 1 /\ DOMAIN q = 1..Len(s) + 1
      /\ \A k \in 1..Len(s) : q[k] = s[k]
      /\ q[Len(s) + 1] = e
  BY <1>1, Appends
<1> HIDE DEF q
<1>3. \A k \in DOMAIN q : k \in 1..Len(s) \/ k = Len(s) + 1
  BY <1>1, <1>2
<1>a. ClosedOK(q, D)
  BY <1>1, ClosedAppend DEF Good, q
<1>4. NoneOver(q)
  BY <1>1, <1>2, <1>3 DEF Good, NoneOver
<1>5. Headed(q)
  BY <1>1, <1>2 DEF Good, Headed
<1>6. \A k \in DOMAIN q : q[k].arguments <= n
  BY <1>1, <1>2, <1>3 DEF Good
<1> QED  BY <1>a, <1>4, <1>5, <1>6 DEF Good, q

\* The header comes first.
LEMMA HeaderOK ==
    ASSUME BridgeInv, upstream = "open"
    PROVE  /\ Good(sent \o Header, track, added, DoneTools(track), chunks + 1)
           /\ sent \o Header \in Seq(BridgeEvents)
<1>0. /\ BridgeTypes /\ EventsOK(sent, track, added) /\ ClosedOK(sent, DoneTools(track))
      /\ NoneOver(sent)
      /\ \A k \in DOMAIN sent : sent[k].arguments <= chunks
      /\ sent \in Seq(BridgeEvents)
  BY DEF BridgeInv, EventsOK
<1>1. chunks \in Nat /\ DOMAIN sent = 1..Len(sent) /\ \A k \in DOMAIN sent : sent[k].arguments \in Nat
  <2>1. chunks \in Nat
    BY <1>0, BridgeAssumption DEF BridgeTypes
  <2>2. DOMAIN sent = 1..Len(sent) /\ \A k \in DOMAIN sent : sent[k] \in BridgeEvents
    BY <1>0, SeqFacts
  <2> QED  BY <2>1, <2>2 DEF BridgeEvents
<1>2. CASE started
  <2>1. sent \o Header = sent
    BY <1>0, <1>2, Concats DEF Header
  <2>2. \A k \in DOMAIN sent : sent[k].arguments <= chunks + 1
    BY <1>0, <1>1
  <2> QED  BY <1>0, <1>2, <2>1, <2>2 DEF Good, BridgeInv
<1>3. CASE ~started
  <2> DEFINE c == Event("created", "response")
             p == Event("in_progress", "response")
  <2>1. /\ c \in BridgeEvents /\ c.type = "created" /\ c.item = "response" /\ c.arguments = 0
        /\ p \in BridgeEvents /\ p.type = "in_progress" /\ p.item = "response" /\ p.arguments = 0
    BY BridgeEventFields DEF EventTypes
  <2>2. sent = <<>>
    BY <1>3 DEF BridgeInv
  <2> HIDE DEF c, p
  <2>3. sent \o Header = Append(Append(sent, c), p)
    BY <1>3, <2>1, <2>2 DEF Header, c, p
  <2>4. EventsOK(Append(sent, c), track, added)
    BY <1>0, <2>1, PlainEvent
  <2>a. ClosedOK(Append(sent, c), DoneTools(track))
    BY <1>0, <2>1, ClosedAppend DEF DoneTypes
  <2>5. Good(Append(sent, c), track, added, DoneTools(track), chunks + 1)
    <3>1. /\ Len(Append(sent, c)) = 1 /\ DOMAIN Append(sent, c) = 1..1
          /\ Append(sent, c)[1] = c
      BY <2>1, <2>2
    <3>2. \A k \in 1..1 : k = 1
      OBVIOUS
    <3> HIDE DEF Good
    <3>3. NoneOver(Append(sent, c)) /\ Headed(Append(sent, c))
      BY <2>1, <3>1, <3>2 DEF NoneOver, Headed, Terminal
    <3>4. \A k \in DOMAIN Append(sent, c) : Append(sent, c)[k].arguments <= chunks + 1
      BY <1>1, <2>1, <3>1, <3>2
    <3> QED  BY <2>4, <2>a, <3>3, <3>4 DEF Good
  <2>6. EventsOK(Append(Append(sent, c), p), track, added)
    BY <2>1, <2>4, PlainEvent
  <2>7. Good(Append(Append(sent, c), p), track, added, DoneTools(track), chunks + 1)
    BY <1>1, <2>1, <2>5, <2>6, GoodAppend DEF DoneTypes, Terminal
  <2> QED  BY <2>3, <2>6, <2>7 DEF EventsOK
<1> QED  BY <1>2, <1>3

\* The three events of a response that goes on: one that is neither an announcement nor a
\* delta, an announcement, and a delta.
LEMMA GoodPlain ==
    ASSUME NEW s, NEW t, NEW a, NEW D, NEW n \in Nat, Good(s, t, a, D, n), NEW e \in BridgeEvents,
           e.type \notin DoneTypes \cup Terminal \cup {"added", "delta"}, e.arguments = 0
    PROVE  Good(Append(s, e), t, a, D, n)
<1>1. EventsOK(Append(s, e), t, a)
  BY PlainEvent DEF Good
<1> QED  BY <1>1, GoodAppend

\* An item is announced.
LEMMA GoodAdded ==
    ASSUME NEW s, NEW t, NEW a, NEW D, NEW n \in Nat, Good(s, t, a, D, n),
           NEW item \in Items, item \notin a
    PROVE  Good(Append(s, Event("added", item)), t, a \cup {item}, D, n)
<1> DEFINE e == Event("added", item)
<1>1. e \in BridgeEvents /\ e.type = "added" /\ e.item = item /\ e.arguments = 0
  BY BridgeEventFields DEF EventTypes
<1> HIDE DEF e
<1>2. EventsOK(Append(s, e), t, a \cup {item})
  BY <1>1, AddedEvent DEF Good
<1>3. e.type \notin DoneTypes \cup Terminal
  BY <1>1 DEF DoneTypes, Terminal
<1>4. Good(Append(s, e), t, a \cup {item}, D, n)
  BY <1>1, <1>2, <1>3, GoodAppend
<1> QED  BY <1>4 DEF e

\* A delta of an item is sent, and gathered if the item is a tool.
LEMMA GoodDelta ==
    ASSUME NEW s, NEW t, NEW u, NEW a, NEW D, NEW n \in Nat, Good(s, t, a, D, n), NEW item \in Items,
           namesFirst \/ item \in Shells => item \in a, finishesLast => D = {},
           \A i \in ToolIndexes : /\ Gathered(t, i) \in Nat
                                  /\ Gathered(u, i) = IF i = item THEN Gathered(t, i) + 1
                                                      ELSE Gathered(t, i)
    PROVE  Good(Append(s, Event("delta", item)), u, a, D, n)
<1> DEFINE e == Event("delta", item)
<1>1. e \in BridgeEvents /\ e.type = "delta" /\ e.item = item /\ e.arguments = 0
  BY BridgeEventFields DEF EventTypes
<1> HIDE DEF e
<1>2. EventsOK(Append(s, e), u, a)
  BY <1>1, DeltaEvent DEF Good
<1>3. e.type \notin DoneTypes \cup Terminal
  BY <1>1 DEF DoneTypes, Terminal
<1>4. Good(Append(s, e), u, a, D, n)
  BY <1>1, <1>2, <1>3, GoodAppend
<1> QED  BY <1>4 DEF e

\* What a track has gathered is a number.
LEMMA GatheredType ==
    ASSUME NEW t, NEW a, TracksOK(t, a), NEW i
    PROVE  Gathered(t, i) \in Nat
BY DEF TracksOK, Gathered

\* What every chunk with a choice starts from.
LEMMA ChoiceOK ==
    ASSUME BridgeInv, Choice, NEW finish
    PROVE  /\ upstream = "open" /\ (finishesLast => DoneTools(track) = {})
           /\ (finishesLast /\ Latest(finish) # "tool_calls" => DoneTools(track) = {})
           /\ chunks + 1 \in Nat /\ TracksOK(track, added)
           /\ \A i \in DOMAIN track : track[i].arguments <= chunks + 1
           /\ Good(sent \o Header, track, added, DoneTools(track), chunks + 1)
           /\ sent \o Header \in Seq(BridgeEvents)
<1>1. upstream = "open" /\ (finishesLast => DoneTools(track) = {})
  BY DEF Choice, BridgeInv
<1>3. chunks \in Nat /\ chunks + 1 \in Nat
  BY BridgeAssumption DEF BridgeInv, BridgeTypes
<1>4. TracksOK(track, added)
  BY DEF BridgeInv
<1>5. ASSUME NEW i \in DOMAIN track  PROVE track[i].arguments <= chunks + 1
  <2>1. track[i].arguments \in Nat
    BY <1>4 DEF TracksOK
  <2>2. track[i].arguments <= chunks
    BY DEF BridgeInv
  <2> QED  BY <1>3, <2>1, <2>2
<1>6. /\ Good(sent \o Header, track, added, DoneTools(track), chunks + 1)
      /\ sent \o Header \in Seq(BridgeEvents)
  BY <1>1, HeaderOK
<1> QED  BY <1>1, <1>3, <1>4, <1>5, <1>6

\* The events of a shell and its text, one after the other.
LEMMA ShellConcats ==
    ASSUME NEW s \in Seq(BridgeEvents), NEW x \in BridgeEvents, NEW y \in BridgeEvents, NEW z \in BridgeEvents
    PROVE  /\ s \o ((<<x>> \o <<>>) \o <<z>>) = Append(Append(s, x), z)
           /\ s \o ((<<x>> \o <<y>>) \o <<z>>) = Append(Append(Append(s, x), y), z)
<1>1. <<x>> \in Seq(BridgeEvents) /\ <<y>> \in Seq(BridgeEvents) /\ <<z>> \in Seq(BridgeEvents)
  OBVIOUS
<1>2. <<x>> \o <<>> = <<x>> /\ <<x>> \o <<y>> \in Seq(BridgeEvents)
  BY <1>1, Concats
<1>3. s \o <<x>> = Append(s, x) /\ Append(s, x) \in Seq(BridgeEvents)
  BY Concats, Appends
<1>4. /\ Append(s, x) \o <<z>> = Append(Append(s, x), z)
      /\ Append(s, x) \o <<y>> = Append(Append(s, x), y)
      /\ Append(Append(s, x), y) \in Seq(BridgeEvents)
  BY <1>3, Concats, Appends
<1>5. Append(Append(s, x), y) \o <<z>> = Append(Append(Append(s, x), y), z)
  BY <1>4, Concats
<1>6. s \o (<<x>> \o <<z>>) = (s \o <<x>>) \o <<z>>
  BY <1>1, Concats
<1>7. /\ s \o (<<x>> \o <<y>>) = (s \o <<x>>) \o <<y>>
      /\ s \o ((<<x>> \o <<y>>) \o <<z>>) = (s \o (<<x>> \o <<y>>)) \o <<z>>
  BY <1>1, <1>2, Concats
<1> QED  BY <1>2, <1>3, <1>4, <1>5, <1>6, <1>7

\* A chunk of text or of reasoning announces its shell if need be, and sends its delta.
LEMMA TextChunkOK ==
    ASSUME BridgeInv, NEW finish \in Finishes \cup {"none"}, NEW item \in Shells,
           TextChunk(item, finish)
    PROVE  BridgeInv'
<1> DEFINE H == sent \o Header
           D == DoneTools(track)
           evs == ShellEvents(item) \o <<Event("delta", item)>>
           A == Event("added", item)
           B == Event("part_added", item)
           d == Event("delta", item)
           n == chunks + 1
<1>1. /\ upstream = "open" /\ (finishesLast => D = {})
      /\ (finishesLast /\ Latest(finish) # "tool_calls" => D = {})
      /\ n \in Nat /\ TracksOK(track, added)
      /\ \A i \in DOMAIN track : track[i].arguments <= n
      /\ Good(H, track, added, D, n) /\ H \in Seq(BridgeEvents)
  BY ChoiceOK DEF TextChunk
<1>2. item \in Items /\ item \notin ToolIndexes
  BY BridgeAssumption DEF Items
<1>3. /\ A \in BridgeEvents /\ B \in BridgeEvents /\ d \in BridgeEvents
      /\ B.type = "part_added" /\ B.arguments = 0
  BY <1>2, BridgeEventFields DEF EventTypes
<1>4. ChunkDone(evs, track, added \cup {item}, finish)
  BY DEF TextChunk
<1>5. TracksOK(track, added \cup {item})
  BY <1>1, <1>2 DEF TracksOK
<1>6. \A i \in ToolIndexes : /\ Gathered(track, i) \in Nat
                             /\ Gathered(track, i) = IF i = item THEN Gathered(track, i) + 1
                                                     ELSE Gathered(track, i)
  BY <1>1, <1>2, GatheredType
<1> HIDE DEF H, D, n
<1>7. Good(H \o evs, track, added \cup {item}, D, n)
  <2>1. CASE item \in added
    <3>1. H \o evs = Append(H, d)
      BY <1>1, <1>3, <2>1 DEF ShellEvents
    <3>2. Good(Append(H, d), track, added, D, n)
      BY <1>1, <1>2, <1>6, <2>1, GoodDelta
    <3>3. added \cup {item} = added
      BY <2>1
    <3> QED  BY <3>1, <3>2, <3>3
  <2>2. CASE item \notin added /\ item = "message" /\ codex
    <3>1. evs = (<<A>> \o <<B>>) \o <<d>>
      BY <2>2 DEF ShellEvents
    <3>2. Good(Append(H, A), track, added \cup {item}, D, n)
      BY <1>1, <1>2, <2>2, GoodAdded
    <3>3. B.type \notin DoneTypes \cup Terminal \cup {"added", "delta"}
      BY <1>3 DEF DoneTypes, Terminal
    <3> HIDE DEF A, B
    <3>4. Good(Append(Append(H, A), B), track, added \cup {item}, D, n)
      BY <1>1, <1>3, <3>2, <3>3, GoodPlain
    <3>5. Good(Append(Append(Append(H, A), B), d), track, added \cup {item}, D, n)
      BY <1>1, <1>2, <1>6, <3>4, GoodDelta
    <3> HIDE DEF d, evs
    <3>6. H \o evs = Append(Append(Append(H, A), B), d)
      BY <1>1, <1>3, <3>1, ShellConcats
    <3> QED  BY <3>5, <3>6
  <2>3. CASE item \notin added /\ ~(item = "message" /\ codex)
    <3>1. evs = (<<A>> \o <<>>) \o <<d>>
      BY <2>3 DEF ShellEvents
    <3>2. Good(Append(H, A), track, added \cup {item}, D, n)
      BY <1>1, <1>2, <2>3, GoodAdded
    <3> HIDE DEF A
    <3>3. Good(Append(Append(H, A), d), track, added \cup {item}, D, n)
      BY <1>1, <1>2, <1>6, <3>2, GoodDelta
    <3> HIDE DEF d, evs
    <3>4. H \o evs = Append(Append(H, A), d)
      BY <1>1, <1>3, <3>1, ShellConcats
    <3> QED  BY <3>3, <3>4
  <2> QED  BY <2>1, <2>2, <2>3
<1> HIDE DEF evs
<1>8. Good(sent \o Header \o evs, track, added \cup {item}, D, chunks + 1)
  BY <1>7 DEF H, n
<1>9. \A i \in DOMAIN track : track[i].arguments <= chunks + 1
  BY <1>1 DEF n
<1> QED  BY <1>1, <1>4, <1>5, <1>8, <1>9, ChunkDoneOK DEF D

\* A refusal is sent as it is.
LEMMA RefusalChunkOK ==
    ASSUME BridgeInv, NEW finish \in Finishes \cup {"none"}, RefusalChunk(finish)
    PROVE  BridgeInv'
<1> DEFINE H == sent \o Header
           D == DoneTools(track)
           e == Event("refusal", "response")
<1>1. /\ upstream = "open" /\ (finishesLast => D = {})
      /\ (finishesLast /\ Latest(finish) # "tool_calls" => D = {})
      /\ chunks + 1 \in Nat /\ TracksOK(track, added)
      /\ \A i \in DOMAIN track : track[i].arguments <= chunks + 1
      /\ Good(H, track, added, D, chunks + 1) /\ H \in Seq(BridgeEvents)
  BY ChoiceOK DEF RefusalChunk
<1>2. e \in BridgeEvents /\ e.type = "refusal" /\ e.arguments = 0
  BY BridgeEventFields DEF EventTypes
<1>3. ChunkDone(<<e>>, track, added, finish)
  BY DEF RefusalChunk
<1>4. e.type \notin DoneTypes \cup Terminal \cup {"added", "delta"}
  BY <1>2 DEF DoneTypes, Terminal
<1> HIDE DEF H, D, e
<1>5. Good(Append(H, e), track, added, D, chunks + 1)
  BY <1>1, <1>2, <1>4, GoodPlain
<1>6. H \o <<e>> = Append(H, e)
  BY <1>1, <1>2, Concats
<1>7. Good(sent \o Header \o <<e>>, track, added, D, chunks + 1)
  BY <1>5, <1>6 DEF H
<1> QED  BY <1>1, <1>3, <1>7, ChunkDoneOK DEF D

\* A choice with the finish reason alone sends only the closing events.
LEMMA FinishChunkOK ==
    ASSUME BridgeInv, NEW finish \in Finishes \cup {"none"}, FinishChunk(finish)
    PROVE  BridgeInv'
<1> DEFINE H == sent \o Header
           D == DoneTools(track)
<1>1. /\ upstream = "open" /\ (finishesLast => D = {})
      /\ (finishesLast /\ Latest(finish) # "tool_calls" => D = {})
      /\ TracksOK(track, added)
      /\ \A i \in DOMAIN track : track[i].arguments <= chunks + 1
      /\ Good(H, track, added, D, chunks + 1) /\ H \in Seq(BridgeEvents)
  BY ChoiceOK DEF FinishChunk
<1>2. ChunkDone(<<>>, track, added, finish)
  BY DEF FinishChunk
<1> HIDE DEF H, D
<1>3. H \o <<>> = H
  BY <1>1, Concats
<1>4. Good(sent \o Header \o <<>>, track, added, D, chunks + 1)
  BY <1>1, <1>3 DEF H
<1> QED  BY <1>1, <1>2, <1>4, ChunkDoneOK DEF D

\* The track of a tool after one of its entries.
LEMMA ToolTrackOK ==
    ASSUME TracksOK(track, added), NEW i, NEW args \in BOOLEAN
    PROVE  /\ ToolTrack(i, args) \in [arguments : Nat, done : BOOLEAN]
           /\ ToolTrack(i, args).arguments =
                IF args THEN Gathered(track, i) + 1 ELSE Gathered(track, i)
           /\ ToolTrack(i, args).done <=> i \in DoneTools(track)
<1> DEFINE r == IF i \in DOMAIN track THEN track[i] ELSE [arguments |-> 0, done |-> FALSE]
           m == IF args THEN r.arguments + 1 ELSE r.arguments
<1>1. /\ r \in [arguments : Nat, done : BOOLEAN] /\ r.arguments = Gathered(track, i)
  BY DEF TracksOK, Gathered
<1>2. r.done <=> i \in DoneTools(track)
  <2>1. CASE i \in DOMAIN track
    BY <2>1 DEF DoneTools
  <2>2. CASE i \notin DOMAIN track
    <3>1. r = [arguments |-> 0, done |-> FALSE]
      BY <2>2
    <3>2. i \notin DoneTools(track)
      BY <2>2 DEF DoneTools
    <3> HIDE DEF r
    <3>3. r.done = FALSE
      BY <3>1, Zenon
    <3> QED  BY <3>2, <3>3, Zenon
  <2> QED  BY <2>1, <2>2
<1>3. ToolTrack(i, args) = [r EXCEPT !.arguments = m]
  BY DEF ToolTrack
<1>4. m \in Nat
  BY <1>1
<1>5. m = IF args THEN Gathered(track, i) + 1 ELSE Gathered(track, i)
  BY <1>1
<1> HIDE DEF r, m
<1>6. /\ [r EXCEPT !.arguments = m] \in [arguments : Nat, done : BOOLEAN]
      /\ [r EXCEPT !.arguments = m].arguments = m
      /\ [r EXCEPT !.arguments = m].done = r.done
  BY <1>1, <1>4, Zenon
<1> QED  BY <1>2, <1>3, <1>5, <1>6

\* An entry of delta.tool_calls announces the tool when its name is known, and sends and
\* gathers its arguments.
LEMMA ToolChunkOK ==
    ASSUME BridgeInv, NEW finish \in Finishes \cup {"none"}, NEW i \in ToolIndexes,
           NEW named \in BOOLEAN, NEW args \in BOOLEAN, ToolChunk(i, named, args, finish)
    PROVE  BridgeInv'
<1> DEFINE H == sent \o Header
           evs == ToolEvents(i, named, args)
           t == [j \in DOMAIN track \cup {i} |-> IF j = i THEN ToolTrack(i, args) ELSE track[j]]
           a == IF named THEN added \cup {i} ELSE added
           D == DoneTools(track)
           n == chunks + 1
           A == Event("added", i)
           d == Event("delta", i)
<1>1. /\ upstream = "open" /\ (finishesLast => D = {})
      /\ (finishesLast /\ Latest(finish) # "tool_calls" => D = {})
      /\ n \in Nat /\ TracksOK(track, added)
      /\ \A j \in DOMAIN track : track[j].arguments <= n
      /\ Good(H, track, added, D, n) /\ H \in Seq(BridgeEvents)
  BY ChoiceOK DEF ToolChunk
<1>2. i \in Items /\ i \notin Shells
  BY BridgeAssumption DEF Items
<1>3. A \in BridgeEvents /\ d \in BridgeEvents
  BY <1>2, BridgeEventFields DEF EventTypes
<1>4. ChunkDone(evs, t, a, finish) /\ (namesFirst /\ i \notin DOMAIN track => named)
  BY DEF ToolChunk
<1>5. /\ ToolTrack(i, args) \in [arguments : Nat, done : BOOLEAN]
      /\ ToolTrack(i, args).arguments =
           IF args THEN Gathered(track, i) + 1 ELSE Gathered(track, i)
      /\ ToolTrack(i, args).done <=> i \in DoneTools(track)
  BY <1>1, ToolTrackOK
<1>6. /\ DOMAIN t = DOMAIN track \cup {i} /\ t[i] = ToolTrack(i, args)
      /\ \A j \in DOMAIN track : j # i => t[j] = track[j]
      /\ t = [j \in DOMAIN t |-> t[j]]
  OBVIOUS
<1>7. a \subseteq added \cup {i} /\ added \subseteq a /\ (named => i \in a)
  OBVIOUS
<1>8. ~named => a = added
  OBVIOUS
<1>9. named => a = added \cup {i}
  OBVIOUS
<1>b. evs = ToolAdded(i, named) \o (IF args THEN <<d>> ELSE <<>>)
  BY DEF ToolEvents
<1> HIDE DEF H, D, n, t, a, A, d, evs
<1>10. TracksOK(t, a)
  <2>1. \A j \in DOMAIN t : t[j] \in [arguments : Nat, done : BOOLEAN]
    BY <1>1, <1>5, <1>6 DEF TracksOK
  <2>2. t \in [DOMAIN t -> [arguments : Nat, done : BOOLEAN]]
    BY <1>6, <2>1
  <2>3. IsFiniteSet(DOMAIN t)
    BY <1>1, <1>6, FS_AddElement DEF TracksOK
  <2>4. a \subseteq Items /\ DOMAIN t \subseteq ToolIndexes /\ a \cap ToolIndexes \subseteq DOMAIN t
    BY <1>1, <1>2, <1>6, <1>7 DEF TracksOK
  <2>5. namesFirst => DOMAIN t \subseteq a
    BY <1>1, <1>4, <1>6, <1>7 DEF TracksOK
  <2> QED  BY <2>2, <2>3, <2>4, <2>5 DEF TracksOK
<1>11. \A j \in ToolIndexes : /\ Gathered(track, j) \in Nat
                              /\ Gathered(t, j) = IF j = i /\ args THEN Gathered(track, j) + 1
                                                  ELSE Gathered(track, j)
  <2>1. \A j \in ToolIndexes : Gathered(track, j) \in Nat
    BY <1>1, GatheredType
  <2>2. Gathered(t, i) = IF args THEN Gathered(track, i) + 1 ELSE Gathered(track, i)
    <3>1. Gathered(t, i) = t[i].arguments
      BY <1>6 DEF Gathered
    <3> QED  BY <1>5, <1>6, <3>1
  <2>3. \A j \in ToolIndexes : j # i => Gathered(t, j) = Gathered(track, j)
    BY <1>6 DEF Gathered
  <2> QED  BY <2>1, <2>2, <2>3
<1>c. DoneTools(t) = D
  <2>1. t[i].done <=> i \in D
    BY <1>5, <1>6 DEF D
  <2>2. \A j \in DOMAIN track : j # i => (t[j].done <=> track[j].done)
    BY <1>6
  <2>3. ASSUME NEW j  PROVE j \in DoneTools(t) <=> j \in D
    BY <1>6, <2>1, <2>2 DEF DoneTools, D
  <2> QED  BY <2>3
<1>12. \A j \in DOMAIN t : t[j].arguments <= n
  <2>1. t[i].arguments <= n
    <3>1. Gathered(track, i) <= chunks /\ Gathered(track, i) \in Nat /\ chunks \in Nat
      <4>1. chunks \in Nat
        BY BridgeAssumption DEF BridgeInv, BridgeTypes
      <4>2. i \in DOMAIN track => track[i].arguments <= chunks
        BY DEF BridgeInv
      <4> QED  BY <1>11, <4>1, <4>2 DEF Gathered
    <3> QED  BY <1>5, <1>6, <3>1 DEF n
  <2> QED  BY <1>1, <1>5, <1>6, <2>1
\* The announcement, if any.
<1>13. PICK q : /\ q = H \o ToolAdded(i, named) /\ q \in Seq(BridgeEvents)
                /\ ToolAdded(i, named) \in Seq(BridgeEvents)
                /\ Good(q, track, a, D, n)
  <2>1. CASE named /\ i \notin added
    <3>1. ToolAdded(i, named) = <<A>>
      BY <2>1 DEF ToolAdded, A
    <3>2. H \o <<A>> = Append(H, A) /\ Append(H, A) \in Seq(BridgeEvents) /\ <<A>> \in Seq(BridgeEvents)
      BY <1>1, <1>3, Concats, Appends
    <3>3. Good(Append(H, A), track, added \cup {i}, D, n)
      BY <1>1, <1>2, <2>1, GoodAdded DEF A
    <3> QED  BY <1>9, <2>1, <3>1, <3>2, <3>3
  <2>2. CASE ~(named /\ i \notin added)
    <3>1. ToolAdded(i, named) = <<>>
      BY <2>2 DEF ToolAdded
    <3>2. H \o <<>> = H /\ <<>> \in Seq(BridgeEvents)
      BY <1>1, Concats
    <3>3. a = added
      BY <1>8, <1>9, <2>2
    <3> QED  BY <1>1, <3>1, <3>2, <3>3
  <2> QED  BY <2>1, <2>2
\* The arguments, if any.
<1>14. Good(H \o evs, t, a, D, n)
  <2>1. CASE args
    <3>1. H \o evs = Append(q, d)
      <4>1. evs = ToolAdded(i, named) \o <<d>> /\ <<d>> \in Seq(BridgeEvents)
        BY <1>3, <1>b, <2>1
      <4>2. H \o (ToolAdded(i, named) \o <<d>>) = (H \o ToolAdded(i, named)) \o <<d>>
        BY <1>1, <1>13, <4>1, Concats
      <4> QED  BY <1>3, <1>13, <4>1, <4>2, Concats
    <3>2. namesFirst \/ i \in Shells => i \in a
      BY <1>2, <1>6, <1>10 DEF TracksOK
    <3>3. \A j \in ToolIndexes : /\ Gathered(track, j) \in Nat
                                 /\ Gathered(t, j) = IF j = i THEN Gathered(track, j) + 1
                                                     ELSE Gathered(track, j)
      BY <1>11, <2>1
    <3>4. Good(Append(q, d), t, a, D, n)
      BY <1>1, <1>2, <1>13, <3>2, <3>3, GoodDelta DEF d
    <3> QED  BY <3>1, <3>4
  <2>2. CASE ~args
    <3>1. evs = ToolAdded(i, named)
      BY <1>13, <1>b, <2>2, Concats
    <3>2. \A j \in ToolIndexes : Gathered(t, j) = Gathered(track, j)
      BY <1>11, <2>2
    <3>3. EventsOK(q, t, a)
      BY <1>13, <3>2, SameGathered DEF Good
    <3> QED  BY <1>13, <3>1, <3>3 DEF Good
  <2> QED  BY <2>1, <2>2
<1>15. Good(sent \o Header \o evs, t, a, D, chunks + 1)
  BY <1>14 DEF H, n
<1>16. \A j \in DOMAIN t : t[j].arguments <= chunks + 1
  BY <1>12 DEF n
<1> QED  BY <1>1, <1>4, <1>c, <1>10, <1>15, <1>16, ChunkDoneOK

\* A chunk without a choice keeps the finish reason, and the tools it closed.
LEMMA UsageChunkOK ==
    ASSUME BridgeInv, UsageChunk
    PROVE  BridgeInv'
<1> DEFINE H == sent \o Header
           D == DoneTools(track)
<1>1. /\ upstream = "open" /\ TracksOK(track, added)
      /\ ChunkDone(<<>>, track, added, "none")
  BY DEF BridgeInv, UsageChunk
<1>2. finishesLast /\ Latest("none") # "tool_calls" => D = {}
  BY DEF BridgeInv, Latest
<1>3. \A i \in DOMAIN track : track[i].arguments <= chunks + 1
  <2>1. chunks \in Nat
    BY BridgeAssumption DEF BridgeInv, BridgeTypes
  <2>2. \A i \in DOMAIN track : track[i].arguments \in Nat /\ track[i].arguments <= chunks
    BY <1>1 DEF BridgeInv, TracksOK
  <2> QED  BY <2>1, <2>2
<1>4. Good(H, track, added, D, chunks + 1) /\ H \in Seq(BridgeEvents)
  BY <1>1, HeaderOK
<1> HIDE DEF H, D
<1>5. H \o <<>> = H
  BY <1>4, Concats
<1>6. Good(sent \o Header \o <<>>, track, added, D, chunks + 1)
  BY <1>4, <1>5 DEF H
<1> QED  BY <1>1, <1>2, <1>3, <1>6, ChunkDoneOK DEF D

\* The end of the body ends the response.
LEMMA FinalizeOK ==
    ASSUME BridgeInv, Finalize
    PROVE  BridgeInv'
<1> DEFINE e == Event(IF lastFinish = "length" THEN "incomplete" ELSE "completed", "response")
           n == Len(sent)
<1>0. /\ BridgeTypes /\ TracksOK(track, added) /\ EventsOK(sent, track, added)
      /\ sent \in Seq(BridgeEvents) /\ n \in Nat /\ DOMAIN sent = 1..n
      /\ NoneOver(sent)
  BY SeqFacts DEF BridgeInv, EventsOK, Finalize
<1>1. /\ e \in BridgeEvents /\ e.type = (IF lastFinish = "length" THEN "incomplete" ELSE "completed")
      /\ e.arguments = 0
  BY BridgeEventFields DEF EventTypes
<1>2. /\ sent' = Append(sent, e) /\ upstream' = "ended"
      /\ codex' = codex /\ namesFirst' = namesFirst /\ finishesLast' = finishesLast
      /\ started' = started /\ added' = added
      /\ track' = track /\ lastFinish' = lastFinish /\ chunks' = chunks
  BY DEF Finalize
<1> HIDE DEF e
<1>a. e.type \in Terminal /\ e.type \notin {"added", "delta"} \cup DoneTypes
  BY <1>1 DEF Terminal, DoneTypes
<1>3. /\ sent' \in Seq(BridgeEvents) /\ Len(sent') = n + 1 /\ DOMAIN sent' = 1..n + 1
      /\ \A k \in 1..n : sent'[k] = sent[k]
      /\ sent'[n + 1] = e
  BY <1>0, <1>1, <1>2, Appends
<1> HIDE DEF n
<1>4. \A k \in DOMAIN sent' : k \in 1..n \/ k = n + 1
  BY <1>0, <1>3
<1>5. EventsOK(sent, track, added)'
  <2>1. EventsOK(sent', track, added)
    BY <1>0, <1>1, <1>2, <1>a, PlainEvent
  <2> QED  BY <1>2, <2>1 DEF EventsOK
<1>6. BridgeTypes' /\ TracksOK(track, added)'
  BY <1>0, <1>2 DEF BridgeTypes, TracksOK
<1>7. \A k \in DOMAIN sent' : sent'[k].arguments <= chunks'
  <2>1. chunks \in Nat
    BY <1>0, BridgeAssumption DEF BridgeTypes
  <2>2. \A k \in 1..n : sent[k].arguments <= chunks
    BY <1>0 DEF BridgeInv
  <2> QED  BY <1>1, <1>2, <1>3, <1>4, <2>1, <2>2
<1>8. started' => Headed(sent')
  <2>1. ASSUME started  PROVE Headed(sent')
    <3>1. Len(sent) > 0 /\ sent[1].type = "created"
      BY <2>1 DEF BridgeInv, Headed
    <3>2. 1 \in 1..n
      BY <1>0, <3>1 DEF n
    <3> QED  BY <1>0, <1>3, <3>1, <3>2 DEF Headed
  <2> QED  BY <1>2, <2>1
<1>9. ClosedOK(sent, DoneTools(track))'
  <2>1. ClosedOK(sent', DoneTools(track))
    <3>1. ClosedOK(sent, DoneTools(track))
      BY DEF BridgeInv
    <3> QED  BY <1>0, <1>1, <1>2, <1>a, <3>1, ClosedAppend
  <2> QED  BY <1>2, <2>1 DEF ClosedOK, Closed, NotClosed, DoneTools
<1>10. OverOnlyAtTheEnd'
  <2> SUFFICES ASSUME NEW k \in DOMAIN sent', sent'[k].type \in Terminal
               PROVE  /\ k = Len(sent')
                      /\ sent'[k].type = "incomplete" <=> lastFinish' = "length"
                      /\ chunks' > 0 => sent'[1].type = "created"
    BY <1>2 DEF OverOnlyAtTheEnd
  <2>1. k = n + 1
    BY <1>0, <1>3, <1>4 DEF NoneOver
  <2>2. sent'[k].type = "incomplete" <=> lastFinish' = "length"
    BY <1>1, <1>2, <1>3, <2>1
  <2>3. chunks' > 0 => sent'[1].type = "created"
    BY <1>2, <1>8 DEF BridgeInv, Headed
  <2> QED  BY <1>3, <2>1, <2>2, <2>3
<1>11. /\ \A i \in DOMAIN track' : track'[i].arguments <= chunks'
       /\ chunks' > 0 => started'
       /\ finishesLast' /\ lastFinish' # "tool_calls" => DoneTools(track') = {}
       /\ codex' /\ lastFinish' = "tool_calls" =>
             added' \cap ToolIndexes \subseteq DoneTools(track')
  BY <1>2 DEF BridgeInv
<1> QED  BY <1>2, <1>5, <1>6, <1>7, <1>8, <1>9, <1>10, <1>11 DEF BridgeInv, DoneTools

\* A broken body ends nothing.
LEMMA StreamErrorOK ==
    ASSUME BridgeInv, StreamError
    PROVE  BridgeInv'
<1>1. /\ upstream' = "broken" /\ NoneOver(sent)
      /\ codex' = codex /\ namesFirst' = namesFirst /\ finishesLast' = finishesLast
      /\ started' = started /\ added' = added
      /\ track' = track /\ lastFinish' = lastFinish /\ chunks' = chunks /\ sent' = sent
      /\ upstream # "ended"
  BY DEF StreamError, BridgeInv
<1>2. BridgeTypes' /\ TracksOK(track, added)' /\ EventsOK(sent, track, added)'
  BY <1>1 DEF BridgeInv, BridgeTypes, TracksOK, EventsOK
<1>3. OverOnlyAtTheEnd'
  BY <1>1 DEF OverOnlyAtTheEnd, NoneOver
<1>4. ClosedOK(sent, DoneTools(track))'
  BY <1>1 DEF BridgeInv, ClosedOK, Closed, NotClosed, DoneTools
<1> QED  BY <1>1, <1>2, <1>3, <1>4 DEF BridgeInv, DoneTools

\* The invariant holds before the first chunk.
LEMMA BridgeInitInv == BridgeInit => BridgeInv
<1> SUFFICES ASSUME BridgeInit  PROVE BridgeInv
  OBVIOUS
<1>1. /\ codex \in BOOLEAN /\ namesFirst \in BOOLEAN /\ finishesLast \in BOOLEAN
      /\ started = FALSE /\ added = {}
      /\ track = [i \in {} |-> 0] /\ lastFinish = "none" /\ upstream = "open" /\ chunks = 0
      /\ sent = <<>>
  BY DEF BridgeInit
<1>2. DOMAIN sent = {} /\ sent \in Seq(BridgeEvents) /\ DOMAIN track = {}
  BY <1>1
<1>3. BridgeTypes
  <2>1. chunks \in 0..MaxChunks
    BY <1>1, BridgeAssumption
  <2>2. /\ started \in BOOLEAN /\ lastFinish \in Finishes \cup {"none"}
        /\ upstream \in {"open", "ended", "broken"}
    BY <1>1
  <2> QED  BY <1>1, <2>1, <2>2 DEF BridgeTypes
<1>4. TracksOK(track, added)
  <2>1. IsFiniteSet(DOMAIN track)
    BY <1>2, FS_EmptySet
  <2> QED  BY <1>1, <1>2, <2>1 DEF TracksOK
<1>5. EventsOK(sent, track, added)
  <2>1. \A type, item : EventsAt(sent, type, item) = {}
    BY <1>2 DEF EventsAt
  <2>2. \A i : Gathered(track, i) = 0
    BY <1>2 DEF Gathered
  <2>3. Cardinality({}) = 0
    BY FS_EmptySet
  <2> QED  BY <1>1, <1>2, <2>1, <2>2, <2>3 DEF EventsOK
<1>6. DoneTools(track) = {} /\ ClosedOK(sent, DoneTools(track))
  BY <1>2 DEF DoneTools, ClosedOK, NotClosed, EventsAt
<1> QED  BY <1>1, <1>2, <1>3, <1>4, <1>5, <1>6 DEF BridgeInv, NoneOver, OverOnlyAtTheEnd

\* Every chunk and the end of the body keep it.
LEMMA BridgeStepInv == BridgeInv /\ [BridgeNext]_bridgeVars => BridgeInv'
<1> SUFFICES ASSUME BridgeInv, [BridgeNext]_bridgeVars  PROVE BridgeInv'
  OBVIOUS
<1>1. CASE \E finish \in Finishes \cup {"none"} :
             \/ \E item \in Shells : TextChunk(item, finish)
             \/ RefusalChunk(finish)
             \/ \E i \in ToolIndexes : \E named, args \in BOOLEAN : ToolChunk(i, named, args, finish)
             \/ FinishChunk(finish)
  BY <1>1, TextChunkOK, RefusalChunkOK, ToolChunkOK, FinishChunkOK
<1>2. CASE UsageChunk
  BY <1>2, UsageChunkOK
<1>3. CASE Finalize
  BY <1>3, FinalizeOK
<1>4. CASE StreamError
  BY <1>4, StreamErrorOK
<1>5. CASE UNCHANGED bridgeVars
  <2>1. ClosedOK(sent, DoneTools(track))'
    BY <1>5 DEF bridgeVars, BridgeInv, ClosedOK, Closed, NotClosed, DoneTools
  <2> QED  BY <1>5, <2>1 DEF bridgeVars, BridgeInv, BridgeTypes, TracksOK, EventsOK,
                             OverOnlyAtTheEnd, DoneTools
<1> QED  BY <1>1, <1>2, <1>3, <1>4, <1>5 DEF BridgeNext

\* At every moment of a stream each item is announced once, before its deltas, the deltas of a
\* tool are those its track has gathered, and the tools marked as closed are those the client
\* saw closed.
THEOREM BridgeInvariant == BridgeSpec => []BridgeInv
BY BridgeInitInv, BridgeStepInv, PTL DEF BridgeSpec

\* The state of the bridge and the events it sends keep their types (BridgeTypeOK).
THEOREM BridgeTypeCorrect == BridgeSpec => []BridgeTypeOK
<1>1. BridgeInv => BridgeTypeOK
  <2> SUFFICES ASSUME BridgeInv  PROVE BridgeTypeOK
    OBVIOUS
  <2>0. BridgeTypes /\ TracksOK(track, added) /\ sent \in Seq(BridgeEvents)
    BY DEF BridgeInv, EventsOK
  <2>1. chunks \in 0..MaxChunks /\ MaxChunks \in Nat
    BY <2>0, BridgeAssumption DEF BridgeTypes
  <2>2. ASSUME NEW i \in DOMAIN track
        PROVE  track[i] \in [arguments : 0..MaxChunks, done : BOOLEAN]
    <3>1. track[i] \in [arguments : Nat, done : BOOLEAN]
      BY <2>0 DEF TracksOK
    <3>2. track[i].arguments <= chunks
      BY DEF BridgeInv
    <3>3. track[i].arguments \in 0..MaxChunks
      BY <2>1, <3>1, <3>2
    <3> QED  BY <3>1, <3>3, Zenon
  <2>3. ASSUME NEW k \in DOMAIN sent
        PROVE  /\ sent[k].type \in EventTypes /\ sent[k].item \in Items \cup {"response"}
               /\ sent[k].arguments \in 0..MaxChunks
    <3>1. sent[k] \in BridgeEvents
      BY <2>0, SeqFacts
    <3>2. sent[k].arguments <= chunks
      BY DEF BridgeInv
    <3> QED  BY <2>1, <3>1, <3>2 DEF BridgeEvents
  <2> QED  BY <2>0, <2>2, <2>3 DEF BridgeTypeOK, BridgeTypes, TracksOK
<1> QED  BY <1>1, BridgeInvariant, PTL

\* For any number of tools and chunks, in any order: an item is announced once and before its
\* deltas, a Codex client sees every announced tool closed once - with all of its arguments
\* and after them, if the provider sends no choice after its finish reason - and the response
\* is over once, last, and only when the body ended (cursor_responses_openrouter_bridge.rs:
\* EventsInOrder).
THEOREM EventsAlwaysInOrder == BridgeSpec => []EventsInOrder
<1>1. BridgeInv => EventsInOrder
  <2> SUFFICES ASSUME BridgeInv  PROVE EventsInOrder
    OBVIOUS
  <2>0. EventsOK(sent, track, added) /\ sent \in Seq(BridgeEvents)
    BY DEF BridgeInv, EventsOK
  <2>1. \A type, item : SentAt(type, item) = EventsAt(sent, type, item)
    BY DEF SentAt, EventsAt
  <2>2. ASSUME NEW item \in Items  PROVE Cardinality(SentAt("added", item)) <= 1
    <3>1. \A k, l \in SentAt("added", item) : k = l
      BY <2>0, <2>1 DEF EventsOK
    <3>2. CASE SentAt("added", item) = {}
      BY <3>2, FS_EmptySet
    <3>3. CASE SentAt("added", item) # {}
      <4>1. PICK k : SentAt("added", item) = {k}
        BY <3>1, <3>3
      <4>2. Cardinality({k}) = 1
        BY FS_Singleton
      <4> QED  BY <4>1, <4>2
    <3> QED  BY <3>2, <3>3
  <2>3. \A item \in IF namesFirst THEN Items ELSE Shells :
           \A d \in SentAt("delta", item) : \E a \in SentAt("added", item) : a < d
    BY <2>0, <2>1 DEF EventsOK, Items
  <2>4. ToolsClosedWhole
    <3> SUFFICES ASSUME codex, lastFinish = "tool_calls", NEW i \in ToolIndexes \cap added
                 PROVE  \E k \in DOMAIN sent :
                          /\ SentAt("item_done", i) = {k}
                          /\ SentAt("arguments_done", i) = {k - 1}
                          /\ finishesLast => /\ sent[k].arguments = Cardinality(SentAt("delta", i))
                                             /\ \A d \in SentAt("delta", i) : d < k - 1
      BY DEF ToolsClosedWhole
    <3>1. Closed(sent, i)
      BY DEF BridgeInv, ClosedOK
    <3>2. DOMAIN sent = 1..Len(sent)
      BY <2>0, SeqFacts
    <3> QED  BY <2>1, <3>1, <3>2 DEF Closed
  <2> QED  BY <2>2, <2>3, <2>4 DEF BridgeInv, EventsInOrder, DeltasAnnounced
<1> QED  BY <1>1, BridgeInvariant, PTL

-----------------------------------------------------------------------------
(* The parts together                                                      *)

\* Whichever part runs, each of them behaves as its own specification says: the one that
\* runs by its steps, the others by resting.
THEOREM PartsKeepTheirSpecs ==
    GatewaySpec => /\ Spec /\ IpSpec /\ IdentitySpec /\ WsSpec
                   /\ BridgeSpec /\ ChatBridgeSpec /\ RequestLogSpec /\ CounterSpec
<1> DEFINE all == <<part, vars, ipVars, identityVars, wsVars, bridgeVars, chatBridgeVars,
                    logVars, counterVars>>
<1>1. GatewayInit => /\ Init /\ IpInit /\ IdentityInit /\ WsInit
                     /\ BridgeInit /\ ChatBridgeInit /\ RequestLogInit /\ CounterInit
  BY DEF GatewayInit
<1>2. [GatewayNext]_all => [Next]_vars
  BY DEF GatewayNext
<1>3. [GatewayNext]_all => [IpNext]_ipVars
  BY DEF GatewayNext
<1>4. [GatewayNext]_all => [IdentityNext]_identityVars
  BY DEF GatewayNext
<1>5. [GatewayNext]_all => [WsNext]_wsVars
  BY DEF GatewayNext
<1>6. [GatewayNext]_all => [BridgeNext]_bridgeVars
  BY DEF GatewayNext
<1>7. [GatewayNext]_all => [ChatBridgeNext]_chatBridgeVars
  BY DEF GatewayNext
<1>8. [GatewayNext]_all => [RequestLogNext]_logVars
  BY DEF GatewayNext
<1>9. [GatewayNext]_all => [CounterNext]_counterVars
  BY DEF GatewayNext
<1> QED
  BY <1>1, <1>2, <1>3, <1>4, <1>5, <1>6, <1>7, <1>8, <1>9, PTL
  DEF GatewaySpec, Spec, IpSpec, IdentitySpec, WsSpec, BridgeSpec, ChatBridgeSpec,
      RequestLogSpec, CounterSpec

\* Every variable of the part that runs keeps its type, and every bounded resource its
\* bound.
THEOREM GatewayTypeCorrect == GatewaySpec => []GatewayTypeOK
<1> DEFINE all == <<part, vars, ipVars, identityVars, wsVars, bridgeVars, chatBridgeVars,
                    logVars, counterVars>>
           PartOK == part \in {"balancer", "address", "identity", "workspace",
                               "responses", "chat", "log", "counters"}
<1>1. GatewaySpec => []PartOK
  <2>1. GatewayInit => PartOK
    BY DEF GatewayInit
  <2>2. PartOK /\ [GatewayNext]_all => PartOK'
    BY DEF GatewayNext
  <2> QED  BY <2>1, <2>2, PTL DEF GatewaySpec
<1>2. /\ TypeOK /\ IpTypeOK /\ IdentityTypeOK /\ WsTypeOK /\ BridgeTypeOK /\ ChatBridgeTypeOK
      /\ RequestLogTypeOK /\ CounterTypeOK
      /\ PartOK
      => GatewayTypeOK
  BY DEF GatewayTypeOK
<1> HIDE DEF PartOK
<1> QED
  BY <1>1, <1>2, PartsKeepTheirSpecs, TypeCorrect, IpTypeCorrect, IdentityTypeCorrect,
     WsTypeCorrect, BridgeTypeCorrect, ChatBridgeTypeCorrect, RequestLogTypeCorrect,
     CounterTypeCorrect, PTL

\* What the parts promise holds wherever they stand side by side: all of it, for any
\* number of providers, clients, requests, items and threads.
THEOREM GatewayIsSafe ==
    GatewaySpec => /\ [](ProvidersKept /\ IpLimitHolds /\ IdentityLimitHolds /\ CountAccounted
                         /\ EventsInOrder /\ ChunksTrue /\ RecordsAgree /\ CountsTrue)
                   /\ WindowNotExtended
  BY PartsKeepTheirSpecs, ProvidersAreKept, IpLimitAlwaysHolds, IdentityLimitAlwaysHolds,
     WsCountAccounted, EventsAlwaysInOrder, ChunksAlwaysTrue, RecordsAreConsistent,
     CountsAlwaysTrue, WindowKeepsItsEnd, PTL
=============================================================================
