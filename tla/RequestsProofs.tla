--------------------------- MODULE RequestsProofs ---------------------------
(***************************************************************************)
(* The stations of a request, for any number of gateways, requests,        *)
(* attempts, chunks, signatures, tools and calls.                          *)
(*                                                                         *)
(* Slots: whatever fails, each counter is the number of slots held and of  *)
(* slots lost, so that the cap holds and requests are turned away only     *)
(* when it is reached.  All follow from one fact about steps: how the      *)
(* holders of a counter, the counter and the losses change together        *)
(* (Tracks).                                                               *)
(*                                                                         *)
(* A dispatch posts no more than it may and caches only what it was        *)
(* answered; a payment is settled, forwarded and accounted for once.       *)
(*                                                                         *)
(* Calls of tools: the invariant ties what the tool received, the bill and *)
(* the audit trail to the step of the call, and the count of permits to    *)
(* the calls that hold one.                                                *)
(*                                                                         *)
(* Observed calls: the invariant ties the names of a draft to the aliases  *)
(* that lead to it and its arguments to what the provider has sent.        *)
(***************************************************************************)
EXTENDS MCRequests, ProviderFailoverProofs, EventLogProofs, FiniteSetTheorems,
        SequenceTheorems, TLAPS

-----------------------------------------------------------------------------
(* The gateway's slots                                                      *)

(* How points of call, slots, flags and spawned releases go together.      *)
Shape ==
    \A r \in Requests :
        /\ pc[r] \in {"idle", "rejected", "waiting", "denied"} => slot[r] = "none"
        /\ pc[r] = "granted" => slot[r] = "redis"
        /\ released[r] <=> pc[r] = "ended"
        /\ r \in releasing => pc[r] \in {"idle", "ended"}

(* Holders S, their counter n and its losses l become T, m and k: nothing  *)
(* changes; a holder comes; a holder goes and is counted off; holders go   *)
(* and are lost; all are forgotten with their counter.                     *)
Tracks(S, T, n, m, l, k) ==
    \/ T = S /\ m = n /\ k = l
    \/ k = l /\ \E r \in Requests \ S : T = S \cup {r} /\ m = n + 1
    \/ k = l /\ \E r \in S : T = S \ {r} /\ m = IF n > 0 THEN n - 1 ELSE 0
    \/ m = n /\ \E R \in SUBSET Requests : T = S \ R /\ k = l + Cardinality(S \cap R)
    \/ T = {} /\ m = 0 /\ k = 0

TracksRedis == Tracks(RedisHeld, RedisHeld', counter, counter', leaked, leaked')

TracksMemory(g) ==
    Tracks(MemoryHeld(g), MemoryHeld(g)', memory[g], memory'[g], forgotten[g], forgotten'[g])

TracksAll == TracksRedis /\ \A g \in Gateways : TracksMemory(g)

-----------------------------------------------------------------------------
(* The holders of a counter are finitely many requests.                    *)
LEMMA HeldTypes ==
  ASSUME InFlightTypeOK
  PROVE  /\ RedisHeld \in SUBSET Requests
         /\ \A R : Cardinality(RedisHeld \cap R) \in Nat
         /\ \A g \in Gateways : MemoryHeld(g) \in SUBSET Requests
<1>1. RedisHeld \in SUBSET Requests /\ \A g \in Gateways : MemoryHeld(g) \in SUBSET Requests
  BY DEF InFlightTypeOK, RedisHeld, MemoryHeld
<1>2. ASSUME NEW R  PROVE Cardinality(RedisHeld \cap R) \in Nat
  <2>1. IsFiniteSet(RedisHeld \cap R)
    BY <1>1, InFlightConstants, FS_Subset
  <2> QED  BY <2>1, FS_CardinalityType
<1> QED  BY <1>1, <1>2

(* Every variable of InFlightLimit keeps its type, and neither counter     *)
(* ever passes Max.                                                        *)
THEOREM InFlightTypeCorrect == InFlightSpec => []InFlightTypeOK
<1> USE InFlightConstants
<1>1. InFlightInit => InFlightTypeOK
  BY DEF InFlightInit, InFlightTypeOK, Points, Slots
<1>2. InFlightTypeOK /\ [InFlightNext]_inFlightVars => InFlightTypeOK'
  <2> SUFFICES ASSUME InFlightTypeOK, [InFlightNext]_inFlightVars  PROVE InFlightTypeOK'
    OBVIOUS
  <2>0. ASSUME NEW R, Leak(R)  PROVE leaked' \in Nat
    <3>1. leaked \in Nat /\ Cardinality(RedisHeld \cap R) \in Nat
      BY HeldTypes DEF InFlightTypeOK
    <3> QED  BY <2>0, <3>1 DEF Leak
  <2> USE DEF InFlightTypeOK, Points, Slots, Connections
  <2>1. CASE UNCHANGED inFlightVars
    BY <2>1 DEF inFlightVars
  <2>2. ASSUME NEW r \in Requests, AcquireMemory(r)
        PROVE  /\ pc' \in [Requests -> Points] /\ slot' \in [Requests -> Slots]
               /\ memory' \in [Gateways -> 0 .. Max]
    BY <2>2 DEF AcquireMemory
  <2>3. ASSUME NEW r \in Requests, Arrive(r)  PROVE InFlightTypeOK'
    BY <2>2, <2>3 DEF Arrive, redisVars, history
  <2>4. ASSUME NEW r \in Requests, Evaluate(r)  PROVE InFlightTypeOK'
    BY <2>4 DEF Evaluate, Executes, Grants, history
  <2>5. ASSUME NEW r \in Requests, Reply(r) \/ Respond(r)  PROVE InFlightTypeOK'
    BY <2>5 DEF Reply, Respond, redisVars, history
  <2>11. ASSUME NEW r \in Requests, Cancel(r)  PROVE InFlightTypeOK'
    <3>1. leaked' \in Nat /\ forgotten' \in [Gateways -> Nat]
      BY <2>0, <2>11 DEF Cancel
    <3> QED  BY <2>11, <3>1 DEF Cancel, redisVars
  <2>6. ASSUME NEW r \in Requests, EvaluateFails(r)  PROVE InFlightTypeOK'
    <3>1. conn' \in [Gateways -> Connections]
      BY <2>6 DEF EvaluateFails, Fails
    <3> QED  BY <2>0, <2>2, <2>6, <3>1 DEF EvaluateFails
  <2>7. ASSUME NEW r \in Requests, BodyEnds(r) \/ BodyDropped(r)  PROVE InFlightTypeOK'
    <3>1. memory' \in [Gateways -> 0 .. Max] /\ releasing' \in SUBSET Requests
      BY <2>7 DEF BodyEnds, BodyDropped, FireRelease
    <3>2. released' \in [Requests -> BOOLEAN]
      BY <2>7 DEF BodyEnds, BodyDropped
    <3> QED  BY <2>7, <3>1, <3>2 DEF BodyEnds, BodyDropped, redisVars, history
  <2>8. ASSUME NEW r \in Requests, Decrement(r)  PROVE InFlightTypeOK'
    <3>1. conn' \in [Gateways -> Connections]
      BY <2>8 DEF Decrement, Executes, Fails
    <3>2. counter' \in 0 .. Max /\ leaked' \in Nat
      BY <2>0, <2>8 DEF Decrement
    <3> QED  BY <2>8, <3>1, <3>2 DEF Decrement, requestVars
  <2>9. ASSUME NEW g \in Gateways, Ping(g) \/ IdentityCountFails(g)  PROVE InFlightTypeOK'
    <3>1. conn' \in [Gateways -> Connections]
      BY <2>9 DEF Ping, IdentityCountFails, Executes, Fails
    <3>2. useRedis' \in [Gateways -> BOOLEAN]
      BY <2>9 DEF Ping, IdentityCountFails
    <3> QED  BY <2>9, <3>1, <3>2 DEF Ping, IdentityCountFails, requestVars, history
  <2>10. ASSUME NEW g \in Gateways, Crash(g)  PROVE InFlightTypeOK'
    <3>1. released' \in [Requests -> BOOLEAN]
      BY <2>10 DEF Crash
    <3>2. useRedis' \in [Gateways -> BOOLEAN] /\ conn' \in [Gateways -> Connections]
      BY <2>10 DEF Crash
    <3>3. /\ pc' \in [Requests -> Points] /\ slot' \in [Requests -> Slots]
          /\ memory' \in [Gateways -> 0 .. Max]
          /\ releasing' \in SUBSET Requests /\ counter' \in 0 .. Max
      BY <2>10 DEF Crash
    <3>4. leaked' \in Nat /\ forgotten' \in [Gateways -> Nat]
      BY <2>0, <2>10 DEF Crash
    <3> QED  BY <3>1, <3>2, <3>3, <3>4
  <2> QED
    BY <2>1, <2>3, <2>4, <2>5, <2>6, <2>7, <2>8, <2>9, <2>10, <2>11 DEF InFlightNext
<1> QED  BY <1>1, <1>2, PTL DEF InFlightSpec

-----------------------------------------------------------------------------
(* Shape is an invariant.                                                  *)
LEMMA ShapeInvariant == InFlightSpec => [](InFlightTypeOK /\ Shape)
<1> USE InFlightConstants
<1>1. InFlightInit => Shape
  BY DEF InFlightInit, Shape
<1>2. InFlightTypeOK /\ Shape /\ [InFlightNext]_inFlightVars => Shape'
  <2> SUFFICES ASSUME InFlightTypeOK, Shape, [InFlightNext]_inFlightVars  PROVE Shape'
    OBVIOUS
  <2> USE DEF InFlightTypeOK, Points, Slots, Connections, Shape
  <2>1. CASE UNCHANGED inFlightVars
    BY <2>1 DEF inFlightVars
  <2>2. ASSUME NEW r \in Requests, Arrive(r)  PROVE Shape'
    BY <2>2 DEF Arrive, AcquireMemory, redisVars
  <2>3. ASSUME NEW r \in Requests, Evaluate(r)  PROVE Shape'
    BY <2>3 DEF Evaluate, Executes
  <2>4. ASSUME NEW r \in Requests, Reply(r) \/ Respond(r) \/ Cancel(r)  PROVE Shape'
    BY <2>4 DEF Reply, Respond, Cancel, redisVars
  <2>5. ASSUME NEW r \in Requests, EvaluateFails(r)  PROVE Shape'
    BY <2>5 DEF EvaluateFails, AcquireMemory
  <2>6. ASSUME NEW r \in Requests, BodyEnds(r) \/ BodyDropped(r)  PROVE Shape'
    BY <2>6 DEF BodyEnds, BodyDropped, FireRelease, redisVars
  <2>7. ASSUME NEW r \in Requests, Decrement(r)  PROVE Shape'
    BY <2>7 DEF Decrement, requestVars
  <2>8. ASSUME NEW g \in Gateways, Ping(g) \/ IdentityCountFails(g)  PROVE Shape'
    BY <2>8 DEF Ping, IdentityCountFails, requestVars
  <2>9. ASSUME NEW g \in Gateways, Crash(g)  PROVE Shape'
    BY <2>9 DEF Crash
  <2> QED
    BY <2>1, <2>2, <2>3, <2>4, <2>5, <2>6, <2>7, <2>8, <2>9 DEF InFlightNext
<1> QED  BY <1>1, <1>2, InFlightTypeCorrect, PTL DEF InFlightSpec

-----------------------------------------------------------------------------
(* When holders, counter and losses move together, an exact counter stays  *)
(* exact.                                                                  *)
LEMMA TracksCounts ==
  ASSUME NEW S \in SUBSET Requests, NEW T \in SUBSET Requests,
         NEW n \in Nat, NEW m \in Nat, NEW l \in Nat, NEW k \in Nat,
         Tracks(S, T, n, m, l, k), n = Cardinality(S) + l
  PROVE  m = Cardinality(T) + k
<1>1. IsFiniteSet(S)
  BY InFlightConstants, FS_Subset
<1>2. Cardinality(S) \in Nat
  BY <1>1, FS_CardinalityType
<1>3. ASSUME NEW r \in Requests \ S, T = S \cup {r}
      PROVE  Cardinality(T) = Cardinality(S) + 1
  BY <1>1, <1>3, FS_AddElement
<1>4. ASSUME NEW r \in S, T = S \ {r}
      PROVE  Cardinality(T) = Cardinality(S) - 1 /\ Cardinality(S) > 0
  <2>1. Cardinality(T) = Cardinality(S) - 1 /\ IsFiniteSet(T)
    BY <1>1, <1>4, FS_RemoveElement
  <2>2. Cardinality(T) \in Nat
    BY <2>1, FS_CardinalityType
  <2> QED  BY <1>2, <2>1, <2>2
<1>5. ASSUME NEW R \in SUBSET Requests, T = S \ R
      PROVE  Cardinality(T) = Cardinality(S) - Cardinality(S \cap R)
             /\ Cardinality(S \cap R) \in Nat
  <2>1. Cardinality(S \ R) = Cardinality(S) - Cardinality(S \cap R)
    BY <1>1, FS_Difference
  <2>2. IsFiniteSet(S \cap R)
    BY <1>1, FS_Subset
  <2> QED  BY <1>5, <2>1, <2>2, FS_CardinalityType
<1>6. CASE T = {} /\ m = 0 /\ k = 0
  BY <1>6, FS_EmptySet
<1>7. CASE k = l /\ \E r \in Requests \ S : T = S \cup {r} /\ m = n + 1
  BY <1>2, <1>3, <1>7
<1>8. CASE k = l /\ \E r \in S : T = S \ {r} /\ m = IF n > 0 THEN n - 1 ELSE 0
  <2>1. Cardinality(T) = Cardinality(S) - 1 /\ Cardinality(S) > 0
    BY <1>4, <1>8
  <2>2. m = IF n > 0 THEN n - 1 ELSE 0
    BY <1>8
  <2> QED  BY <1>2, <1>8, <2>1, <2>2
<1>9. CASE m = n /\ \E R \in SUBSET Requests : T = S \ R /\ k = l + Cardinality(S \cap R)
  <2>1. PICK R \in SUBSET Requests : T = S \ R /\ k = l + Cardinality(S \cap R)
    BY <1>9
  <2>2. /\ Cardinality(T) = Cardinality(S) - Cardinality(S \cap R)
        /\ Cardinality(S \cap R) \in Nat
    BY <1>5, <2>1
  <2> QED  BY <1>2, <1>9, <2>1, <2>2
<1> QED  BY <1>6, <1>7, <1>8, <1>9 DEF Tracks

(* Every step moves the holders, the counter and the losses together.      *)
LEMMA StepTracks == InFlightTypeOK /\ Shape /\ [InFlightNext]_inFlightVars => TracksAll
<1> SUFFICES ASSUME InFlightTypeOK, Shape, [InFlightNext]_inFlightVars  PROVE TracksAll
  OBVIOUS
<1> USE InFlightConstants
<1>m. ASSUME NEW r \in Requests, AcquireMemory(r), UNCHANGED <<released, forgotten>>,
             pc[r] # "inner", pc[r] # "body", pc[r] # "ended"
      PROVE  \A g \in Gateways : TracksMemory(g)
  <2> SUFFICES ASSUME NEW g \in Gateways  PROVE TracksMemory(g)
    OBVIOUS
  <2>1. slot[r] # "memory"
    BY <1>m DEF InFlightTypeOK, Shape, Points
  <2>2. CASE g = Home[r] /\ memory[g] < Max
    <3>1. /\ r \notin MemoryHeld(g) /\ MemoryHeld(g)' = MemoryHeld(g) \cup {r}
          /\ memory'[g] = memory[g] + 1
      BY <1>m, <2>1, <2>2 DEF AcquireMemory, MemoryHeld, InFlightTypeOK, Shape
    <3> QED  BY <1>m, <3>1 DEF Tracks, TracksMemory
  <2>3. CASE ~(g = Home[r] /\ memory[g] < Max)
    <3>1. MemoryHeld(g)' = MemoryHeld(g) /\ memory'[g] = memory[g]
      BY <1>m, <2>1, <2>3 DEF AcquireMemory, MemoryHeld, InFlightTypeOK
    <3> QED  BY <1>m, <3>1 DEF Tracks, TracksMemory
  <2> QED  BY <2>2, <2>3
<1>s. ASSUME UNCHANGED <<slot, released, memory, forgotten>>
      PROVE  \A g \in Gateways : TracksMemory(g)
  BY <1>s DEF MemoryHeld, Tracks, TracksMemory
<1>1. CASE UNCHANGED inFlightVars
  BY <1>1, <1>s DEF inFlightVars, TracksAll, TracksRedis, Tracks, RedisHeld
<1>2. ASSUME NEW r \in Requests, Arrive(r)  PROVE TracksAll
  <2>1. RedisHeld' = RedisHeld /\ counter' = counter
    BY <1>2 DEF Arrive, AcquireMemory, RedisHeld, InFlightTypeOK, Shape
  <2>2. TracksRedis
    BY <1>2, <2>1 DEF Arrive, history, TracksRedis, Tracks
  <2>3. CASE useRedis[Home[r]]
    BY <1>2, <1>s, <2>2, <2>3 DEF Arrive, history, TracksAll
  <2>4. CASE ~useRedis[Home[r]]
    BY <1>2, <1>m, <2>2, <2>4 DEF Arrive, history, TracksAll
  <2> QED  BY <2>3, <2>4
<1>3. ASSUME NEW r \in Requests, Evaluate(r)  PROVE TracksAll
  <2>1. \A g \in Gateways : MemoryHeld(g)' = MemoryHeld(g) /\ memory'[g] = memory[g]
    BY <1>3 DEF Evaluate, MemoryHeld, InFlightTypeOK, Shape
  <2>2. (\A g \in Gateways : TracksMemory(g)) /\ leaked' = leaked
    BY <1>3, <2>1 DEF Evaluate, history, TracksMemory, Tracks
  <2>3. CASE Grants
    <3>1. r \notin RedisHeld
      BY <1>3 DEF Evaluate, RedisHeld, InFlightTypeOK, Shape
    <3>2. RedisHeld' = RedisHeld \cup {r} /\ counter' = counter + 1
      BY <1>3, <2>3 DEF Evaluate, RedisHeld, InFlightTypeOK, Shape
    <3> QED  BY <2>2, <3>1, <3>2 DEF TracksAll, TracksRedis, Tracks
  <2>4. CASE ~Grants
    <3>1. RedisHeld' = RedisHeld /\ counter' = counter
      BY <1>3, <2>4 DEF Evaluate, RedisHeld
    <3> QED  BY <2>2, <3>1 DEF TracksAll, TracksRedis, Tracks
  <2> QED  BY <2>3, <2>4
<1>4. ASSUME NEW r \in Requests, Reply(r) \/ Respond(r)  PROVE TracksAll
  BY <1>4, <1>s DEF Reply, Respond, history, TracksAll, TracksRedis, Tracks, RedisHeld
<1>5. ASSUME NEW r \in Requests, Cancel(r)  PROVE TracksAll
  <2>1. r \notin releasing /\ ~released[r]
    BY <1>5 DEF Cancel, InFlightTypeOK, Shape
  <2>2. TracksRedis
    <3>1. RedisHeld' = RedisHeld \ {r} /\ counter' = counter /\ Leak({r})
      BY <1>5, <2>1 DEF Cancel, RedisHeld, InFlightTypeOK
    <3> QED  BY <3>1 DEF Leak, TracksRedis, Tracks
  <2>3. ASSUME NEW g \in Gateways  PROVE TracksMemory(g)
    <3>1. CASE r \in MemoryHeld(g)
      <4>1. /\ MemoryHeld(g)' = MemoryHeld(g) \ {r} /\ memory'[g] = memory[g]
            /\ forgotten'[g] = forgotten[g] + 1
        BY <1>5, <3>1 DEF Cancel, MemoryHeld, InFlightTypeOK
      <4>2. MemoryHeld(g) \cap {r} = {r} /\ Cardinality({r}) = 1
        BY <3>1, FS_Singleton
      <4>3. /\ MemoryHeld(g)' = MemoryHeld(g) \ {r} /\ {r} \in SUBSET Requests
            /\ forgotten'[g] = forgotten[g] + Cardinality(MemoryHeld(g) \cap {r})
        BY <4>1, <4>2
      <4> QED  BY <4>1, <4>3 DEF TracksMemory, Tracks
    <3>2. CASE r \notin MemoryHeld(g)
      <4>1. /\ MemoryHeld(g)' = MemoryHeld(g) /\ memory'[g] = memory[g]
            /\ forgotten'[g] = forgotten[g]
        BY <1>5, <2>1, <3>2 DEF Cancel, MemoryHeld, InFlightTypeOK
      <4> QED  BY <4>1 DEF TracksMemory, Tracks
    <3> QED  BY <3>1, <3>2
  <2> QED  BY <2>2, <2>3 DEF TracksAll
<1>6. ASSUME NEW r \in Requests, EvaluateFails(r)  PROVE TracksAll
  <2>1. r \notin releasing
    BY <1>6 DEF EvaluateFails, InFlightTypeOK, Shape
  <2>2. RedisHeld' = RedisHeld \ {r} /\ counter' = counter /\ Leak({r})
    BY <1>6, <2>1 DEF EvaluateFails, AcquireMemory, RedisHeld, InFlightTypeOK
  <2>3. TracksRedis
    BY <2>2 DEF Leak, TracksRedis, Tracks
  <2>4. /\ pc[r] # "inner" /\ pc[r] # "body" /\ pc[r] # "ended"
        /\ AcquireMemory(r) /\ UNCHANGED <<released, forgotten>>
    BY <1>6 DEF EvaluateFails
  <2> QED  BY <1>m, <2>3, <2>4 DEF TracksAll
<1>7. ASSUME NEW r \in Requests, BodyEnds(r) \/ BodyDropped(r)  PROVE TracksAll
  <2>1. RedisHeld' = RedisHeld /\ counter' = counter
    BY <1>7 DEF BodyEnds, BodyDropped, FireRelease, RedisHeld, InFlightTypeOK, Shape
  <2>2. UNCHANGED history
    BY <1>7 DEF BodyEnds, BodyDropped
  <2>3. ASSUME NEW g \in Gateways  PROVE TracksMemory(g)
    <3>1. CASE r \in MemoryHeld(g)
      <4>1. MemoryHeld(g)' = MemoryHeld(g) \ {r}
        BY <1>7, <3>1 DEF BodyEnds, BodyDropped, MemoryHeld, InFlightTypeOK, Shape
      <4>2. memory'[g] = IF memory[g] > 0 THEN memory[g] - 1 ELSE 0
        BY <1>7, <3>1 DEF BodyEnds, BodyDropped, FireRelease, MemoryHeld, InFlightTypeOK
      <4> QED  BY <2>2, <3>1, <4>1, <4>2 DEF history, TracksMemory, Tracks
    <3>2. CASE r \notin MemoryHeld(g)
      <4>1. MemoryHeld(g)' = MemoryHeld(g)
        BY <1>7, <3>2 DEF BodyEnds, BodyDropped, MemoryHeld, InFlightTypeOK, Shape
      <4>2. memory'[g] = memory[g]
        BY <1>7, <3>2 DEF BodyEnds, BodyDropped, FireRelease, MemoryHeld, InFlightTypeOK
      <4> QED  BY <2>2, <4>1, <4>2 DEF history, TracksMemory, Tracks
    <3> QED  BY <3>1, <3>2
  <2> QED  BY <2>1, <2>2, <2>3 DEF history, TracksAll, TracksRedis, Tracks
<1>8. ASSUME NEW r \in Requests, Decrement(r)  PROVE TracksAll
  <2>1. \A g \in Gateways : TracksMemory(g)
    BY <1>8, <1>s DEF Decrement, requestVars
  <2>2. r \in RedisHeld /\ RedisHeld' = RedisHeld \ {r}
    BY <1>8 DEF Decrement, requestVars, RedisHeld, InFlightTypeOK, Shape
  <2>3. CASE counter' = (IF counter > 0 THEN counter - 1 ELSE 0) /\ leaked' = leaked
    BY <2>1, <2>2, <2>3 DEF TracksAll, TracksRedis, Tracks
  <2>4. CASE counter' = counter /\ Leak({r})
    BY <2>1, <2>2, <2>4 DEF Leak, TracksAll, TracksRedis, Tracks
  <2> QED  BY <1>8, <2>3, <2>4 DEF Decrement
<1>9. ASSUME NEW g \in Gateways, Ping(g) \/ IdentityCountFails(g)  PROVE TracksAll
  <2>1. UNCHANGED <<slot, released, memory, counter, releasing, leaked, forgotten>>
    BY <1>9 DEF Ping, IdentityCountFails, requestVars, history
  <2> QED  BY <1>s, <2>1 DEF TracksAll, TracksRedis, Tracks, RedisHeld
<1>10. ASSUME NEW g \in Gateways, Crash(g)  PROVE TracksAll
  <2> DEFINE R == {r \in Requests : Home[r] = g}
  <2>1. TracksRedis
    <3>1. counter' = counter /\ Leak(R)
      BY <1>10 DEF Crash
    <3>2. \A r \in Requests : /\ r \in R => slot'[r] = "none"
                              /\ r \notin R => slot'[r] = slot[r] /\ released'[r] = released[r]
      BY <1>10 DEF Crash
    <3>3. releasing' = releasing \ R
      BY <1>10 DEF Crash, InFlightTypeOK
    <3>4. RedisHeld' = RedisHeld \ R
      BY <3>2, <3>3 DEF RedisHeld
    <3> QED  BY <3>1, <3>4 DEF Leak, TracksRedis, Tracks
  <2>2. ASSUME NEW h \in Gateways  PROVE TracksMemory(h)
    <3>1. CASE h = g
      <4>1. MemoryHeld(h)' = {} /\ memory'[h] = 0 /\ forgotten'[h] = 0
        BY <1>10, <3>1 DEF Crash, MemoryHeld, InFlightTypeOK
      <4> QED  BY <4>1 DEF TracksMemory, Tracks
    <3>2. CASE h # g
      <4>1. memory'[h] = memory[h] /\ forgotten'[h] = forgotten[h]
        BY <1>10, <3>2 DEF Crash, InFlightTypeOK
      <4>2. \A r \in Requests : Home[r] = h => slot'[r] = slot[r] /\ released'[r] = released[r]
        BY <1>10, <3>2 DEF Crash
      <4>3. MemoryHeld(h)' = MemoryHeld(h)
        BY <4>2 DEF MemoryHeld
      <4> QED  BY <4>1, <4>3 DEF TracksMemory, Tracks
    <3> QED  BY <3>1, <3>2
  <2> QED  BY <2>1, <2>2 DEF TracksAll
<1> QED
  BY <1>1, <1>2, <1>3, <1>4, <1>5, <1>6, <1>7, <1>8, <1>9, <1>10 DEF InFlightNext

-----------------------------------------------------------------------------
(* CountersExact: for any processes, requests and maximum each counter is  *)
(* the number of slots held and of slots lost to disconnects, failed       *)
(* commands and crashes.                                                   *)
THEOREM SlotsAreAccountedFor == InFlightSpec => []CountersExact
<1>1. InFlightInit => CountersExact
  <2> SUFFICES ASSUME InFlightInit  PROVE CountersExact
    OBVIOUS
  <2>1. RedisHeld = {} /\ \A g \in Gateways : MemoryHeld(g) = {}
    BY DEF InFlightInit, RedisHeld, MemoryHeld
  <2> QED  BY <2>1, FS_EmptySet DEF InFlightInit, CountersExact
<1>2. InFlightTypeOK /\ Shape /\ InFlightTypeOK' /\ CountersExact /\ [InFlightNext]_inFlightVars => CountersExact'
  <2> SUFFICES ASSUME InFlightTypeOK, Shape, InFlightTypeOK', CountersExact, [InFlightNext]_inFlightVars
               PROVE  CountersExact'
    OBVIOUS
  <2>1. TracksAll
    BY StepTracks
  <2>2. /\ RedisHeld \in SUBSET Requests /\ counter \in Nat /\ leaked \in Nat
        /\ \A g \in Gateways : MemoryHeld(g) \in SUBSET Requests /\ memory[g] \in Nat
                                                              /\ forgotten[g] \in Nat
    BY InFlightConstants DEF InFlightTypeOK, RedisHeld, MemoryHeld
  <2>3. /\ RedisHeld' \in SUBSET Requests /\ counter' \in Nat /\ leaked' \in Nat
        /\ \A g \in Gateways : MemoryHeld(g)' \in SUBSET Requests /\ memory'[g] \in Nat
                                                               /\ forgotten'[g] \in Nat
    BY InFlightConstants DEF InFlightTypeOK, RedisHeld, MemoryHeld
  <2>4. counter' = Cardinality(RedisHeld') + leaked'
    BY <2>1, <2>2, <2>3, TracksCounts DEF TracksAll, TracksRedis, CountersExact
  <2>5. \A g \in Gateways : memory'[g] = Cardinality(MemoryHeld(g)') + forgotten'[g]
    BY <2>1, <2>2, <2>3, TracksCounts DEF TracksAll, TracksMemory, CountersExact
  <2> QED  BY <2>4, <2>5 DEF CountersExact
<1> QED  BY <1>1, <1>2, ShapeInvariant, PTL DEF InFlightSpec

(* CapPerBackend: whatever is lost, cancelled or crashes, at most Max      *)
(* requests hold slots of a backend: the counters are exact and never pass *)
(* Max.                                                                    *)
THEOREM CapHolds == InFlightSpec => []CapPerBackend
<1>1. InFlightTypeOK /\ CountersExact => CapPerBackend
  <2> SUFFICES ASSUME InFlightTypeOK, CountersExact  PROVE CapPerBackend
    OBVIOUS
  <2>1. /\ Cardinality(RedisHeld) \in Nat
        /\ \A g \in Gateways : Cardinality(MemoryHeld(g)) \in Nat
    BY HeldTypes, InFlightConstants, FS_Subset, FS_CardinalityType
  <2> QED  BY <2>1, InFlightConstants DEF InFlightTypeOK, CountersExact, CapPerBackend
<1> QED  BY <1>1, InFlightTypeCorrect, SlotsAreAccountedFor, PTL

(* RejectedOnlyWhenFull: a request is turned away only while every slot is *)
(* held or lost, by the exactness of the counter it met.                   *)
THEOREM RejectionsAreJust == InFlightSpec => RejectedOnlyWhenFull
<1> DEFINE Just ==
      \A r \in Requests :
        /\ pc[r] = "waiting" /\ pc'[r] = "denied" => Cardinality(RedisHeld) + leaked >= Max
        /\ pc[r] \in {"idle", "waiting"} /\ pc'[r] = "rejected"
            => Cardinality(MemoryHeld(Home[r])) + forgotten[Home[r]] >= Max
<1>1. InFlightTypeOK /\ CountersExact /\ [InFlightNext]_inFlightVars => [Just]_inFlightVars
  <2> SUFFICES ASSUME InFlightTypeOK, CountersExact, InFlightNext,
                      NEW r \in Requests, pc'[r] # pc[r]
               PROVE  /\ pc[r] = "waiting" /\ pc'[r] = "denied"
                            => Cardinality(RedisHeld) + leaked >= Max
                      /\ pc[r] \in {"idle", "waiting"} /\ pc'[r] = "rejected"
                            => Cardinality(MemoryHeld(Home[r])) + forgotten[Home[r]] >= Max
    OBVIOUS
  <2> DEFINE Denied == pc'[r] = "denied" => counter >= Max
             Refused == pc[r] \in {"idle", "waiting"} /\ pc'[r] = "rejected"
                            => memory[Home[r]] >= Max
  <2> USE InFlightConstants DEF InFlightTypeOK, Points
  <2>1. ASSUME NEW q \in Requests, Arrive(q)  PROVE Denied /\ Refused
    BY <2>1 DEF Arrive, AcquireMemory
  <2>2. ASSUME NEW q \in Requests, Evaluate(q)  PROVE Denied /\ Refused
    BY <2>2 DEF Evaluate, Grants
  <2>3. ASSUME NEW q \in Requests, EvaluateFails(q)  PROVE Denied /\ Refused
    BY <2>3 DEF EvaluateFails, AcquireMemory
  <2>4. ASSUME NEW q \in Requests, Reply(q) \/ Respond(q) \/ Cancel(q)
        PROVE  Denied /\ Refused
    BY <2>4 DEF Reply, Respond, Cancel
  <2>5. ASSUME NEW q \in Requests, BodyEnds(q) \/ BodyDropped(q) \/ Decrement(q)
        PROVE  Denied /\ Refused
    BY <2>5 DEF BodyEnds, BodyDropped, Decrement, requestVars
  <2>6. ASSUME NEW g \in Gateways, Ping(g) \/ IdentityCountFails(g) \/ Crash(g)
        PROVE  Denied /\ Refused
    BY <2>6 DEF Ping, IdentityCountFails, Crash, requestVars
  <2>7. Denied /\ Refused
    BY <2>1, <2>2, <2>3, <2>4, <2>5, <2>6 DEF InFlightNext
  <2> QED  BY <2>7 DEF CountersExact
<1> QED  BY <1>1, InFlightTypeCorrect, SlotsAreAccountedFor, PTL DEF InFlightSpec, RejectedOnlyWhenFull

(* The cap of each backend and the account of its slots, together.          *)
THEOREM SlotsBalance == InFlightSpec => []SlotsAccounted
<1>1. CapPerBackend /\ CountersExact => SlotsAccounted
  BY DEF SlotsAccounted
<1> QED  BY <1>1, CapHolds, SlotsAreAccountedFor, PTL

-----------------------------------------------------------------------------
(* Dispatcher                                                              *)

Before == {"new", "prepare", "lookup"}
Calling == {"attempt", "regional", "fallback"}
Over == {"ended", "left"}
Saving == {"collecting", "probing", "putting"}

Replies == {NoReply} \cup [from : Upstreams, call : Nat, out : Outcomes]
Entries == {Empty} \cup [from : Upstreams, by : Dispatches, out : Outcomes, chunks : Seq(Nat \X Nat)]

\* The types the induction uses, each a set of functions.
DispatchTypes ==
    /\ phase \in [Dispatches -> Phases]
    /\ kind \in [Dispatches -> AllKinds]
    /\ home \in [Dispatches -> {"origin", "cn"}]
    /\ tries \in [Dispatches -> Nat]
    /\ reply \in [Dispatches -> Replies]
    /\ sent \in [Dispatches -> Nat]
    /\ pos \in [Dispatches -> 0..BodyLen]
    /\ tap \in [Dispatches -> Seq(Nat \X Nat)]
    /\ broken \in [Dispatches -> BOOLEAN]
    /\ pump \in [Dispatches -> {"none", "open", "reconnecting", "closed"}]
    /\ saver \in [Dispatches -> {"none", "collecting", "probing", "putting", "done"}]
    /\ free \in [Dispatches -> 0..BucketSize]
    /\ kv \in [CacheKeys -> [1..BucketSize -> Entries]]
    /\ region \in BOOLEAN

\* The calls sent so far, by phase: what bounds them, and why nothing is sent twice that
\* must not be.
CallsByPhase(d) ==
    /\ phase[d] \in Before => tries[d] = 0 /\ sent[d] = 0 /\ reply[d] = NoReply
    /\ phase[d] = "attempt" =>
          /\ sent[d] = tries[d] /\ tries[d] <= Retries(d)
          /\ reply[d] = NoReply \/ Retryable(d, reply[d].out)
    /\ phase[d] = "regional" =>
          /\ sent[d] <= Retries(d) + 1 /\ ~Single(d)
          /\ reply[d].out = "auth"
    /\ phase[d] = "fallback" =>
          /\ sent[d] <= Retries(d) + 2 /\ ~Single(d)
          /\ Retryable(d, reply[d].out)
    /\ tries[d] <= Retries(d) + 1
    /\ sent[d] <= MaxRetries + 3 + MaxReconnects
    /\ reply[d] # NoReply => reply[d].call \in 1..sent[d]
    /\ pump[d] # "none" => /\ phase[d] \in {"signal", "body"} \cup Over
                           /\ kind[d].stream /\ ~Single(d)

\* The channel of the saving task holds what the client has polled of one response.
TapIsOneBody(d) ==
    /\ phase[d] \notin {"body"} \cup Over => pos[d] = 0
    /\ Len(tap[d]) = IF Writes(d) THEN pos[d] ELSE 0
    /\ \A j \in 1..Len(tap[d]) : tap[d][j] = <<reply[d].call, j>>

\* The task saves only successes, and takes a body for whole that was not cut short.
SaverByPhase(d) ==
    /\ saver[d] \in Saving => /\ Writes(d) /\ reply[d] # NoReply /\ reply[d].out = "ok"
                              /\ phase[d] \in {"body"} \cup Over
    /\ saver[d] \in {"probing", "putting"} => phase[d] \in Over
    /\ saver[d] = "putting" => free[d] \in 1..BucketSize
    /\ saver[d] \in Saving /\ phase[d] \in Over => pos[d] = BodyLen \/ broken[d]

DispatchOK(d) == CallsByPhase(d) /\ TapIsOneBody(d) /\ SaverByPhase(d)

\* An entry is what a dispatch that is over has saved.
EntryOK(k, e) ==
    e # Empty =>
        /\ e.out = "ok" /\ e.from = k[1]
        /\ phase[e.by] \in Over
        /\ \E c \in 1..sent[e.by] : \A j \in 1..Len(e.chunks) : e.chunks[j] = <<c, j>>
        /\ Len(e.chunks) < BodyLen => broken[e.by]

DispatchInv ==
    /\ DispatchTypes
    /\ \A d \in Dispatches : DispatchOK(d)
    /\ \A k \in CacheKeys, i \in 1..BucketSize : EntryOK(k, kv[k][i])

\* The fields of the kind of a dispatch, which never change.
LEMMA KindFields ==
    ASSUME DispatchTypes, NEW d \in Dispatches
    PROVE  Retries(d) \in 0..MaxRetries /\ (Single(d) => Retries(d) = 0)
BY DispatchAssumption DEF Retries

\* The invariant holds of a cache with no entry and of dispatches that have not begun.
LEMMA DispatchInitInv == DispatchInit => DispatchInv
<1> SUFFICES ASSUME DispatchInit PROVE DispatchInv
  OBVIOUS
<1>1. DispatchTypes
  <2>1. kv \in [CacheKeys -> [1..BucketSize -> Entries]]
    BY DEF DispatchInit, Entries
  <2>2. reply \in [Dispatches -> Replies]
    BY DEF DispatchInit, Replies
  <2>3. tap \in [Dispatches -> Seq(Nat \X Nat)]
    BY DEF DispatchInit
  <2>4. kind \in [Dispatches -> AllKinds]
    BY DispatchAssumption DEF DispatchInit
  <2>5. BodyLen \in Nat /\ BucketSize \in Nat
    BY DispatchAssumption
  <2>6. /\ phase \in [Dispatches -> Phases] /\ home \in [Dispatches -> {"origin", "cn"}]
        /\ tries \in [Dispatches -> Nat] /\ sent \in [Dispatches -> Nat]
    BY DEF DispatchInit, Phases
  <2>7. /\ pos \in [Dispatches -> 0..BodyLen] /\ free \in [Dispatches -> 0..BucketSize]
    BY <2>5 DEF DispatchInit
  <2>8. /\ broken \in [Dispatches -> BOOLEAN] /\ region \in BOOLEAN
    BY DEF DispatchInit
  <2>9. /\ pump \in [Dispatches -> {"none", "open", "reconnecting", "closed"}]
        /\ saver \in [Dispatches -> {"none", "collecting", "probing", "putting", "done"}]
    BY DEF DispatchInit
  <2> QED  BY <2>1, <2>2, <2>3, <2>4, <2>6, <2>7, <2>8, <2>9 DEF DispatchTypes
<1>2. ASSUME NEW d \in Dispatches  PROVE DispatchOK(d)
  <2>1. /\ phase[d] = "new" /\ tries[d] = 0 /\ reply[d] = NoReply /\ sent[d] = 0 /\ pos[d] = 0
        /\ tap[d] = <<>> /\ pump[d] = "none" /\ saver[d] = "none"
    BY DEF DispatchInit
  <2>2. Retries(d) \in Nat
    BY <1>1, KindFields, DispatchAssumption
  <2>3. CallsByPhase(d)
    BY <2>1, <2>2, DispatchAssumption DEF CallsByPhase
  <2> QED  BY <2>1, <2>3 DEF DispatchOK, TapIsOneBody, SaverByPhase, Over, Saving
<1>3. \A k \in CacheKeys, i \in 1..BucketSize : EntryOK(k, kv[k][i])
  BY DEF DispatchInit, EntryOK
<1> QED  BY <1>1, <1>2, <1>3 DEF DispatchInv

\* Whatever one dispatch does leaves the others and the cache alone.
LEMMA OneDispatchMoves ==
    ASSUME DispatchInv, DispatchTypes', NEW d \in Dispatches, kind' = kind, kv' = kv,
           \A x \in Dispatches : x # d =>
               /\ phase'[x] = phase[x] /\ tries'[x] = tries[x] /\ reply'[x] = reply[x]
               /\ sent'[x] = sent[x] /\ pos'[x] = pos[x] /\ tap'[x] = tap[x]
               /\ broken'[x] = broken[x] /\ pump'[x] = pump[x] /\ saver'[x] = saver[x]
               /\ free'[x] = free[x],
           DispatchOK(d)', sent[d] <= sent'[d],
           phase[d] \in Over => phase'[d] \in Over /\ broken'[d] = broken[d]
    PROVE  DispatchInv'
<1>1. ASSUME NEW x \in Dispatches, x # d  PROVE DispatchOK(x)'
  <2>1. Retries(x)' = Retries(x) /\ Single(x)' = Single(x) /\ Writes(x)' = Writes(x)
        /\ \A out : Retryable(x, out)' = Retryable(x, out)
    BY DEF Retries, Single, Writes, Retryable
  <2>2. CallsByPhase(x)'
    BY <1>1, <2>1 DEF DispatchInv, DispatchOK, CallsByPhase
  <2>3. TapIsOneBody(x)'
    BY <1>1, <2>1 DEF DispatchInv, DispatchOK, TapIsOneBody
  <2>4. SaverByPhase(x)'
    BY <1>1, <2>1 DEF DispatchInv, DispatchOK, SaverByPhase
  <2> QED  BY <2>2, <2>3, <2>4 DEF DispatchOK
<1>2. ASSUME NEW k \in CacheKeys, NEW i \in 1..BucketSize  PROVE EntryOK(k, kv[k][i])'
  <2> DEFINE e == kv[k][i]
  <2>1. EntryOK(k, e) /\ (e = Empty \/ e.by \in Dispatches)
    <3>1. e \in Entries
      BY DEF DispatchInv, DispatchTypes
    <3>2. EntryOK(k, e)
      BY DEF DispatchInv
    <3> QED  BY <3>1, <3>2 DEF Entries
  <2>2. ASSUME e # Empty
        PROVE  sent[e.by] <= sent'[e.by] /\ phase'[e.by] \in Over /\ broken'[e.by] = broken[e.by]
    <3>1. e.by \in Dispatches /\ phase[e.by] \in Over
      BY <2>1, <2>2 DEF EntryOK
    <3>2. sent[e.by] \in Nat
      BY <3>1 DEF DispatchInv, DispatchTypes
    <3> QED  BY <3>1, <3>2
  <2>3. ASSUME e # Empty  PROVE sent[e.by] \in Nat /\ sent'[e.by] \in Nat
    BY <2>1, <2>3 DEF DispatchInv, DispatchTypes
  <2> HIDE DEF e
  <2>4. EntryOK(k, e)'
    BY <2>1, <2>2, <2>3 DEF EntryOK, e
  <2> QED  BY <2>4 DEF e
<1> QED  BY <1>1, <1>2 DEF DispatchInv

\* What a dispatch may be told about its flags, at any time.
LEMMA KindKept ==
    ASSUME kind' = kind
    PROVE  \A d \in Dispatches :
               /\ Retries(d)' = Retries(d) /\ Single(d)' = Single(d) /\ Writes(d)' = Writes(d)
               /\ \A out : Retryable(d, out)' = Retryable(d, out)
BY DEF Retries, Single, Writes, Retryable

\* The dispatch has its result: of n calls, r is what the client gets.
LEMMA Delivered ==
    ASSUME DispatchInv, NEW d \in Dispatches, phase[d] \in Calling,
           NEW r \in [from : Upstreams, call : Nat, out : Outcomes], Deliver(d, r),
           NEW n \in Nat, sent' = [sent EXCEPT ![d] = n], sent[d] <= n, n <= MaxRetries + 3,
           r.call \in 1..n,
           NEW t \in Nat, tries' = [tries EXCEPT ![d] = t], t <= Retries(d) + 1,
           UNCHANGED <<kind, home, pos, tap, broken, free, kv>>, region' \in BOOLEAN
    PROVE  DispatchInv'
<1>0. /\ DispatchTypes /\ CallsByPhase(d) /\ TapIsOneBody(d) /\ SaverByPhase(d)
      /\ MaxRetries \in Nat /\ MaxReconnects \in Nat
  BY DispatchAssumption DEF DispatchInv, DispatchOK
<1>1. /\ Retries(d)' = Retries(d) /\ Single(d)' = Single(d) /\ Writes(d)' = Writes(d)
  BY KindKept
<1>2. pump[d] = "none" /\ saver[d] \notin Saving /\ pos[d] = 0 /\ Len(tap[d]) = 0
  BY <1>0 DEF CallsByPhase, TapIsOneBody, SaverByPhase, Calling, Over
<1>3. /\ reply'[d] = r /\ sent'[d] = n /\ tries'[d] = t
      /\ phase'[d] \in {"signal", "body", "ended"}
      /\ phase'[d] \in {"signal", "body"} \/ (pump'[d] = "none" /\ saver'[d] = saver[d])
      /\ saver'[d] \in Saving =>
            phase'[d] = "body" /\ saver'[d] = "collecting" /\ Writes(d) /\ r.out = "ok"
      /\ pump'[d] # "none" => kind[d].stream /\ ~Single(d)
  BY <1>0, <1>2 DEF Deliver, Goto, IsResponse, DispatchTypes, Saving
<1>4. DispatchTypes'
  <2> DEFINE ph == IF r.out = "limited" THEN "signal" ELSE "body"
             sv == IF ~Writes(d) THEN "none" ELSE IF r.out = "ok" THEN "collecting" ELSE "done"
             pm == IF kind[d].stream /\ ~Single(d) THEN "open" ELSE "none"
  <2>a. ph \in Phases /\ sv \in {"none", "collecting", "done"} /\ pm \in {"open", "none"}
    BY DEF Phases
  <2>b. \/ /\ phase' = [phase EXCEPT ![d] = ph] /\ saver' = [saver EXCEPT ![d] = sv]
           /\ pump' = [pump EXCEPT ![d] = pm]
        \/ phase' = [phase EXCEPT ![d] = "ended"] /\ saver' = saver /\ pump' = pump
    BY DEF Deliver, Goto
  <2> HIDE DEF ph, sv, pm
  <2>1. phase' \in [Dispatches -> Phases]
    BY <1>0, <2>a, <2>b DEF DispatchTypes, Phases
  <2>2. reply' \in [Dispatches -> Replies]
    BY <1>0 DEF Deliver, DispatchTypes, Replies
  <2>3. saver' \in [Dispatches -> {"none", "collecting", "probing", "putting", "done"}]
    BY <1>0, <2>a, <2>b DEF DispatchTypes
  <2>4. pump' \in [Dispatches -> {"none", "open", "reconnecting", "closed"}]
    BY <1>0, <2>a, <2>b DEF DispatchTypes
  <2>5. sent' \in [Dispatches -> Nat] /\ tries' \in [Dispatches -> Nat]
    BY <1>0 DEF DispatchTypes
  <2> QED  BY <1>0, <2>1, <2>2, <2>3, <2>4, <2>5 DEF DispatchTypes
<1>5. CallsByPhase(d)'
  <2>1. r # NoReply => r.call \in 1..n
    OBVIOUS
  <2> QED  BY <1>0, <1>1, <1>3, <2>1 DEF CallsByPhase, Before, Over
<1>6. TapIsOneBody(d)'
  BY <1>0, <1>1, <1>2, <1>3 DEF TapIsOneBody, DispatchTypes
<1>7. SaverByPhase(d)'
  <2>1. r.out = "ok" => r # NoReply
    BY DEF NoReply
  <2> QED  BY <1>1, <1>2, <1>3, <2>1 DEF SaverByPhase, Over, Saving
<1>8. \A x \in Dispatches : x # d =>
         /\ phase'[x] = phase[x] /\ tries'[x] = tries[x] /\ reply'[x] = reply[x]
         /\ sent'[x] = sent[x] /\ pump'[x] = pump[x] /\ saver'[x] = saver[x]
  BY <1>0 DEF Deliver, Goto, DispatchTypes
<1>9. phase[d] \notin Over
  BY DEF Calling, Over
<1> QED  BY <1>3, <1>4, <1>5, <1>6, <1>7, <1>8, <1>9, OneDispatchMoves DEF DispatchOK

\* There is another call, for a reason that the result so far gives.
LEMMA CalledAgain ==
    ASSUME DispatchInv, NEW d \in Dispatches, phase[d] \in Calling, NEW s \in Calling,
           NEW r \in [from : Upstreams, call : Nat, out : Outcomes], Again(d, s, r),
           NEW n \in Nat, sent' = [sent EXCEPT ![d] = n], sent[d] <= n, r.call \in 1..n,
           NEW t \in Nat, tries' = [tries EXCEPT ![d] = t], t <= Retries(d) + 1,
           s = "attempt" => n = t /\ t <= Retries(d) /\ Retryable(d, r.out),
           s = "regional" => n <= Retries(d) + 1 /\ ~Single(d) /\ r.out = "auth",
           s = "fallback" => n <= Retries(d) + 2 /\ ~Single(d) /\ Retryable(d, r.out),
           UNCHANGED <<kind, home, pos, tap, broken, free, kv>>, region' \in BOOLEAN
    PROVE  DispatchInv'
<1>0. /\ DispatchTypes /\ CallsByPhase(d) /\ TapIsOneBody(d) /\ SaverByPhase(d)
      /\ MaxRetries \in Nat /\ MaxReconnects \in Nat /\ Retries(d) \in 0..MaxRetries
  BY DispatchAssumption, KindFields DEF DispatchInv, DispatchOK
<1>1. /\ Retries(d)' = Retries(d) /\ Single(d)' = Single(d) /\ Writes(d)' = Writes(d)
      /\ \A out : Retryable(d, out)' = Retryable(d, out)
  BY KindKept
<1>2. pump[d] = "none" /\ saver[d] \notin Saving /\ pos[d] = 0 /\ Len(tap[d]) = 0
  BY <1>0 DEF CallsByPhase, TapIsOneBody, SaverByPhase, Calling, Over
<1>3. reply'[d] = r /\ sent'[d] = n /\ tries'[d] = t /\ phase'[d] = s
  BY <1>0 DEF Again, Goto, DispatchTypes
<1>4. DispatchTypes'
  BY <1>0 DEF Again, Goto, DispatchTypes, Phases, Replies, Calling
<1>5. CallsByPhase(d)'
  <2>1. r # NoReply => r.call \in 1..n
    OBVIOUS
  <2>2. n <= MaxRetries + 3 + MaxReconnects
    BY <1>0 DEF Calling
  <2> QED  BY <1>0, <1>1, <1>2, <1>3, <2>1, <2>2 DEF CallsByPhase, Before, Again, Calling
<1>6. TapIsOneBody(d)'
  BY <1>1, <1>2, <1>3 DEF TapIsOneBody
<1>7. SaverByPhase(d)'
  BY <1>2 DEF SaverByPhase, Again, Saving
<1>8. \A x \in Dispatches : x # d =>
         /\ phase'[x] = phase[x] /\ tries'[x] = tries[x] /\ reply'[x] = reply[x]
         /\ sent'[x] = sent[x] /\ pump'[x] = pump[x] /\ saver'[x] = saver[x]
  BY <1>0 DEF Again, Goto, DispatchTypes
<1>9. phase[d] \notin Over
  BY DEF Calling, Over
<1> QED  BY <1>3, <1>4, <1>5, <1>6, <1>7, <1>8, <1>9, OneDispatchMoves DEF DispatchOK

\* The result after the regional retry: the fallback is called, or the client gets it.
LEMMA AfterRegionalOK ==
    ASSUME DispatchInv, NEW d \in Dispatches, phase[d] \in Calling,
           NEW r \in [from : Upstreams, call : Nat, out : Outcomes], AfterRegional(d, r),
           NEW n \in Nat, sent' = [sent EXCEPT ![d] = n], sent[d] <= n, n <= Retries(d) + 2,
           r.call \in 1..n,
           NEW t \in Nat, tries' = [tries EXCEPT ![d] = t], t <= Retries(d) + 1,
           UNCHANGED <<kind, home, pos, tap, broken, free, kv>>, region' \in BOOLEAN
    PROVE  DispatchInv'
<1>1. CASE FallbackDue(d, r)
  <2>1. Again(d, "fallback", r) /\ ~Single(d) /\ Retryable(d, r.out)
    BY <1>1 DEF AfterRegional, FallbackDue, Single
  <2>2. "fallback" \in Calling
    BY DEF Calling
  <2> QED  BY <2>1, <2>2, CalledAgain
<1>2. CASE ~FallbackDue(d, r)
  <2>1. Deliver(d, r)
    BY <1>2 DEF AfterRegional
  <2>2. DispatchTypes
    BY DEF DispatchInv
  <2>3. n <= MaxRetries + 3
    BY <2>2, KindFields, DispatchAssumption
  <2> QED  BY <2>1, <2>3, Delivered
<1> QED  BY <1>1, <1>2

\* Every result is one of a call that was made.
LEMMA ResultOK ==
    ASSUME DispatchTypes, NEW d \in Dispatches, NEW e \in Upstreams, NEW out \in Outcomes
    PROVE  /\ Result(d, e, out) \in [from : Upstreams, call : Nat, out : Outcomes]
           /\ Result(d, e, out).call = sent[d] + 1 /\ Result(d, e, out).out = out
           /\ sent[d] \in Nat /\ sent[d] + 1 \in Nat /\ Result(d, e, out).call \in 1..sent[d] + 1
           /\ Counted(d) = [sent EXCEPT ![d] = sent[d] + 1]
<1>1. sent[d] \in Nat
  BY DEF DispatchTypes
<1> QED  BY <1>1 DEF Result, Counted

\* An attempt at the first endpoint: answered, retried, or handed to the regional retry.
LEMMA AttemptOK ==
    ASSUME DispatchInv, NEW d \in Dispatches, Attempt(d)
    PROVE  DispatchInv'
<1>0. /\ DispatchTypes /\ CallsByPhase(d) /\ phase[d] = "attempt" /\ phase[d] \in Calling
      /\ Retries(d) \in 0..MaxRetries /\ MaxRetries \in Nat /\ home[d] \in Upstreams
  BY DispatchAssumption, KindFields
     DEF DispatchInv, DispatchOK, DispatchTypes, Attempt, At, Calling, Upstreams
<1>1. sent[d] \in Nat /\ tries[d] \in Nat /\ sent[d] = tries[d] /\ tries[d] <= Retries(d)
  BY <1>0 DEF DispatchTypes, CallsByPhase
<1>2. PICK out \in Outcomes :
         IF Retryable(d, out) /\ tries[d] < Retries(d)
         THEN Again(d, "attempt", Result(d, home[d], out))
         ELSE AfterAttempts(d, Result(d, home[d], out))
  BY DEF Attempt
<1> DEFINE r == Result(d, home[d], out)
<1>3. /\ r \in [from : Upstreams, call : Nat, out : Outcomes]
      /\ r.call \in 1..sent[d] + 1 /\ r.out = out
      /\ sent' = [sent EXCEPT ![d] = sent[d] + 1]
      /\ tries' = [tries EXCEPT ![d] = tries[d] + 1]
  BY <1>0, ResultOK DEF Attempt
<1>4. UNCHANGED <<kind, home, pos, tap, broken, free, kv>> /\ region' \in BOOLEAN
  BY <1>0 DEF Attempt, DispatchTypes
<1>5. /\ sent[d] + 1 \in Nat /\ tries[d] + 1 \in Nat /\ sent[d] <= sent[d] + 1
      /\ tries[d] + 1 <= Retries(d) + 1
  BY <1>0, <1>1
<1> HIDE DEF r
<1>6. CASE Retryable(d, out) /\ tries[d] < Retries(d)
  <2>1. Again(d, "attempt", r) /\ "attempt" \in Calling
    BY <1>2, <1>6 DEF r, Calling
  <2>2. sent[d] + 1 = tries[d] + 1 /\ tries[d] + 1 <= Retries(d) /\ Retryable(d, r.out)
    BY <1>0, <1>1, <1>3, <1>6
  <2> QED  BY <1>0, <1>3, <1>4, <1>5, <2>1, <2>2, CalledAgain
<1>7. CASE ~(Retryable(d, out) /\ tries[d] < Retries(d)) /\ RegionalRetryDue(d, r)
  <2>1. Again(d, "regional", r) /\ "regional" \in Calling /\ ~Single(d) /\ r.out = "auth"
    BY <1>2, <1>7 DEF r, Calling, AfterAttempts, RegionalRetryDue
  <2>2. sent[d] + 1 <= Retries(d) + 1
    BY <1>0, <1>1
  <2> QED  BY <1>0, <1>3, <1>4, <1>5, <2>1, <2>2, CalledAgain
<1>8. CASE ~(Retryable(d, out) /\ tries[d] < Retries(d)) /\ ~RegionalRetryDue(d, r)
  <2>1. AfterRegional(d, r)
    BY <1>2, <1>8 DEF r, AfterAttempts
  <2>2. sent[d] + 1 <= Retries(d) + 2
    BY <1>0, <1>1
  <2> QED  BY <1>0, <1>3, <1>4, <1>5, <2>1, <2>2, AfterRegionalOK
<1> QED  BY <1>6, <1>7, <1>8

\* The result kept while another call is on its way is a result.
LEMMA KeptReply ==
    ASSUME DispatchTypes, NEW d \in Dispatches, CallsByPhase(d),
           reply[d].out = "auth" \/ Retryable(d, reply[d].out)
    PROVE  /\ reply[d] \in [from : Upstreams, call : Nat, out : Outcomes]
           /\ reply[d].call \in 1..sent[d]
<1>1. reply[d] # NoReply
  BY DEF NoReply, Retryable
<1> QED  BY <1>1 DEF DispatchTypes, Replies, CallsByPhase

\* The one attempt at the other region, after the first was refused for its key.
LEMMA RegionalRetryOK ==
    ASSUME DispatchInv, NEW d \in Dispatches, RegionalRetry(d)
    PROVE  DispatchInv'
<1>0. /\ DispatchTypes /\ CallsByPhase(d) /\ phase[d] = "regional" /\ phase[d] \in Calling
      /\ Retries(d) \in 0..MaxRetries /\ MaxRetries \in Nat
  BY DispatchAssumption, KindFields
     DEF DispatchInv, DispatchOK, RegionalRetry, At, Calling
<1>1. /\ sent[d] \in Nat /\ tries[d] \in Nat /\ tries[d] <= Retries(d) + 1
      /\ sent[d] <= Retries(d) + 1 /\ reply[d].out = "auth"
  BY <1>0 DEF DispatchTypes, CallsByPhase
<1>2. UNCHANGED <<kind, home, pos, tap, broken, free, kv>>
      /\ tries' = [tries EXCEPT ![d] = tries[d]]
  BY <1>0 DEF RegionalRetry, DispatchTypes
<1>3. Counted(d) = [sent EXCEPT ![d] = sent[d] + 1] /\ sent = [sent EXCEPT ![d] = sent[d]]
  BY <1>0 DEF Counted, DispatchTypes
<1>4. /\ sent[d] + 1 \in Nat /\ sent[d] <= sent[d] + 1 /\ sent[d] <= sent[d]
      /\ sent[d] + 1 <= Retries(d) + 2 /\ sent[d] <= Retries(d) + 2
  BY <1>0, <1>1
<1>5. ASSUME NEW out \in Responses, AfterRegional(d, Result(d, "cn", out)),
             region' = (region \/ out = "ok"), sent' = Counted(d)
      PROVE  DispatchInv'
  <2> DEFINE r == Result(d, "cn", out)
  <2>1. r \in [from : Upstreams, call : Nat, out : Outcomes] /\ r.call \in 1..sent[d] + 1
    BY <1>0, ResultOK DEF Upstreams, Outcomes
  <2>2. region' \in BOOLEAN
    BY <1>5
  <2> HIDE DEF r
  <2>3. AfterRegional(d, r)
    BY <1>5 DEF r
  <2> QED  BY <1>0, <1>1, <1>2, <1>3, <1>4, <1>5, <2>1, <2>2, <2>3, AfterRegionalOK
<1>6. ASSUME AfterRegional(d, reply[d]), sent' \in {sent, Counted(d)}, UNCHANGED region
      PROVE  DispatchInv'
  <2>1. /\ reply[d] \in [from : Upstreams, call : Nat, out : Outcomes]
        /\ reply[d].call \in 1..sent[d] /\ reply[d].call \in 1..sent[d] + 1
    BY <1>0, <1>1, KeptReply
  <2>2. region' \in BOOLEAN
    BY <1>0, <1>6 DEF DispatchTypes
  <2>3. CASE sent' = sent
    BY <1>0, <1>1, <1>2, <1>3, <1>4, <1>6, <2>1, <2>2, <2>3, AfterRegionalOK
  <2>4. CASE sent' = Counted(d)
    BY <1>0, <1>1, <1>2, <1>3, <1>4, <1>6, <2>1, <2>2, <2>4, AfterRegionalOK
  <2> QED  BY <1>6, <2>3, <2>4
<1> QED  BY <1>5, <1>6 DEF RegionalRetry

\* The one attempt at the fallback, after all of the attempts before it failed.
LEMMA FallbackOK ==
    ASSUME DispatchInv, NEW d \in Dispatches, Fallback(d)
    PROVE  DispatchInv'
<1>0. /\ DispatchTypes /\ CallsByPhase(d) /\ phase[d] = "fallback" /\ phase[d] \in Calling
      /\ Retries(d) \in 0..MaxRetries /\ MaxRetries \in Nat
  BY DispatchAssumption, KindFields DEF DispatchInv, DispatchOK, Fallback, At, Calling
<1>1. /\ sent[d] \in Nat /\ tries[d] \in Nat /\ tries[d] <= Retries(d) + 1
      /\ sent[d] <= Retries(d) + 2 /\ Retryable(d, reply[d].out)
  BY <1>0 DEF DispatchTypes, CallsByPhase
<1>2. /\ UNCHANGED <<kind, home, pos, tap, broken, free, kv>> /\ region' \in BOOLEAN
      /\ tries' = [tries EXCEPT ![d] = tries[d]]
  BY <1>0 DEF Fallback, DispatchTypes
<1>3. Counted(d) = [sent EXCEPT ![d] = sent[d] + 1] /\ sent = [sent EXCEPT ![d] = sent[d]]
  BY <1>0 DEF Counted, DispatchTypes
<1>4. /\ sent[d] + 1 \in Nat /\ sent[d] <= sent[d] + 1 /\ sent[d] <= sent[d]
      /\ sent[d] + 1 <= MaxRetries + 3 /\ sent[d] <= MaxRetries + 3
  BY <1>0, <1>1
<1>5. ASSUME NEW out \in Responses, Deliver(d, Result(d, "other", out)), sent' = Counted(d)
      PROVE  DispatchInv'
  <2> DEFINE r == Result(d, "other", out)
  <2>1. r \in [from : Upstreams, call : Nat, out : Outcomes] /\ r.call \in 1..sent[d] + 1
    BY <1>0, ResultOK DEF Upstreams, Outcomes
  <2> HIDE DEF r
  <2>2. Deliver(d, r)
    BY <1>5 DEF r
  <2> QED  BY <1>0, <1>1, <1>2, <1>3, <1>4, <1>5, <2>1, <2>2, Delivered
<1>6. ASSUME Deliver(d, reply[d]), sent' \in {sent, Counted(d)}
      PROVE  DispatchInv'
  <2>1. /\ reply[d] \in [from : Upstreams, call : Nat, out : Outcomes]
        /\ reply[d].call \in 1..sent[d] /\ reply[d].call \in 1..sent[d] + 1
    BY <1>0, <1>1, KeptReply
  <2>2. CASE sent' = sent
    BY <1>0, <1>1, <1>2, <1>3, <1>4, <1>6, <2>1, <2>2, Delivered
  <2>3. CASE sent' = Counted(d)
    BY <1>0, <1>1, <1>2, <1>3, <1>4, <1>6, <2>1, <2>3, Delivered
  <2> QED  BY <1>6, <2>2, <2>3
<1> QED  BY <1>5, <1>6 DEF Fallback
\* A dispatch before its first call, and the 429 on its way to the monitor.
LEMMA BeforeCallsOK ==
    ASSUME DispatchInv, NEW d \in Dispatches,
           StartDispatch(d) \/ Prepare(d) \/ CacheLookup(d) \/ SignalRateLimit(d)
    PROVE  DispatchInv'
<1>0. DispatchTypes /\ CallsByPhase(d) /\ TapIsOneBody(d) /\ SaverByPhase(d)
  BY DEF DispatchInv, DispatchOK
<1>1. /\ kind' = kind /\ kv' = kv /\ tries' = tries /\ reply' = reply /\ sent' = sent
      /\ pos' = pos /\ tap' = tap /\ broken' = broken /\ pump' = pump /\ saver' = saver
      /\ free' = free /\ region' = region
  BY DEF StartDispatch, Prepare, CacheLookup, SignalRateLimit, body, cache
<1>2. /\ Retries(d)' = Retries(d) /\ Single(d)' = Single(d) /\ Writes(d)' = Writes(d)
      /\ \A out : Retryable(d, out)' = Retryable(d, out)
  BY <1>1, KindKept
<1>3. /\ Retries(d) \in 0..MaxRetries /\ MaxRetries \in Nat
  BY <1>0, KindFields, DispatchAssumption
<1>4. PICK s \in {"prepare", "lookup", "attempt", "body", "ended"} :
        phase' = [phase EXCEPT ![d] = s] /\ (s # "body" => phase[d] \in Before)
                                         /\ (s = "body" => phase[d] = "signal")
  BY DEF StartDispatch, Prepare, CacheLookup, SignalRateLimit, Goto, At, Before
<1>5. home' \in [Dispatches -> {"origin", "cn"}]
  <2>1. CASE home' = home
    BY <1>0, <2>1 DEF DispatchTypes
  <2>2. CASE \E known \in BOOLEAN :
                home' = [home EXCEPT ![d] = IF known THEN "cn" ELSE "origin"]
    BY <1>0, <2>2 DEF DispatchTypes
  <2> QED  BY <2>1, <2>2 DEF StartDispatch, Prepare, CacheLookup, SignalRateLimit
<1>6. DispatchTypes'
  <2>1. phase' \in [Dispatches -> Phases]
    BY <1>0, <1>4 DEF DispatchTypes, Phases
  <2> QED  BY <1>0, <1>1, <1>5, <2>1 DEF DispatchTypes
<1>7. phase'[d] = s /\ (\A x \in Dispatches : x # d => phase'[x] = phase[x])
  BY <1>0, <1>4 DEF DispatchTypes
<1>8. CallsByPhase(d)'
  <2>1. CASE s = "body"
    BY <1>0, <1>1, <1>2, <1>4, <1>7, <2>1 DEF CallsByPhase, Before, Over
  <2>2. CASE s # "body"
    <3>1. phase[d] \in Before
      BY <1>4, <2>2
    <3>2. tries[d] = 0 /\ sent[d] = 0 /\ reply[d] = NoReply /\ pump[d] = "none"
      BY <1>0, <3>1 DEF CallsByPhase, Before, Over
    <3> QED  BY <1>0, <1>1, <1>2, <1>3, <1>7, <2>2, <3>2 DEF CallsByPhase, Before, Over
  <2> QED  BY <2>1, <2>2
<1>9. phase[d] \notin {"body"} \cup Over
  BY <1>4 DEF Before, Over
<1>10. TapIsOneBody(d)'
  BY <1>0, <1>1, <1>2, <1>9 DEF TapIsOneBody
<1>11. SaverByPhase(d)'
  BY <1>0, <1>1, <1>2, <1>9 DEF SaverByPhase, Saving
<1>12. sent[d] <= sent'[d]
  BY <1>0, <1>1 DEF DispatchTypes
<1> QED  BY <1>1, <1>6, <1>7, <1>8, <1>9, <1>10, <1>11, <1>12, OneDispatchMoves
         DEF DispatchOK

\* A chunk reaches the client and the saving task.
LEMMA PollBodyOK ==
    ASSUME DispatchInv, NEW d \in Dispatches, PollBody(d)
    PROVE  DispatchInv'
<1>0. DispatchTypes /\ CallsByPhase(d) /\ TapIsOneBody(d) /\ SaverByPhase(d)
  BY DEF DispatchInv, DispatchOK
<1>1. /\ phase' = phase /\ kind' = kind /\ kv' = kv /\ tries' = tries /\ reply' = reply
      /\ sent' = sent /\ broken' = broken /\ pump' = pump /\ saver' = saver
      /\ free' = free /\ region' = region /\ home' = home
  BY DEF PollBody, cache
<1>2. /\ Retries(d)' = Retries(d) /\ Single(d)' = Single(d) /\ Writes(d)' = Writes(d)
      /\ \A out : Retryable(d, out)' = Retryable(d, out)
  BY <1>1, KindKept
<1>3. phase[d] = "body" /\ pos[d] \in 0..BodyLen - 1 /\ pos[d] + 1 \in 0..BodyLen
      /\ sent[d] \in Nat
  BY <1>0, DispatchAssumption DEF DispatchTypes, PollBody, At
<1>4. reply[d].call \in Nat
  BY <1>0 DEF DispatchTypes, Replies, NoReply
<1> DEFINE new == <<reply[d].call, pos[d] + 1>>
           t == Tapped(d, new)
<1>5. new \in Nat \X Nat
  BY <1>3, <1>4, DispatchAssumption
<1>6. tap[d] \in Seq(Nat \X Nat)
  BY <1>0 DEF DispatchTypes
<1> HIDE DEF new
<1>7. t \in Seq(Nat \X Nat)
  BY <1>5, <1>6 DEF Tapped
<1>8. /\ Len(t) = IF Writes(d) THEN pos[d] + 1 ELSE 0
      /\ \A j \in 1..Len(t) : t[j] = <<reply[d].call, j>>
  <2>1. CASE Writes(d)
    <3>1. t = Append(tap[d], new) /\ Len(tap[d]) = pos[d]
      BY <1>0, <2>1 DEF Tapped, TapIsOneBody
    <3>2. Len(t) = pos[d] + 1 /\ t[pos[d] + 1] = new
      BY <1>5, <1>6, <3>1
    <3>3. ASSUME NEW j \in 1..pos[d]  PROVE t[j] = tap[d][j]
      BY <1>5, <1>6, <3>1, <3>3
    <3>4. ASSUME NEW j \in 1..pos[d] + 1  PROVE t[j] = <<reply[d].call, j>>
      <4>1. CASE j = pos[d] + 1
        BY <3>2, <4>1 DEF new
      <4>2. CASE j # pos[d] + 1
        <5>1. j \in 1..pos[d]
          BY <1>3, <4>2, DispatchAssumption
        <5> QED  BY <1>0, <3>1, <3>3, <5>1 DEF TapIsOneBody
      <4> QED  BY <4>1, <4>2
    <3> QED  BY <2>1, <3>2, <3>4
  <2>2. CASE ~Writes(d)
    <3>1. t = tap[d] /\ Len(tap[d]) = 0
      BY <1>0, <2>2 DEF Tapped, TapIsOneBody
    <3> QED  BY <2>2, <3>1
  <2> QED  BY <2>1, <2>2
<1> HIDE DEF t
<1>9. pos' = [pos EXCEPT ![d] = pos[d] + 1] /\ tap' = [tap EXCEPT ![d] = t]
  BY DEF PollBody, t, new
<1>10. DispatchTypes'
  <2>1. pos' \in [Dispatches -> 0..BodyLen]
    BY <1>0, <1>3, <1>9 DEF DispatchTypes
  <2>2. tap' \in [Dispatches -> Seq(Nat \X Nat)]
    BY <1>0, <1>7, <1>9 DEF DispatchTypes
  <2> QED  BY <1>0, <1>1, <2>1, <2>2 DEF DispatchTypes
<1>11. /\ pos'[d] = pos[d] + 1 /\ tap'[d] = t
       /\ \A x \in Dispatches : x # d => pos'[x] = pos[x] /\ tap'[x] = tap[x]
  BY <1>0, <1>9 DEF DispatchTypes
<1>12. CallsByPhase(d)'
  BY <1>0, <1>1, <1>2 DEF CallsByPhase
<1>13. TapIsOneBody(d)'
  BY <1>1, <1>2, <1>3, <1>8, <1>11 DEF TapIsOneBody
<1>14. SaverByPhase(d)'
  BY <1>0, <1>1, <1>2, <1>3 DEF SaverByPhase, Over
<1> QED  BY <1>1, <1>3, <1>10, <1>11, <1>12, <1>13, <1>14, OneDispatchMoves
         DEF DispatchOK, Over

\* The body ends, breaks or is dropped, and the reader of an event stream with it.
LEMMA BodyOverOK ==
    ASSUME DispatchInv, NEW d \in Dispatches,
           EndBody(d) \/ BodyBreaks(d) \/ ClientLeaves(d) \/ Reconnect(d) \/ PumpStops(d)
    PROVE  DispatchInv'
<1>0. /\ DispatchTypes /\ CallsByPhase(d) /\ TapIsOneBody(d) /\ SaverByPhase(d)
      /\ MaxRetries \in Nat /\ MaxReconnects \in Nat /\ Retries(d) \in 0..MaxRetries
  BY KindFields, DispatchAssumption DEF DispatchInv, DispatchOK
<1>1. /\ kind' = kind /\ kv' = kv /\ tries' = tries /\ reply' = reply
      /\ pos' = pos /\ tap' = tap /\ saver' = saver /\ home' = home
      /\ free' = free /\ region' = region
  BY DEF EndBody, BodyBreaks, ClientLeaves, Reconnect, PumpStops, cache
<1>2. /\ Retries(d)' = Retries(d) /\ Single(d)' = Single(d) /\ Writes(d)' = Writes(d)
      /\ \A out : Retryable(d, out)' = Retryable(d, out)
  BY <1>1, KindKept
<1>3. /\ sent[d] \in Nat /\ pos[d] \in 0..BodyLen /\ tries[d] \in Nat
      /\ pump[d] \in {"none", "open", "reconnecting", "closed"}
  BY <1>0 DEF DispatchTypes
<1>4. /\ phase' \in [Dispatches -> Phases]
      /\ \A x \in Dispatches : x # d => phase'[x] = phase[x]
      /\ phase'[d] = phase[d] \/ phase'[d] \in Over
      /\ phase[d] \in Over => phase'[d] \in Over
  BY <1>0 DEF EndBody, BodyBreaks, ClientLeaves, Reconnect, PumpStops, Goto, At,
              DispatchTypes, Phases, Over
<1>5. /\ pump' \in [Dispatches -> {"none", "open", "reconnecting", "closed"}]
      /\ \A x \in Dispatches : x # d => pump'[x] = pump[x]
      /\ pump'[d] # "none" => pump[d] # "none"
  <2>1. PICK p \in {"none", "open", "reconnecting", "closed"} :
          pump' = [pump EXCEPT ![d] = p] /\ (p # "none" => pump[d] # "none")
    <3>1. CASE EndBody(d)
      BY <1>3, <3>1 DEF EndBody
    <3>2. CASE BodyBreaks(d)
      BY <1>3, <3>2 DEF BodyBreaks
    <3>3. CASE ClientLeaves(d)
      <4>1. pump' = [pump EXCEPT ![d] = pump[d]]
        BY <1>0, <3>3 DEF ClientLeaves, DispatchTypes
      <4> QED  BY <1>3, <4>1
    <3>4. CASE Reconnect(d)
      BY <3>4 DEF Reconnect
    <3>5. CASE PumpStops(d)
      BY <3>5 DEF PumpStops
    <3> QED  BY <3>1, <3>2, <3>3, <3>4, <3>5
  <2> QED  BY <1>0, <2>1 DEF DispatchTypes
<1>6. /\ broken' \in [Dispatches -> BOOLEAN]
      /\ \A x \in Dispatches : x # d => broken'[x] = broken[x]
  BY <1>0 DEF EndBody, BodyBreaks, ClientLeaves, Reconnect, PumpStops, At, DispatchTypes
<1>7. phase[d] \in Over => broken'[d] = broken[d]
  BY <1>0 DEF EndBody, BodyBreaks, ClientLeaves, Reconnect, PumpStops, At, DispatchTypes, Over
<1>8. PICK n \in {sent[d], sent[d] + 1} :
        /\ sent' = [sent EXCEPT ![d] = n]
        /\ n <= MaxRetries + 3 + MaxReconnects
        /\ n # sent[d] => phase'[d] \in Over \/ pump[d] # "none"
  <2>1. sent = [sent EXCEPT ![d] = sent[d]] /\ Counted(d) = [sent EXCEPT ![d] = sent[d] + 1]
    BY <1>0 DEF DispatchTypes, Counted
  <2>2. sent[d] <= MaxRetries + 3 + MaxReconnects
    BY <1>0 DEF CallsByPhase
  <2>3. CASE EndBody(d) \/ BodyBreaks(d) \/ PumpStops(d)
    <3>1. sent' = sent
      BY <2>3 DEF EndBody, BodyBreaks, PumpStops
    <3> QED  BY <2>1, <2>2, <3>1
  <2>4. CASE ClientLeaves(d)
    <3>1. sent' = sent \/ (sent' = Counted(d) /\ phase[d] \in Calling)
      BY <2>4 DEF ClientLeaves, Calling
    <3>2. phase'[d] \in Over
      BY <1>0, <2>4 DEF ClientLeaves, Goto, DispatchTypes, Over
    <3>3. phase[d] \in Calling => sent[d] + 1 <= MaxRetries + 3 + MaxReconnects
      BY <1>0, <1>3 DEF CallsByPhase, Calling
    <3>4. CASE sent' = sent
      BY <2>1, <2>2, <3>4
    <3>5. CASE sent' = Counted(d) /\ phase[d] \in Calling
      BY <2>1, <3>2, <3>3, <3>5
    <3> QED  BY <3>1, <3>4, <3>5
  <2>5. CASE Reconnect(d)
    <3>1. sent[d] + 1 <= MaxRetries + 3 + MaxReconnects /\ pump[d] # "none"
      BY <1>0, <1>3, <2>5 DEF Reconnect
    <3> QED  BY <2>1, <2>5, <3>1 DEF Reconnect
  <2> QED  BY <2>3, <2>4, <2>5
<1>9. DispatchTypes'
  <2>1. sent' \in [Dispatches -> Nat]
    BY <1>0, <1>3, <1>8 DEF DispatchTypes
  <2> QED  BY <1>0, <1>1, <1>4, <1>5, <1>6, <2>1 DEF DispatchTypes
<1>10. sent'[d] = n /\ n \in Nat /\ sent[d] <= n /\ (\A x \in Dispatches : x # d => sent'[x] = sent[x])
  BY <1>0, <1>3, <1>8 DEF DispatchTypes
<1>11. CallsByPhase(d)'
  <2>1. reply[d] # NoReply => reply[d].call \in 1..n
    <3>1. ASSUME reply[d] # NoReply  PROVE reply[d].call \in 1..n
      <4>1. reply[d].call \in 1..sent[d]
        BY <1>0, <3>1 DEF CallsByPhase
      <4> QED  BY <1>3, <1>10, <4>1
    <3> QED  BY <3>1
  <2>2. pump'[d] # "none" => phase'[d] \in {"signal", "body"} \cup Over
                             /\ kind[d].stream /\ ~Single(d)
    BY <1>0, <1>4, <1>5 DEF CallsByPhase
  <2>3. CASE phase'[d] \in Over
    BY <1>0, <1>1, <1>2, <1>8, <1>10, <2>1, <2>2, <2>3 DEF CallsByPhase, Over, Before
  <2>4. CASE phase'[d] = phase[d] /\ phase[d] \notin Over
    <3>1. n = sent[d] \/ phase[d] \in {"signal", "body"}
      BY <1>0, <1>8, <2>4 DEF CallsByPhase
    <3> QED  BY <1>0, <1>1, <1>2, <1>8, <1>10, <2>1, <2>2, <2>4, <3>1
             DEF CallsByPhase, Before
  <2> QED  BY <1>4, <2>3, <2>4
<1>12. TapIsOneBody(d)'
  <2>1. phase'[d] \notin {"body"} \cup Over => phase[d] \notin {"body"} \cup Over
    BY <1>4
  <2> QED  BY <1>0, <1>1, <1>2, <2>1 DEF TapIsOneBody
<1>13. SaverByPhase(d)'
  <2>1. saver[d] \in Saving => phase'[d] \in {"body"} \cup Over
    BY <1>0, <1>4 DEF SaverByPhase
  <2>2. saver[d] \in {"probing", "putting"} => phase'[d] \in Over
    BY <1>0, <1>4 DEF SaverByPhase
  <2>3. ASSUME saver[d] \in Saving, phase'[d] \in Over
        PROVE  pos[d] = BodyLen \/ broken'[d]
    <3>1. CASE phase[d] \in Over
      BY <1>0, <1>7, <2>3, <3>1 DEF SaverByPhase
    <3>2. CASE phase[d] \notin Over
      <4>1. phase[d] = "body"
        BY <1>0, <2>3, <3>2 DEF SaverByPhase
      <4>2. phase'[d] # phase[d]
        BY <2>3, <3>2
      <4>3. EndBody(d) \/ BodyBreaks(d) \/ ClientLeaves(d)
        BY <4>2 DEF Reconnect, PumpStops
      <4>4. CASE EndBody(d)
        BY <4>4 DEF EndBody
      <4>5. CASE BodyBreaks(d)
        BY <1>0, <4>5 DEF BodyBreaks, DispatchTypes
      <4>6. CASE ClientLeaves(d)
        BY <1>0, <4>1, <4>6 DEF ClientLeaves, At, DispatchTypes
      <4> QED  BY <4>3, <4>4, <4>5, <4>6
    <3> QED  BY <3>1, <3>2
  <2> QED  BY <1>0, <1>1, <1>2, <2>1, <2>2, <2>3 DEF SaverByPhase
<1> QED  BY <1>1, <1>4, <1>5, <1>6, <1>7, <1>9, <1>10, <1>11, <1>12, <1>13, OneDispatchMoves
         DEF DispatchOK
\* The saving task reads its channel to the end and looks for a free slot.
LEMMA CollectProbeOK ==
    ASSUME DispatchInv, NEW d \in Dispatches, Collect(d) \/ Probe(d)
    PROVE  DispatchInv'
<1>0. DispatchTypes /\ CallsByPhase(d) /\ TapIsOneBody(d) /\ SaverByPhase(d)
  BY DEF DispatchInv, DispatchOK
<1>1. /\ kind' = kind /\ kv' = kv /\ tries' = tries /\ reply' = reply /\ sent' = sent
      /\ pos' = pos /\ tap' = tap /\ broken' = broken /\ pump' = pump /\ phase' = phase
      /\ region' = region /\ home' = home
  BY DEF Collect, Probe, body
<1>2. /\ Retries(d)' = Retries(d) /\ Single(d)' = Single(d) /\ Writes(d)' = Writes(d)
      /\ \A out : Retryable(d, out)' = Retryable(d, out)
  BY <1>1, KindKept
<1>3. sent[d] <= sent'[d]
  BY <1>0, <1>1 DEF DispatchTypes
<1>4. PICK s \in {"probing", "putting", "done"} :
        /\ saver' = [saver EXCEPT ![d] = s] /\ saver[d] \in Saving
        /\ s \in {"probing", "putting"} => phase[d] \in Over
        /\ \/ free' = free /\ s # "putting"
           \/ \E i \in 1..BucketSize : free' = [free EXCEPT ![d] = i]
  <2>1. CASE Collect(d)
    BY <2>1 DEF Collect, Saving, Over
  <2>2. CASE Probe(d)
    BY <1>0, <2>2 DEF Probe, Saving, SaverByPhase
  <2> QED  BY <2>1, <2>2
<1>5. /\ free' \in [Dispatches -> 0..BucketSize]
      /\ \A x \in Dispatches : x # d => free'[x] = free[x]
      /\ s = "putting" => free'[d] \in 1..BucketSize
  <2>1. CASE free' = free /\ s # "putting"
    BY <1>0, <2>1 DEF DispatchTypes
  <2>2. CASE \E i \in 1..BucketSize : free' = [free EXCEPT ![d] = i]
    <3>1. PICK i \in 1..BucketSize : free' = [free EXCEPT ![d] = i]
      BY <2>2
    <3>2. i \in 0..BucketSize
      BY DispatchAssumption
    <3> QED  BY <1>0, <3>1, <3>2 DEF DispatchTypes
  <2> QED  BY <1>4, <2>1, <2>2
<1>6. /\ saver' \in [Dispatches -> {"none", "collecting", "probing", "putting", "done"}]
      /\ saver'[d] = s /\ \A x \in Dispatches : x # d => saver'[x] = saver[x]
  BY <1>0, <1>4 DEF DispatchTypes
<1>7. DispatchTypes'
  BY <1>0, <1>1, <1>5, <1>6 DEF DispatchTypes
<1>8. CallsByPhase(d)'
  BY <1>0, <1>1, <1>2 DEF CallsByPhase
<1>9. TapIsOneBody(d)'
  BY <1>0, <1>1, <1>2 DEF TapIsOneBody
<1>10. SaverByPhase(d)'
  BY <1>0, <1>1, <1>2, <1>4, <1>5, <1>6 DEF SaverByPhase
<1> QED  BY <1>1, <1>3, <1>5, <1>6, <1>7, <1>8, <1>9, <1>10, OneDispatchMoves DEF DispatchOK

\* What the task saves is the beginning of one response, in the bucket of its endpoint.
LEMMA PutOK ==
    ASSUME DispatchInv, NEW d \in Dispatches, Put(d)
    PROVE  DispatchInv'
<1>0. DispatchTypes /\ CallsByPhase(d) /\ TapIsOneBody(d) /\ SaverByPhase(d)
  BY DEF DispatchInv, DispatchOK
<1>1. /\ kind' = kind /\ tries' = tries /\ reply' = reply /\ sent' = sent
      /\ pos' = pos /\ tap' = tap /\ broken' = broken /\ pump' = pump /\ phase' = phase
      /\ region' = region /\ home' = home /\ free' = free
      /\ saver' = [saver EXCEPT ![d] = "done"]
  BY DEF Put, body
<1>2. /\ saver[d] = "putting" /\ Writes(d) /\ reply[d] # NoReply /\ reply[d].out = "ok"
      /\ phase[d] \in Over /\ free[d] \in 1..BucketSize
      /\ pos[d] = BodyLen \/ broken[d]
  BY <1>0 DEF Put, SaverByPhase, Saving
<1>3. /\ reply[d] \in [from : Upstreams, call : Nat, out : Outcomes]
      /\ reply[d].call \in 1..sent[d]
  BY <1>0, <1>2 DEF DispatchTypes, Replies, CallsByPhase
<1> DEFINE e == [from |-> reply[d].from, by |-> d, out |-> reply[d].out, chunks |-> tap[d]]
           k0 == WriteKey(d)
<1>4. e \in [from : Upstreams, by : Dispatches, out : Outcomes, chunks : Seq(Nat \X Nat)]
  <2>1. tap[d] \in Seq(Nat \X Nat)
    BY <1>0 DEF DispatchTypes
  <2> QED  BY <1>3, <2>1
<1>5. k0 \in CacheKeys /\ k0[1] = reply[d].from
  <2>1. kind[d].stream \in BOOLEAN
    BY <1>0 DEF DispatchTypes, AllKinds
  <2> QED  BY <1>3, <2>1 DEF WriteKey, CacheKeys
<1>6. EntryOK(k0, e)
  <2>1. e.out = "ok" /\ e.from = k0[1] /\ e.by = d /\ e.chunks = tap[d]
    BY <1>2, <1>5
  <2>2. \A j \in 1..Len(tap[d]) : tap[d][j] = <<reply[d].call, j>>
    BY <1>0 DEF TapIsOneBody
  <2>3. Len(tap[d]) < BodyLen => broken[d]
    BY <1>0, <1>2, DispatchAssumption DEF TapIsOneBody
  <2> HIDE DEF e
  <2> QED  BY <1>2, <1>3, <2>1, <2>2, <2>3 DEF EntryOK
<1> HIDE DEF e, k0
<1>7. /\ kv' \in [CacheKeys -> [1..BucketSize -> Entries]]
      /\ \A k \in CacheKeys, i \in 1..BucketSize :
            kv'[k][i] = kv[k][i] \/ (k = k0 /\ kv'[k][i] = e)
  <2>0. e \in Entries
    BY <1>4 DEF Entries
  <2>1. kv' = kv \/ kv' = [kv EXCEPT ![k0][free[d]] = e]
    BY DEF Put, e, k0
  <2>2. CASE kv' = kv
    BY <1>0, <2>2 DEF DispatchTypes
  <2>3. CASE kv' = [kv EXCEPT ![k0][free[d]] = e]
    <3>1. kv \in [CacheKeys -> [1..BucketSize -> Entries]]
      BY <1>0 DEF DispatchTypes
    <3> QED  BY <1>2, <1>5, <2>0, <2>3, <3>1
  <2> QED  BY <2>1, <2>2, <2>3
<1>8. /\ saver' \in [Dispatches -> {"none", "collecting", "probing", "putting", "done"}]
      /\ saver'[d] = "done" /\ \A x \in Dispatches : x # d => saver'[x] = saver[x]
  BY <1>0, <1>1 DEF DispatchTypes
<1>9. DispatchTypes'
  BY <1>0, <1>1, <1>7, <1>8 DEF DispatchTypes
<1>10. ASSUME NEW x \in Dispatches  PROVE DispatchOK(x)'
  <2>1. /\ Retries(x)' = Retries(x) /\ Single(x)' = Single(x) /\ Writes(x)' = Writes(x)
        /\ \A out : Retryable(x, out)' = Retryable(x, out)
    BY <1>1, KindKept
  <2>2. CallsByPhase(x) /\ TapIsOneBody(x) /\ SaverByPhase(x)
    BY DEF DispatchInv, DispatchOK
  <2>3. CallsByPhase(x)'
    BY <1>1, <2>1, <2>2 DEF CallsByPhase
  <2>4. TapIsOneBody(x)'
    BY <1>1, <2>1, <2>2 DEF TapIsOneBody
  <2>5. SaverByPhase(x)'
    BY <1>1, <1>8, <2>1, <2>2 DEF SaverByPhase, Saving
  <2> QED  BY <2>3, <2>4, <2>5 DEF DispatchOK
<1>11. ASSUME NEW k \in CacheKeys, NEW i \in 1..BucketSize  PROVE EntryOK(k, kv[k][i])'
  <2>1. EntryOK(k, kv[k][i])
    BY DEF DispatchInv
  <2>2. EntryOK(k, kv'[k][i])
    BY <1>6, <1>7, <2>1
  <2> QED  BY <1>1, <2>2 DEF EntryOK
<1> QED  BY <1>9, <1>10, <1>11 DEF DispatchInv

\* What expires, and a stuttering step, leaves the dispatches alone and the other entries as they were.
LEMMA ExpiryOK ==
    ASSUME DispatchInv, EntryExpires \/ RegionExpires \/ UNCHANGED dispatchVars
    PROVE  DispatchInv'
<1>0. DispatchTypes
  BY DEF DispatchInv
<1>1. /\ kind' = kind /\ tries' = tries /\ reply' = reply /\ sent' = sent
      /\ pos' = pos /\ tap' = tap /\ broken' = broken /\ pump' = pump /\ phase' = phase
      /\ home' = home /\ free' = free /\ saver' = saver
  BY DEF EntryExpires, RegionExpires, body, cache, dispatchVars
<1>2. /\ kv' \in [CacheKeys -> [1..BucketSize -> Entries]]
      /\ \A k \in CacheKeys, i \in 1..BucketSize : kv'[k][i] = kv[k][i] \/ kv'[k][i] = Empty
  <2>1. kv \in [CacheKeys -> [1..BucketSize -> Entries]] /\ Empty \in Entries
    BY <1>0 DEF DispatchTypes, Entries
  <2>2. CASE RegionExpires \/ UNCHANGED dispatchVars
    BY <2>1, <2>2 DEF RegionExpires, cache, dispatchVars
  <2>3. CASE EntryExpires
    BY <2>1, <2>3 DEF EntryExpires
  <2> QED  BY <2>2, <2>3
<1>3. region' \in BOOLEAN
  BY <1>0 DEF EntryExpires, RegionExpires, DispatchTypes, dispatchVars
<1>4. DispatchTypes'
  BY <1>0, <1>1, <1>2, <1>3 DEF DispatchTypes
<1>5. ASSUME NEW x \in Dispatches  PROVE DispatchOK(x)'
  <2>1. /\ Retries(x)' = Retries(x) /\ Single(x)' = Single(x) /\ Writes(x)' = Writes(x)
        /\ \A out : Retryable(x, out)' = Retryable(x, out)
    BY <1>1, KindKept
  <2>2. CallsByPhase(x) /\ TapIsOneBody(x) /\ SaverByPhase(x)
    BY DEF DispatchInv, DispatchOK
  <2>3. CallsByPhase(x)' /\ TapIsOneBody(x)' /\ SaverByPhase(x)'
    BY <1>1, <2>1, <2>2 DEF CallsByPhase, TapIsOneBody, SaverByPhase
  <2> QED  BY <2>3 DEF DispatchOK
<1>6. ASSUME NEW k \in CacheKeys, NEW i \in 1..BucketSize  PROVE EntryOK(k, kv[k][i])'
  <2>1. EntryOK(k, kv[k][i])
    BY DEF DispatchInv
  <2>2. EntryOK(k, kv'[k][i])
    BY <1>2, <2>1 DEF EntryOK
  <2> QED  BY <1>1, <2>2 DEF EntryOK
<1> QED  BY <1>4, <1>5, <1>6 DEF DispatchInv

\* Every step of a dispatch, of its saving task and of the cache keeps the invariant.
LEMMA DispatchStepInv == DispatchInv /\ [DispatchNext]_dispatchVars => DispatchInv'
<1> SUFFICES ASSUME DispatchInv, [DispatchNext]_dispatchVars  PROVE DispatchInv'
  OBVIOUS
<1>1. CASE UNCHANGED dispatchVars
  BY <1>1, ExpiryOK
<1>2. CASE EntryExpires \/ RegionExpires
  BY <1>2, ExpiryOK
<1>3. ASSUME NEW d \in Dispatches,
             \/ StartDispatch(d) \/ DispatchStep(d) \/ SaverStep(d) \/ ClientLeaves(d)
             \/ Reconnect(d) \/ PumpStops(d)
      PROVE  DispatchInv'
  <2>1. CASE StartDispatch(d) \/ Prepare(d) \/ CacheLookup(d) \/ SignalRateLimit(d)
    BY <2>1, BeforeCallsOK
  <2>2. CASE Attempt(d)
    BY <2>2, AttemptOK
  <2>3. CASE RegionalRetry(d)
    BY <2>3, RegionalRetryOK
  <2>4. CASE Fallback(d)
    BY <2>4, FallbackOK
  <2>5. CASE PollBody(d)
    BY <2>5, PollBodyOK
  <2>6. CASE EndBody(d) \/ BodyBreaks(d) \/ ClientLeaves(d) \/ Reconnect(d) \/ PumpStops(d)
    BY <2>6, BodyOverOK
  <2>7. CASE Collect(d) \/ Probe(d)
    BY <2>7, CollectProbeOK
  <2>8. CASE Put(d)
    BY <2>8, PutOK
  <2> QED  BY <1>3, <2>1, <2>2, <2>3, <2>4, <2>5, <2>6, <2>7, <2>8 DEF DispatchStep, SaverStep
<1> QED  BY <1>1, <1>2, <1>3 DEF DispatchNext

\* At every moment each dispatch has made the calls its phase allows, its saving task
\* holds the beginning of one response, and every entry of the cache was saved from one.
THEOREM DispatchInvariant == DispatchSpec => []DispatchInv
BY DispatchInitInv, DispatchStepInv, PTL DEF DispatchSpec

\* The invariant gives the types of the run: what was sent is within its bound.
LEMMA DispatchTyped == DispatchInv => DispatchTypeOK
<1> SUFFICES ASSUME DispatchInv  PROVE DispatchTypeOK
  OBVIOUS
<1>1. DispatchTypes /\ MaxRetries \in Nat /\ MaxReconnects \in Nat /\ BodyLen \in Nat
  BY DispatchAssumption DEF DispatchInv
<1>2. ASSUME NEW d \in Dispatches
      PROVE  /\ tries[d] \in 0..Retries(d) + 1 /\ sent[d] \in 0..MaxRetries + 3 + MaxReconnects
             /\ Len(tap[d]) <= BodyLen
             /\ \/ reply[d] = NoReply
                \/ reply[d] \in [from : Upstreams, call : 1..sent[d], out : Outcomes]
  <2>1. CallsByPhase(d) /\ TapIsOneBody(d) /\ Retries(d) \in 0..MaxRetries
    BY <1>1, KindFields DEF DispatchInv, DispatchOK
  <2>2. tries[d] \in Nat /\ sent[d] \in Nat /\ pos[d] \in 0..BodyLen /\ reply[d] \in Replies
    BY <1>1 DEF DispatchTypes
  <2>3. tries[d] \in 0..Retries(d) + 1 /\ sent[d] \in 0..MaxRetries + 3 + MaxReconnects
    BY <1>1, <2>1, <2>2 DEF CallsByPhase
  <2>4. Len(tap[d]) <= BodyLen
    BY <1>1, <2>1, <2>2 DEF TapIsOneBody
  <2>5. ASSUME reply[d] # NoReply
        PROVE  reply[d] \in [from : Upstreams, call : 1..sent[d], out : Outcomes]
    BY <2>1, <2>2, <2>5 DEF CallsByPhase, Replies
  <2> QED  BY <2>3, <2>4, <2>5
<1>3. sent \in [Dispatches -> 0..MaxRetries + 3 + MaxReconnects]
  BY <1>1, <1>2 DEF DispatchTypes
<1>4. DOMAIN kv = CacheKeys /\ \A k \in CacheKeys : DOMAIN kv[k] = 1..BucketSize
  BY <1>1 DEF DispatchTypes
<1> QED  BY <1>1, <1>2, <1>3, <1>4 DEF DispatchTypes, DispatchTypeOK

\* The variables of the dispatcher, of its body taps and of the cache keep their types, and
\* no dispatch exceeds its attempts (DispatchTypeOK).
THEOREM DispatchTypeCorrect == DispatchSpec => []DispatchTypeOK
BY DispatchInvariant, DispatchTyped, PTL

\* The invariant gives what a reader of the cache relies on.
LEMMA EntriesAreTrue == DispatchInv => CacheIsTrue
<1> SUFFICES ASSUME DispatchInv  PROVE CacheIsTrue
  OBVIOUS
<1>1. ASSUME NEW k \in CacheKeys, NEW i \in 1..BucketSize, kv[k][i] # Empty
      PROVE  /\ kv[k][i].out = "ok" /\ kv[k][i].from = k[1]
             /\ \E c \in 1..sent[kv[k][i].by] :
                   kv[k][i].chunks = [j \in 1..Len(kv[k][i].chunks) |-> <<c, j>>]
             /\ Len(kv[k][i].chunks) < BodyLen => broken[kv[k][i].by]
  <2> DEFINE e == kv[k][i]
  <2>1. EntryOK(k, e) /\ e \in Entries /\ e # Empty
    BY <1>1 DEF DispatchInv, DispatchTypes
  <2> HIDE DEF e
  <2>2. e.chunks \in Seq(Nat \X Nat)
    BY <2>1 DEF Entries
  <2>3. PICK c \in 1..sent[e.by] : \A j \in 1..Len(e.chunks) : e.chunks[j] = <<c, j>>
    BY <2>1 DEF EntryOK
  <2>4. e.chunks = [j \in 1..Len(e.chunks) |-> <<c, j>>]
    <3> DEFINE q == e.chunks
    <3>1. q \in [1..Len(q) -> Nat \X Nat]
      BY <2>2
    <3>2. \A j \in 1..Len(q) : q[j] = <<c, j>>
      BY <2>3
    <3> HIDE DEF q
    <3>3. q = [j \in 1..Len(q) |-> <<c, j>>]
      BY <3>1, <3>2
    <3> QED  BY <3>3 DEF q
  <2>5. e.out = "ok" /\ e.from = k[1] /\ (Len(e.chunks) < BodyLen => broken[e.by])
    BY <2>1 DEF EntryOK
  <2> QED  BY <2>3, <2>4, <2>5 DEF e
<1>2. EntryIsOneResponse
  BY <1>1 DEF EntryIsOneResponse
<1>3. CutEntryWasInterrupted
  BY <1>1 DEF CutEntryWasInterrupted
<1> QED  BY <1>2, <1>3 DEF CacheIsTrue

\* Every entry of the cache is the beginning of one upstream's successful answer, under the
\* endpoint that gave it, and all of it unless its transfer was cut short, however bodies
\* break, clients leave and saving tasks overlap (CacheIsTrue).
THEOREM CacheAlwaysTrue == DispatchSpec => []CacheIsTrue
BY DispatchInvariant, EntriesAreTrue, PTL

\* A call is made only where the invariant allows one.
LEMMA StepNotReplayed ==
    ASSUME DispatchInv, [DispatchNext]_dispatchVars, NEW d \in Dispatches,
           \/ ~kind[d].stream /\ reply[d].out \in {"ok", "client", "limited", "transport"}
           \/ Single(d) /\ sent[d] > 0
    PROVE  sent'[d] = sent[d]
<1>0. DispatchTypes /\ CallsByPhase(d) /\ sent[d] \in Nat
  BY DEF DispatchInv, DispatchOK, DispatchTypes
<1>1. phase[d] \notin Calling
  <2>1. Single(d) => Retries(d) = 0
    BY DEF Retries
  <2>2. CASE phase[d] = "attempt"
    <3>1. sent[d] = tries[d] /\ tries[d] <= Retries(d)
          /\ (reply[d] = NoReply \/ Retryable(d, reply[d].out))
      BY <1>0, <2>2 DEF CallsByPhase
    <3>2. ~(Single(d) /\ sent[d] > 0)
      BY <1>0, <2>1, <3>1
    <3> QED  BY <3>1, <3>2 DEF NoReply, Retryable
  <2>3. CASE phase[d] \in {"regional", "fallback"}
    BY <1>0, <2>3 DEF CallsByPhase, Retryable
  <2> QED  BY <2>2, <2>3 DEF Calling
<1>2. pump[d] # "reconnecting"
  BY <1>0 DEF CallsByPhase
<1>3. CASE UNCHANGED dispatchVars
  BY <1>3 DEF dispatchVars
<1>4. CASE EntryExpires \/ RegionExpires
  BY <1>4 DEF EntryExpires, RegionExpires
<1>5. ASSUME NEW x \in Dispatches,
             \/ StartDispatch(x) \/ DispatchStep(x) \/ SaverStep(x) \/ ClientLeaves(x)
             \/ Reconnect(x) \/ PumpStops(x)
      PROVE  sent'[d] = sent[d]
  <2>1. sent' = sent \/ sent' = Counted(x)
    BY <1>5 DEF StartDispatch, DispatchStep, SaverStep, ClientLeaves, Reconnect, PumpStops,
                Prepare, CacheLookup, Attempt, RegionalRetry, Fallback, SignalRateLimit,
                PollBody, EndBody, BodyBreaks, Collect, Probe, Put
  <2>2. CASE x # d
    BY <1>0, <2>1, <2>2 DEF Counted, DispatchTypes
  <2>3. CASE x = d
    <3>1. ~Attempt(d) /\ ~RegionalRetry(d) /\ ~Fallback(d) /\ ~Reconnect(d)
      BY <1>1, <1>2 DEF Attempt, RegionalRetry, Fallback, Reconnect, At, Calling
    <3>2. ClientLeaves(d) => sent' = sent
      BY <1>1 DEF ClientLeaves, Calling
    <3> QED  BY <1>5, <2>3, <3>1, <3>2
             DEF StartDispatch, DispatchStep, SaverStep, PumpStops, Prepare, CacheLookup,
                 SignalRateLimit, PollBody, EndBody, BodyBreaks, Collect, Probe, Put
  <2> QED  BY <2>2, <2>3
<1> QED  BY <1>3, <1>4, <1>5 DEF DispatchNext

\* A call that is not a stream is not sent again once it succeeded, was refused or may have
\* been executed, and media calls and calls with heartbeats not at all: not by the retries,
\* the regional retry, the fallback or a reconnect (NotReplayed).
THEOREM CallsNotReplayed == DispatchSpec => NotReplayed
<1>1. DispatchInv /\ [DispatchNext]_dispatchVars =>
        [\A d \in Dispatches :
           \/ ~kind[d].stream /\ reply[d].out \in {"ok", "client", "limited", "transport"}
           \/ Single(d) /\ sent[d] > 0
           => sent'[d] = sent[d]]_dispatchVars
  BY StepNotReplayed
<1> QED  BY <1>1, DispatchInvariant, PTL DEF DispatchSpec, NotReplayed

-----------------------------------------------------------------------------
(* X402Payment                                                             *)

-----------------------------------------------------------------------------
(* The inductive invariant relates, request by request, the await that the *)
(* handler has reached to what the payment service and the upstream know.  *)

BeforePayment == {"idle", "snapshot", "body", "policy", "terms"}
AfterSettlement == {"secret", "proxy", "record", "stream", "spawned"}
Ended == {"log", "stream", "spawned", "done", "gone"}

\* A signature is settled for the one request whose call the service settled.
SettledOwner ==
    /\ \A s \in Signatures : settledFor[s] # Nobody =>
          sig[settledFor[s]] = s /\ rpc[settledFor[s]] = "settled"
    /\ \A q \in Purchases : rpc[q] = "settled" =>
          sig[q] \in Signatures /\ settledFor[sig[q]] = q

\* The service is called once the handler is past its checks, and only for a
\* request that has a signature.
CalledWithSignature ==
    \A q \in Purchases :
        /\ rpc[q] # "none" => sig[q] \in Signatures
        /\ handler[q] \in BeforePayment => rpc[q] = "none" /\ answer[q] = "none"
        /\ handler[q] = "settle" => answer[q] = "none"

\* Whoever is past the settlement has settled, and nothing is forwarded earlier.
ForwardedAfterSettlement ==
    \A q \in Purchases :
        /\ handler[q] \in AfterSettlement => rpc[q] = "settled"
        /\ forward[q] # "none" => rpc[q] = "settled"
        /\ handler[q] = "secret" => forward[q] = "none"
        /\ handler[q] \in BeforePayment \cup {"settle"} => forward[q] = "none"

\* An answer that refuses the payment belongs to a call that cannot settle any more.
RefusedNotSettling ==
    \A q \in Purchases : answer[q] \in Refusals => rpc[q] \in {"none", "refused"}

\* A handler that ended with a call that settled, or still may, left a record of
\* the result or went through one of the windows.
EndAccounted ==
    \A q \in Purchases :
        /\ handler[q] = "record" => result[q] # "none"
        /\ handler[q] \in Ended /\ rpc[q] \in {"sent", "settled"}
              => result[q] # "none" \/ window[q] # "none"

\* A handler that has not written its log entry yet has none.
LogPending ==
    \A q \in Purchases : handler[q] \notin {"done", "gone"} => logs[q] = 0

X402Inv ==
    /\ X402TypeOK
    /\ LogPending
    /\ SettledOwner
    /\ CalledWithSignature
    /\ ForwardedAfterSettlement
    /\ RefusedNotSettling
    /\ EndAccounted

\* Nothing has been sent, settled or answered yet.
LEMMA X402InitInv == X402Init => X402Inv
BY SignatureAssumption
   DEF X402Init, X402Inv, X402TypeOK, SettledOwner, CalledWithSignature,
       ForwardedAfterSettlement, RefusedNotSettling, EndAccounted, LogPending, Steps, Answers,
       BeforePayment, AfterSettlement, Ended, Refusals

(* Each step keeps the types and the invariant; only EvaluatePolicy,        *)
(* ServiceSettles and SettleReply touch what ties payments to requests.     *)
LEMMA X402StepInv == X402Inv /\ [X402Next]_x402Vars => X402Inv'
<1> SUFFICES ASSUME X402Inv, [X402Next]_x402Vars  PROVE X402Inv'
  OBVIOUS
<1> USE SignatureAssumption
    DEF X402Inv, X402TypeOK, SettledOwner, CalledWithSignature, ForwardedAfterSettlement,
        RefusedNotSettling, EndAccounted, LogPending, Steps, Answers, BeforePayment,
        AfterSettlement, Ended, Refusals, Uncertain, AfterPayment, payment
<1>1. CASE UNCHANGED x402Vars
  BY <1>1 DEF x402Vars
<1>2. ASSUME NEW q \in Purchases, ArriveX402(q)  PROVE X402Inv'
  BY <1>2 DEF ArriveX402
<1>3. ASSUME NEW q \in Purchases, ResolveSnapshot(q)  PROVE X402Inv'
  BY <1>3 DEF ResolveSnapshot, Proceed, Reject
<1>4. ASSUME NEW q \in Purchases, ReadBody(q)  PROVE X402Inv'
  BY <1>4 DEF ReadBody, Proceed, Reject
<1>5. ASSUME NEW q \in Purchases, EvaluatePolicy(q)  PROVE X402Inv'
  BY <1>5 DEF EvaluatePolicy, Admit, AskTerms, StartPayment, Proceed, Reject, RejectUnlogged
<1>6. ASSUME NEW q \in Purchases, ReceiveTerms(q)  PROVE X402Inv'
  BY <1>6 DEF ReceiveTerms, Reject
<1>7. ASSUME NEW q \in Purchases, SettleReply(q)  PROVE X402Inv'
  BY <1>7 DEF SettleReply, Proceed, Reject
<1>8. ASSUME NEW q \in Purchases, SettleFails(q)  PROVE X402Inv'
  BY <1>8 DEF SettleFails, Reject
<1>9. ASSUME NEW q \in Purchases, ResolveSecret(q)  PROVE X402Inv'
  BY <1>9 DEF ResolveSecret, Proceed, Reject
<1>10. ASSUME NEW q \in Purchases, ProxyPaidRequest(q)  PROVE X402Inv'
  BY <1>10 DEF ProxyPaidRequest, Proceed
<1>11. ASSUME NEW q \in Purchases, RecordServiceResult(q)  PROVE X402Inv'
  BY <1>11 DEF RecordServiceResult, Reject
<1>12. ASSUME NEW q \in Purchases, WriteLog(q)  PROVE X402Inv'
  BY <1>12 DEF WriteLog, Copied
<1>13. ASSUME NEW q \in Purchases, BodyCompletes(q)  PROVE X402Inv'
  BY <1>13 DEF BodyCompletes
<1>14. ASSUME NEW q \in Purchases, Disconnect(q)  PROVE X402Inv'
  BY <1>14 DEF Disconnect, Awaiting, Copied
<1>15. ASSUME NEW q \in Purchases, ServiceSettles(q)  PROVE X402Inv'
  BY <1>15 DEF ServiceSettles
<1>16. ASSUME NEW q \in Purchases, UpstreamServes(q)  PROVE X402Inv'
  BY <1>16 DEF UpstreamServes
<1>17. CASE ProcessStops
  BY <1>17 DEF ProcessStops, Awaiting, Copied
<1> QED
  BY <1>1, <1>2, <1>3, <1>4, <1>5, <1>6, <1>7, <1>8, <1>9, <1>10, <1>11, <1>12, <1>13, <1>14, <1>15, <1>16, <1>17 DEF X402Next, HandlerStep

(* The handlers of x402/service.rs keep the invariant, with any interleaving *)
(* of settlements, deliveries, disconnects and a stop of the process.       *)
THEOREM X402Invariant == X402Spec => []X402Inv
<1> QED  BY X402InitInv, X402StepInv, PTL DEF X402Spec

(* Every variable keeps its type; in particular a request's log entry is    *)
(* in two copies at the most, one of the stream and one over HTTP           *)
(* (emit_x402_log_best_effort is reached once, and write_x402_log sends     *)
(* over HTTP after an XADD whose answer was an error or was lost).          *)
THEOREM X402TypeCorrect == X402Spec => []X402TypeOK
<1>1. X402Inv => X402TypeOK
  BY DEF X402Inv
<1> QED  BY <1>1, X402Invariant, PTL

(* No request is served unless its own payment was settled, and no two are  *)
(* served for one signature (the return on !success in handle_paid_request). *)
THEOREM ServedIsPaid == X402Spec => []ServedOnlyIfPaid
<1>1. X402Inv => ServedOnlyIfPaid
  BY DEF X402Inv, SettledOwner, ForwardedAfterSettlement, ServedOnlyIfPaid, Served
<1> QED  BY <1>1, X402Invariant, PTL

(* A client that is refused has not paid, however late the payment service  *)
(* acts (the early returns of handle_paid_request).                         *)
THEOREM RefusedIsNotCharged == X402Spec => []RefusedNotCharged
<1>1. X402Inv => RefusedNotCharged
  <2> SUFFICES ASSUME X402Inv, NEW q \in Purchases, answer[q] \in Refusals,
                      NEW s \in Signatures, settledFor[s] = q
               PROVE  FALSE
    BY DEF RefusedNotCharged
  <2>1. q # Nobody
    BY SignatureAssumption
  <2>2. rpc[q] = "settled"
    BY <2>1 DEF X402Inv, SettledOwner
  <2> QED  BY <2>2 DEF X402Inv, RefusedNotSettling
<1> QED  BY <1>1, X402Invariant, PTL

(* A settled payment whose handler has ended is on record, but for the      *)
(* windows that the code leaves open (record_service_result).               *)
THEOREM SettledPaymentAccounted == X402Spec => []SettledIsAccounted
<1>1. X402Inv => SettledIsAccounted
  <2> SUFFICES ASSUME X402Inv, NEW s \in Signatures, settledFor[s] # Nobody,
                      handler[settledFor[s]] \in {"stream", "spawned", "done", "gone"}
               PROVE  \/ result[settledFor[s]] # "none"
                      \/ window[settledFor[s]] # "none"
    BY DEF SettledIsAccounted
  <2>1. settledFor[s] \in Purchases /\ rpc[settledFor[s]] = "settled"
    BY DEF X402Inv, X402TypeOK, SettledOwner
  <2> QED  BY <2>1 DEF X402Inv, EndAccounted, Ended
<1> QED  BY <1>1, X402Invariant, PTL

-----------------------------------------------------------------------------
(* Refinement: a settlement is Settle, the upstream's receipt is Deliver,   *)
(* and every other step leaves the promise as it is.                        *)

Paid == {s \in Signatures : settledFor[s] # Nobody}
DeliveredTo == [s \in Signatures |-> {q \in Served : sig[q] = s}]

\* A step that changes neither the settlements nor who is served for what.
LEMMA PromiseStutters ==
  ASSUME UNCHANGED settledFor, UNCHANGED Served, \A q \in Served : sig'[q] = sig[q]
  PROVE  UNCHANGED <<Paid, DeliveredTo>>
BY DEF Paid, DeliveredTo

\* Settlements and deliveries are the only visible steps.
LEMMA PromiseStep ==
  ASSUME X402Inv, [X402Next]_x402Vars
  PROVE  [Promise!PaidNext]_<<Paid, DeliveredTo>>
<1> USE DEF X402Inv, X402TypeOK
<1> DEFINE Stutter == /\ UNCHANGED settledFor /\ UNCHANGED Served
                      /\ \A q \in Served : sig'[q] = sig[q]
<1>1. CASE UNCHANGED x402Vars
  BY <1>1 DEF x402Vars, Paid, DeliveredTo, Served
<1>2. ASSUME NEW q \in Purchases, ArriveX402(q)  PROVE Stutter
  BY <1>2 DEF ArriveX402, payment, Served, ForwardedAfterSettlement, BeforePayment
<1>3. ASSUME NEW q \in Purchases, ResolveSecret(q)  PROVE Stutter
  BY <1>3 DEF ResolveSecret, Served, ForwardedAfterSettlement
<1>4. ASSUME NEW q \in Purchases,
             \/ ResolveSnapshot(q) \/ ReadBody(q) \/ EvaluatePolicy(q) \/ ReceiveTerms(q)
             \/ SettleReply(q) \/ SettleFails(q) \/ ProxyPaidRequest(q)
             \/ RecordServiceResult(q) \/ WriteLog(q) \/ BodyCompletes(q) \/ Disconnect(q)
      PROVE  Stutter
  BY <1>4 DEF ResolveSnapshot, ReadBody, EvaluatePolicy, ReceiveTerms, SettleReply,
              SettleFails, ProxyPaidRequest, RecordServiceResult, WriteLog, BodyCompletes,
              Disconnect, payment, Served
<1>5. CASE ProcessStops
  <2>1. Stutter
    BY <1>5 DEF ProcessStops, payment, Served
  <2> QED  BY <2>1, PromiseStutters
<1>6. ASSUME NEW q \in Purchases, ServiceSettles(q)
      PROVE  [Promise!PaidNext]_<<Paid, DeliveredTo>>
  <2>0. UNCHANGED Served /\ UNCHANGED sig /\ UNCHANGED DeliveredTo
    BY <1>6 DEF ServiceSettles, Served, DeliveredTo
  <2>1. CASE UNCHANGED settledFor
    BY <2>0, <2>1, PromiseStutters
  <2>2. CASE /\ settledFor[sig[q]] = Nobody
             /\ settledFor' = [settledFor EXCEPT ![sig[q]] = q]
    <3>1. sig[q] \in Signatures
      BY <1>6 DEF ServiceSettles, CalledWithSignature
    <3>2. sig[q] \notin Paid /\ Paid' = Paid \cup {sig[q]}
      BY <2>2, <3>1, SignatureAssumption DEF Paid
    <3>3. Promise!Settle(sig[q])
      BY <2>0, <3>2 DEF Promise!Settle, Paid, DeliveredTo
    <3> QED  BY <3>1, <3>3 DEF Promise!PaidNext, Promise!Settle
  <2> QED  BY <1>6, <2>1, <2>2 DEF ServiceSettles
<1>7. ASSUME NEW q \in Purchases, UpstreamServes(q)
      PROVE  [Promise!PaidNext]_<<Paid, DeliveredTo>>
  <2>1. /\ sig[q] \in Signatures /\ settledFor[sig[q]] = q
        /\ q \notin Served /\ Served' = Served \cup {q}
        /\ UNCHANGED <<sig, settledFor>>
    BY <1>7 DEF UpstreamServes, Served, ForwardedAfterSettlement, SettledOwner
  <2>2. sig[q] \in Paid /\ UNCHANGED Paid
    BY <2>1, SignatureAssumption DEF Paid
  <2>3. \A p \in Served : sig[p] # sig[q]
    BY <2>1 DEF Served, ForwardedAfterSettlement, SettledOwner
  <2>4. DeliveredTo[sig[q]] = {} /\ DeliveredTo' = [DeliveredTo EXCEPT ![sig[q]] = {q}]
    <3>1. \A s \in Signatures : {p \in Served' : sig'[p] = s}
                                = IF s = sig[q] THEN {q} ELSE {p \in Served : sig[p] = s}
      BY <2>1, <2>3
    <3>2. {p \in Served : sig[p] = sig[q]} = {}
      BY <2>3
    <3>3. DeliveredTo' = [s \in Signatures |->
                             IF s = sig[q] THEN {q} ELSE {p \in Served : sig[p] = s}]
      BY <3>1, Zenon DEF DeliveredTo
    <3>4. DeliveredTo[sig[q]] = {}
      BY <2>1, <3>2 DEF DeliveredTo
    <3> QED  BY <3>3, <3>4 DEF DeliveredTo
  <2>5. Promise!Deliver(sig[q], q)
    BY <2>2, <2>4 DEF Promise!Deliver, Paid, DeliveredTo
  <2> QED  BY <2>1, <2>5 DEF Promise!PaidNext, Promise!Deliver
<1> QED
  <2>1. ASSUME Stutter  PROVE [Promise!PaidNext]_<<Paid, DeliveredTo>>
    BY <2>1, PromiseStutters
  <2> HIDE DEF Stutter
  <2> QED  BY <1>1, <1>2, <1>3, <1>4, <1>5, <1>6, <1>7, <2>1 DEF X402Next, HandlerStep

(* The handlers implement PaidDelivery: no payment is settled twice, and    *)
(* the service is delivered once, for a settled payment (proxy_paid_request *)
(* after VerifyAndSettlePayment).                                           *)
THEOREM PromiseKept == X402Spec => KeepsPromise
<1>1. X402Init => Promise!PaidInit
  BY DEF X402Init, Promise!PaidInit, Served
<1>2. X402Inv /\ [X402Next]_x402Vars
        => [Promise!PaidNext]_<<{s \in Signatures : settledFor[s] # Nobody},
                                [s \in Signatures |-> {q \in Served : sig[q] = s}]>>
  BY PromiseStep DEF Paid, DeliveredTo
<1> QED  BY <1>1, <1>2, X402Invariant, PTL DEF X402Spec, KeepsPromise, Promise!PaidSpec

(* Service, charge and account of every payment agree (handle_paid_request  *)
(* as a whole).                                                             *)
THEOREM PaymentsAreBalanced == X402Spec => []PaymentsBalance
<1>1. ServedOnlyIfPaid /\ RefusedNotCharged /\ SettledIsAccounted => PaymentsBalance
  BY DEF PaymentsBalance
<1> QED  BY <1>1, ServedIsPaid, RefusedIsNotCharged, SettledPaymentAccounted, PTL

-----------------------------------------------------------------------------
(* Calls of tools                                                           *)

\* The calls of w that hold a permit.
Held(w) == {c \in ToolCalls : WorkspaceOf[c] = w /\ HasPermit(c)}

\* Finitely many permits are out, as many as are counted, within the limit.
PermitInv ==
    /\ tstep \in [ToolCalls -> {"idle", "refused", "done"} \cup Holding]
    /\ inUse \in [Workspaces -> Nat]
    /\ \A w \in Workspaces :
        /\ IsFiniteSet(Held(w)) /\ inUse[w] = Cardinality(Held(w))
        /\ Limit > 0 => inUse[w] <= Limit

\* A call that keeps or does without a permit.
LEMMA PermitKept ==
    ASSUME PermitInv, NEW c \in ToolCalls, NEW next \in {"idle", "refused", "done"} \cup Holding,
           tstep[c] \in Holding <=> next \in Holding,
           tstep' = [tstep EXCEPT ![c] = next], UNCHANGED inUse
    PROVE  PermitInv'
<1>1. \A w \in Workspaces : Held(w)' = Held(w)
  BY DEF PermitInv, Held, HasPermit
<1> QED  BY <1>1 DEF PermitInv

\* try_acquire_workspace.
LEMMA PermitTaken ==
    ASSUME PermitInv, NEW c \in ToolCalls, tstep[c] \notin Holding, Free(WorkspaceOf[c]),
           NEW next \in Holding, tstep' = [tstep EXCEPT ![c] = next], TakePermit(c)
    PROVE  PermitInv'
<1> DEFINE v == WorkspaceOf[c]
<1>0. Limit \in Nat /\ v \in Workspaces
  BY ToolAssumption
<1>1. tstep' \in [ToolCalls -> {"idle", "refused", "done"} \cup Holding]
  BY DEF PermitInv
<1>2. \A w \in Workspaces : w # v => Held(w)' = Held(w) /\ inUse'[w] = inUse[w]
  BY DEF PermitInv, Held, HasPermit, TakePermit
<1>3. CASE Limit = 0
  <2>1. inUse' = inUse /\ Held(v)' = Held(v)
    BY <1>3 DEF PermitInv, Held, HasPermit, TakePermit
  <2> QED  BY <1>1, <1>2, <2>1 DEF PermitInv
<1>4. CASE Limit > 0
  <2>1. Held(v)' = Held(v) \cup {c} /\ c \notin Held(v)
    BY <1>4 DEF PermitInv, Held, HasPermit
  <2>2. IsFiniteSet(Held(v)') /\ Cardinality(Held(v)') = Cardinality(Held(v)) + 1
    BY <1>0, <2>1, FS_AddElement DEF PermitInv
  <2>3. inUse' \in [Workspaces -> Nat] /\ inUse'[v] = inUse[v] + 1 /\ inUse[v] < Limit
    BY <1>0, <1>4 DEF PermitInv, TakePermit, Free
  <2>4. inUse'[v] = Cardinality(Held(v)') /\ inUse'[v] <= Limit
    BY <1>0, <2>2, <2>3 DEF PermitInv
  <2> QED  BY <1>1, <1>2, <2>2, <2>3, <2>4 DEF PermitInv
<1> QED  BY <1>0, <1>3, <1>4

\* The drop of the permit, by a call that has one or not.
LEMMA PermitDropped ==
    ASSUME PermitInv, NEW c \in ToolCalls, tstep' = [tstep EXCEPT ![c] = "done"], DropPermit(c)
    PROVE  PermitInv'
<1> DEFINE v == WorkspaceOf[c]
<1>0. Limit \in Nat /\ v \in Workspaces /\ "done" \notin Holding
  BY ToolAssumption DEF Holding
<1>1. tstep' \in [ToolCalls -> {"idle", "refused", "done"} \cup Holding]
  BY DEF PermitInv
<1>2. \A w \in Workspaces : w # v => Held(w)' = Held(w) /\ inUse'[w] = inUse[w]
  BY DEF PermitInv, Held, HasPermit, DropPermit
<1>3. CASE ~HasPermit(c)
  <2>1. inUse' = inUse /\ Held(v)' = Held(v)
    BY <1>0, <1>3 DEF PermitInv, Held, HasPermit, DropPermit
  <2> QED  BY <1>1, <1>2, <2>1 DEF PermitInv
<1>4. CASE HasPermit(c)
  <2>1. Held(v)' = Held(v) \ {c} /\ c \in Held(v)
    BY <1>0, <1>4 DEF PermitInv, Held, HasPermit
  <2>2. IsFiniteSet(Held(v)') /\ Cardinality(Held(v)') = Cardinality(Held(v)) - 1
    BY <1>0, <2>1, FS_RemoveElement DEF PermitInv
  <2>3. Cardinality(Held(v)') \in Nat
    BY <2>2, FS_CardinalityType
  <2>4. inUse'[v] = inUse[v] - 1 /\ inUse'[v] = Cardinality(Held(v)')
    BY <1>0, <1>4, <2>2 DEF PermitInv, DropPermit
  <2>5. inUse' \in [Workspaces -> Nat]
    BY <1>0, <1>2, <2>3, <2>4 DEF PermitInv, DropPermit
  <2> QED  BY <1>0, <1>1, <1>2, <2>2, <2>4, <2>5 DEF PermitInv
<1> QED  BY <1>3, <1>4

\* How far a call has come, by its step.
ProgressByStep ==
    \A c \in ToolCalls :
        /\ tstep[c] \in {"idle", "refused", "request"} => requested[c] = 0
        /\ tstep[c] \in {"idle", "refused", "request", "policy", "blocked", "execute"}
              => wire[c] = "none"
        /\ tstep[c] \notin {"terminal", "done"} => told[c] = NotTold
        /\ tstep[c] \in {"policy", "execute"} /\ target[c].high => requested[c] > 0
        /\ tstep[c] = "execute" /\ Preflighted(c) => cleared[c] = "allowed"

ToolInv ==
    /\ ToolTypeOK /\ ProgressByStep
    /\ CalledOnlyIfCleared /\ BillingIsTrue /\ TrailIsClosed /\ PermitInv

\* What the caller was told.
LEMMA ToldFields ==
    \A x, y : /\ Told(x, y).executed = x /\ Told(x, y).billable = y /\ Told(x, y).answered = TRUE
              /\ NotTold.executed = FALSE /\ NotTold.billable = FALSE /\ NotTold.answered = FALSE
BY DEF Told, NotTold

\* ... and its type.
LEMMA ToldType ==
    \A x, y \in BOOLEAN :
        /\ Told(x, y) \in [executed : BOOLEAN, billable : BOOLEAN, answered : BOOLEAN]
        /\ NotTold \in [executed : BOOLEAN, billable : BOOLEAN, answered : BOOLEAN]
BY DEF Told, NotTold

\* No call has come.
LEMMA ToolInitInv == ToolInit => ToolInv
<1> SUFFICES ASSUME ToolInit  PROVE ToolInv
  OBVIOUS
<1>1. ToolTypeOK
  BY ToldType DEF ToolInit, ToolTypeOK
<1>2. ProgressByStep /\ CalledOnlyIfCleared /\ TrailIsClosed
  BY DEF ToolInit, ProgressByStep, CalledOnlyIfCleared, TrailIsClosed
<1>3. BillingIsTrue
  BY ToldFields DEF ToolInit, BillingIsTrue
<1>4. PermitInv
  <2>1. \A w \in Workspaces : Held(w) = {}
    BY DEF ToolInit, Held, HasPermit, Holding
  <2>2. \A w \in Workspaces : inUse[w] = 0 /\ (Limit > 0 => inUse[w] <= Limit)
    BY ToolAssumption DEF ToolInit
  <2> QED  BY <1>1, <2>1, <2>2, FS_EmptySet DEF PermitInv, ToolTypeOK
<1> QED  BY <1>1, <1>2, <1>3, <1>4 DEF ToolInv

\* Whatever one call does leaves the others alone.
LEMMA OneCallMoves ==
    ASSUME ToolInv, ToolTypeOK', PermitInv', NEW c \in ToolCalls,
           UNCHANGED <<eventSink, target>>,
           \A d \in ToolCalls : d # c =>
               /\ tstep'[d] = tstep[d] /\ requested'[d] = requested[d] /\ terminal'[d] = terminal[d]
               /\ cleared'[d] = cleared[d] /\ wire'[d] = wire[d] /\ told'[d] = told[d]
               /\ lapse'[d] = lapse[d],
           tstep'[c] \in {"idle", "refused", "request"} => requested'[c] = 0,
           tstep'[c] \in {"idle", "refused", "request", "policy", "blocked", "execute"}
              => wire'[c] = "none",
           tstep'[c] \notin {"terminal", "done"} => told'[c] = NotTold,
           tstep'[c] \in {"policy", "execute"} /\ target[c].high => requested'[c] > 0,
           tstep'[c] = "execute" /\ Preflighted(c) => cleared'[c] = "allowed",
           wire'[c] # "none" => /\ target[c].high => requested'[c] > 0
                                /\ Preflighted(c) => cleared'[c] = "allowed",
           told'[c].billable => wire'[c] = "received",
           told'[c].answered /\ ~told'[c].executed /\ "transport" \notin lapse'[c]
              => wire'[c] = "none",
           tstep'[c] = "done" /\ requested'[c] > 0 /\ lapse'[c] \subseteq {"transport"}
              => terminal'[c] > 0
    PROVE  ToolInv'
<1>1. \A d \in ToolCalls : Preflighted(d)' = Preflighted(d)
  BY DEF Preflighted
<1>2. ProgressByStep'
  BY <1>1 DEF ToolInv, ProgressByStep
<1>3. CalledOnlyIfCleared'
  BY <1>1 DEF ToolInv, CalledOnlyIfCleared
<1>4. BillingIsTrue'
  BY DEF ToolInv, BillingIsTrue
<1>5. TrailIsClosed'
  BY DEF ToolInv, TrailIsClosed
<1> QED  BY <1>2, <1>3, <1>4, <1>5 DEF ToolInv

\* One step per action.
LEMMA ToolStepInv == ToolInv /\ [ToolNext]_toolVars => ToolInv'
<1> SUFFICES ASSUME ToolInv, [ToolNext]_toolVars  PROVE ToolInv'
  OBVIOUS
<1>0. ToolTypeOK /\ PermitInv
  BY DEF ToolInv
<1>a. ASSUME NEW c \in ToolCalls
      PROVE  /\ tstep[c] \in {"idle", "refused", "request"} => requested[c] = 0
             /\ tstep[c] \in {"idle", "refused", "request", "policy", "blocked", "execute"}
                   => wire[c] = "none"
             /\ tstep[c] \notin {"terminal", "done"} => told[c] = NotTold
             /\ tstep[c] \in {"policy", "execute"} /\ target[c].high => requested[c] > 0
             /\ tstep[c] = "execute" /\ Preflighted(c) => cleared[c] = "allowed"
             /\ wire[c] # "none" => /\ target[c].high => requested[c] > 0
                                    /\ Preflighted(c) => cleared[c] = "allowed"
             /\ told[c].billable => wire[c] = "received"
             /\ told[c].answered /\ ~told[c].executed /\ "transport" \notin lapse[c]
                   => wire[c] = "none"
             /\ tstep[c] = "done" /\ requested[c] > 0 /\ lapse[c] \subseteq {"transport"}
                   => terminal[c] > 0
  BY DEF ToolInv, ProgressByStep, CalledOnlyIfCleared, BillingIsTrue, TrailIsClosed
<1>b. /\ \A x, y \in BOOLEAN :
            Told(x, y) \in [executed : BOOLEAN, billable : BOOLEAN, answered : BOOLEAN]
      /\ NotTold \in [executed : BOOLEAN, billable : BOOLEAN, answered : BOOLEAN]
  BY ToldType
<1>c. /\ Told(FALSE, FALSE).billable = FALSE /\ Told(TRUE, FALSE).billable = FALSE
      /\ Told(TRUE, FALSE).executed = TRUE /\ Told(TRUE, TRUE).executed = TRUE
      /\ NotTold.billable = FALSE /\ NotTold.answered = FALSE
  BY ToldFields
<1>1. CASE UNCHANGED toolVars
  <2>1. ToolTypeOK' /\ PermitInv'
    <3>1. ToolTypeOK'
      BY <1>0, <1>1 DEF toolVars, ToolTypeOK
    <3>2. \A w \in Workspaces : Held(w)' = Held(w)
      BY <1>1 DEF toolVars, Held, HasPermit
    <3> QED  BY <1>0, <1>1, <3>1, <3>2 DEF toolVars, PermitInv
  <2>2. ProgressByStep' /\ CalledOnlyIfCleared' /\ TrailIsClosed'
    BY <1>1 DEF toolVars, ToolInv, ProgressByStep, CalledOnlyIfCleared, TrailIsClosed, Preflighted
  <2>3. BillingIsTrue'
    BY <1>1 DEF toolVars, ToolInv, BillingIsTrue
  <2> QED  BY <2>1, <2>2, <2>3 DEF ToolInv
<1>2. ASSUME NEW c \in ToolCalls, ReceiveCall(c)  PROVE ToolInv'
  <2>1. tstep[c] = "idle" /\ UNCHANGED <<eventSink, target, requested, terminal, cleared, wire, lapse>>
    BY <1>2 DEF ReceiveCall, trail
  <2>2. CASE Return(c, Told(FALSE, FALSE))
    <3>1. PermitInv'
      BY <1>0, <2>2, PermitDropped DEF Return
    <3>2. ToolTypeOK'
      BY <1>0, <1>b, <2>1, <2>2, <3>1 DEF ToolTypeOK, Return, PermitInv
    <3>3. told'[c] = Told(FALSE, FALSE) /\ tstep'[c] = "done"
      BY <1>0, <2>2 DEF Return, ToolTypeOK
    <3>4. \A d \in ToolCalls : d # c => tstep'[d] = tstep[d] /\ told'[d] = told[d]
      BY <1>0, <2>2 DEF Return, ToolTypeOK
    <3>5. requested'[c] = 0 /\ wire'[c] = "none" /\ ~(requested'[c] > 0)
      BY <1>a, <2>1
    <3>6. told'[c].billable = FALSE
      BY <1>c, <3>3
    <3> QED  BY <2>1, <3>1, <3>2, <3>3, <3>4, <3>5, <3>6, OneCallMoves
  <2>3. CASE GoOn(c, "refused")
    <3>1. PermitInv'
      BY <1>0, <2>1, <2>3, PermitKept DEF GoOn, Holding
    <3>2. ToolTypeOK'
      BY <1>0, <2>1, <2>3 DEF ToolTypeOK, GoOn
    <3> QED  BY <1>0, <1>a, <1>c, <2>1, <2>3, <3>1, <3>2, OneCallMoves DEF GoOn, ToolTypeOK
  <2>4. CASE /\ Free(WorkspaceOf[c]) /\ TakePermit(c)
             /\ tstep' = [tstep EXCEPT ![c] = "request"] /\ UNCHANGED told
    <3>1. PermitInv'
      BY <1>0, <2>1, <2>4, PermitTaken DEF Holding
    <3>2. ToolTypeOK'
      BY <1>0, <2>1, <2>4, <3>1 DEF ToolTypeOK, PermitInv
    <3> QED  BY <1>0, <1>a, <1>c, <2>1, <2>4, <3>1, <3>2, OneCallMoves DEF ToolTypeOK
  <2> QED  BY <1>2, <2>2, <2>3, <2>4 DEF ReceiveCall
<1>3. ASSUME NEW c \in ToolCalls, EmitRefusal(c)  PROVE ToolInv'
  <2>1. /\ tstep[c] \in {"refused", "blocked"} /\ Return(c, Told(FALSE, FALSE))
        /\ UNCHANGED <<eventSink, target, requested, cleared, wire>>
    BY <1>3 DEF EmitRefusal
  <2>2. PICK s \in SendEvent(eventSink) :
           /\ terminal' = [terminal EXCEPT ![c] = s.copies]
           /\ IF s.ok THEN UNCHANGED lapse ELSE Lapse(c, "sink")
    BY <1>3 DEF EmitRefusal
  <2>3. s.copies \in 0..2 /\ (s.ok => s.copies > 0)
    BY <1>0, SendEventResult DEF ToolTypeOK
  <2>4. PermitInv'
    BY <1>0, <2>1, PermitDropped DEF Return
  <2>5. ToolTypeOK'
    <3>1. lapse' \in [ToolCalls -> SUBSET {"sink", "execution", "transport", "left"}]
      BY <1>0, <2>2 DEF ToolTypeOK, Lapse
    <3>2. terminal' \in [ToolCalls -> 0..2]
      BY <1>0, <2>2, <2>3 DEF ToolTypeOK
    <3>3. told' \in [ToolCalls -> [executed : BOOLEAN, billable : BOOLEAN, answered : BOOLEAN]]
      BY <1>0, <1>b, <2>1 DEF ToolTypeOK, Return
    <3> QED  BY <1>0, <2>1, <2>4, <3>1, <3>2, <3>3 DEF ToolTypeOK, PermitInv
  <2>6. /\ told'[c] = Told(FALSE, FALSE) /\ tstep'[c] = "done" /\ terminal'[c] = s.copies
        /\ s.ok \/ "sink" \in lapse'[c]
    BY <1>0, <2>1, <2>2 DEF Return, ToolTypeOK, Lapse
  <2>7. \A d \in ToolCalls : d # c => /\ tstep'[d] = tstep[d] /\ told'[d] = told[d]
                                      /\ terminal'[d] = terminal[d] /\ lapse'[d] = lapse[d]
    BY <1>0, <2>1, <2>2 DEF Return, ToolTypeOK, Lapse
  <2> QED  BY <1>0, <1>a, <1>c, <2>1, <2>3, <2>4, <2>5, <2>6, <2>7, OneCallMoves
<1>4. ASSUME NEW c \in ToolCalls, EmitRequested(c)  PROVE ToolInv'
  <2>1. tstep[c] = "request" /\ UNCHANGED <<eventSink, target, terminal, cleared, wire>>
    BY <1>4 DEF EmitRequested
  <2>2. PICK s \in SendEvent(eventSink) :
           /\ requested' = [requested EXCEPT ![c] = s.copies]
           /\ \/ /\ ~s.ok /\ target[c].high
                 /\ Return(c, Told(FALSE, FALSE))
                 /\ Lapse(c, "sink")
              \/ /\ s.ok \/ ~target[c].high
                 /\ IF Preflighted(c) THEN GoOn(c, "policy") ELSE CheckBudget(c)
                 /\ UNCHANGED lapse
    BY <1>4 DEF EmitRequested
  <2>3. s.copies \in 0..2 /\ (s.ok => s.copies > 0)
    BY <1>0, SendEventResult DEF ToolTypeOK
  <2>4. requested'[c] = s.copies /\ \A d \in ToolCalls : d # c => requested'[d] = requested[d]
    BY <1>0, <2>2 DEF ToolTypeOK
  <2>5. CASE Return(c, Told(FALSE, FALSE)) /\ Lapse(c, "sink")
    <3>1. PermitInv'
      BY <1>0, <2>5, PermitDropped DEF Return
    <3>2. ToolTypeOK'
      BY <1>0, <1>b, <2>1, <2>2, <2>3, <2>5, <3>1 DEF ToolTypeOK, Return, PermitInv, Lapse
    <3>3. told'[c] = Told(FALSE, FALSE) /\ tstep'[c] = "done" /\ "sink" \in lapse'[c]
      BY <1>0, <2>5 DEF Return, ToolTypeOK, Lapse
    <3>4. \A d \in ToolCalls : d # c =>
             tstep'[d] = tstep[d] /\ told'[d] = told[d] /\ lapse'[d] = lapse[d]
      BY <1>0, <2>5 DEF Return, ToolTypeOK, Lapse
    <3> QED  BY <1>0, <1>a, <1>c, <2>1, <2>4, <3>1, <3>2, <3>3, <3>4, OneCallMoves
  <2>6. ASSUME NEW next \in {"policy", "blocked", "execute"}, GoOn(c, next), UNCHANGED lapse,
               s.ok \/ ~target[c].high, next = "execute" => ~Preflighted(c)
        PROVE  ToolInv'
    <3>1. PermitInv'
      BY <1>0, <2>1, <2>6, PermitKept DEF GoOn, Holding
    <3>2. ToolTypeOK'
      BY <1>0, <2>1, <2>2, <2>3, <2>6 DEF ToolTypeOK, GoOn, Holding
    <3>3. tstep'[c] = next /\ told' = told /\ \A d \in ToolCalls : d # c => tstep'[d] = tstep[d]
      BY <1>0, <2>6 DEF GoOn, ToolTypeOK
    <3> QED  BY <1>0, <1>a, <2>1, <2>3, <2>4, <2>6, <3>1, <3>2, <3>3, OneCallMoves
  <2> QED  BY <2>2, <2>5, <2>6 DEF CheckBudget
<1>5. ASSUME NEW c \in ToolCalls, Preflight(c)  PROVE ToolInv'
  <2>1. tstep[c] = "policy" /\ UNCHANGED <<eventSink, target, requested, terminal, wire, lapse>>
    BY <1>5 DEF Preflight, trail
  <2>2. ASSUME NEW v \in {"allowed", "blocked"}, NEW next \in {"blocked", "execute"},
               cleared' = [cleared EXCEPT ![c] = v], GoOn(c, next), next = "execute" => v = "allowed"
        PROVE  ToolInv'
    <3>1. PermitInv'
      BY <1>0, <2>1, <2>2, PermitKept DEF GoOn, Holding
    <3>2. ToolTypeOK'
      BY <1>0, <2>1, <2>2 DEF ToolTypeOK, GoOn, Holding
    <3>3. /\ tstep'[c] = next /\ told' = told /\ cleared'[c] = v
          /\ \A d \in ToolCalls : d # c => tstep'[d] = tstep[d] /\ cleared'[d] = cleared[d]
      BY <1>0, <2>2 DEF GoOn, ToolTypeOK
    <3> QED  BY <1>0, <1>a, <2>1, <2>2, <3>1, <3>2, <3>3, OneCallMoves
  <2> QED  BY <1>5, <2>2 DEF Preflight, CheckBudget
<1>6. ASSUME NEW c \in ToolCalls, tstep[c] \in Holding, ToolFails(c),
             UNCHANGED <<eventSink, target, trail, cleared, wire>>
      PROVE  ToolInv'
  <2>1. PermitInv'
    BY <1>0, <1>6, PermitDropped DEF ToolFails, Return
  <2>2. ToolTypeOK'
    BY <1>0, <1>b, <1>6, <2>1 DEF ToolTypeOK, ToolFails, Return, PermitInv, Lapse, trail
  <2>3. told'[c] = NotTold /\ tstep'[c] = "done" /\ "execution" \in lapse'[c]
    BY <1>0, <1>6 DEF ToolFails, Return, ToolTypeOK, Lapse
  <2>4. \A d \in ToolCalls : d # c =>
           tstep'[d] = tstep[d] /\ told'[d] = told[d] /\ lapse'[d] = lapse[d]
    BY <1>0, <1>6 DEF ToolFails, Return, ToolTypeOK, Lapse
  <2> QED  BY <1>0, <1>a, <1>c, <1>6, <2>1, <2>2, <2>3, <2>4, OneCallMoves DEF trail
<1>7. ASSUME NEW c \in ToolCalls, tstep[c] \in {"execute", "running"},
             NEW e \in [executed : BOOLEAN, billable : BOOLEAN, answered : BOOLEAN],
             Outcome(c, e),
             UNCHANGED <<eventSink, target, trail, cleared>>,
             \/ wire' = wire
             \/ tstep[c] = "execute" /\ wire' = [wire EXCEPT ![c] = "received"],
             \/ lapse' = lapse
             \/ Lapse(c, "transport"),
             e.billable => wire'[c] = "received",
             ~e.executed => wire'[c] = "none" \/ Lapse(c, "transport")
      PROVE  ToolInv'
  <2>1. PermitInv'
    BY <1>0, <1>7, PermitKept DEF Outcome, Holding
  <2>2. ToolTypeOK'
    <3>1. lapse' \in [ToolCalls -> SUBSET {"sink", "execution", "transport", "left"}]
      BY <1>0, <1>7 DEF ToolTypeOK, Lapse
    <3>2. wire' \in [ToolCalls -> {"none", "sent", "received"}]
      BY <1>0, <1>7 DEF ToolTypeOK
    <3>3. told' \in [ToolCalls -> [executed : BOOLEAN, billable : BOOLEAN, answered : BOOLEAN]]
      BY <1>0, <1>7 DEF ToolTypeOK, Outcome
    <3> QED  BY <1>0, <1>7, <2>1, <3>1, <3>2, <3>3 DEF ToolTypeOK, PermitInv, Outcome, trail
  <2>3. told'[c] = e /\ tstep'[c] = "terminal"
    BY <1>0, <1>7 DEF Outcome, ToolTypeOK
  <2>4. \A d \in ToolCalls : d # c => /\ tstep'[d] = tstep[d] /\ told'[d] = told[d]
                                      /\ lapse'[d] = lapse[d] /\ wire'[d] = wire[d]
    BY <1>0, <1>7 DEF Outcome, ToolTypeOK, Lapse
  <2>5. Lapse(c, "transport") => "transport" \in lapse'[c]
    BY <1>0 DEF Lapse, ToolTypeOK
  <2> QED  BY <1>0, <1>a, <1>7, <2>1, <2>2, <2>3, <2>4, <2>5, OneCallMoves DEF trail
<1>8. ASSUME NEW c \in ToolCalls, ExecuteTool(c)  PROVE ToolInv'
  <2>1. tstep[c] = "execute" /\ UNCHANGED <<eventSink, target, trail, cleared>>
    BY <1>8 DEF ExecuteTool
  <2>2. CASE GoOn(c, "running") /\ wire' = [wire EXCEPT ![c] = "sent"] /\ UNCHANGED lapse
    <3>1. PermitInv'
      BY <1>0, <2>1, <2>2, PermitKept DEF GoOn, Holding
    <3>2. ToolTypeOK'
      BY <1>0, <2>1, <2>2 DEF ToolTypeOK, GoOn, Holding, trail
    <3>3. /\ tstep'[c] = "running" /\ told' = told /\ wire'[c] = "sent"
          /\ \A d \in ToolCalls : d # c => tstep'[d] = tstep[d] /\ wire'[d] = wire[d]
      BY <1>0, <2>2 DEF GoOn, ToolTypeOK
    <3> QED  BY <1>0, <1>a, <1>c, <2>1, <2>2, <3>1, <3>2, <3>3, OneCallMoves DEF trail
  <2>3. CASE ToolFails(c) /\ UNCHANGED wire
    BY <1>6, <2>1, <2>3 DEF Holding
  <2>4. CASE Outcome(c, Told(FALSE, FALSE)) /\ UNCHANGED <<wire, lapse>>
    BY <1>7, <1>a, <1>b, <1>c, <2>1, <2>4
  <2>5. CASE Outcome(c, Told(TRUE, FALSE)) /\ UNCHANGED <<wire, lapse>>
    BY <1>7, <1>b, <1>c, <2>1, <2>5
  <2> QED  BY <1>8, <2>2, <2>3, <2>4, <2>5 DEF ExecuteTool
<1>9. ASSUME NEW c \in ToolCalls, ExecuteMock(c)  PROVE ToolInv'
  <2>1. wire'[c] = "received"
    BY <1>0, <1>9 DEF ExecuteMock, ToolTypeOK
  <2> QED  BY <1>7, <1>b, <1>c, <1>9, <2>1 DEF ExecuteMock
<1>10. ASSUME NEW c \in ToolCalls, ToolAnswers(c)  PROVE ToolInv'
  <2>1. tstep[c] = "running" /\ UNCHANGED <<eventSink, target, trail, cleared, wire>>
    BY <1>10 DEF ToolAnswers
  <2>2. ASSUME NEW e \in Answered(c), Outcome(c, e), UNCHANGED lapse  PROVE ToolInv'
    <3>1. wire[c] = "received" /\ (e = Told(TRUE, TRUE) \/ e = Told(TRUE, FALSE))
      BY DEF Answered
    <3> QED  BY <1>7, <1>b, <1>c, <2>1, <2>2, <3>1
  <2>3. ASSUME NEW e \in Unanswered(c), Outcome(c, e),
               IF e.executed THEN UNCHANGED lapse ELSE Lapse(c, "transport")
        PROVE  ToolInv'
    <3>1. e = Told(TRUE, FALSE) \/ e = Told(FALSE, FALSE)
      BY DEF Unanswered
    <3>2. CASE e = Told(TRUE, FALSE)
      <4>1. e.executed = TRUE
        BY <3>2, ToldFields, Zenon
      <4> QED  BY <1>7, <1>b, <1>c, <2>1, <2>3, <3>2, <4>1
    <3>3. CASE e = Told(FALSE, FALSE)
      <4>1. e.executed = FALSE
        BY <3>3, ToldFields, Zenon
      <4> QED  BY <1>7, <1>b, <1>c, <2>1, <2>3, <3>3, <4>1
    <3> QED  BY <3>1, <3>2, <3>3
  <2>4. CASE ToolFails(c)
    BY <1>6, <2>1, <2>4 DEF Holding
  <2> QED  BY <1>10, <2>2, <2>3, <2>4 DEF ToolAnswers
<1>11. ASSUME NEW c \in ToolCalls, EmitTerminal(c)  PROVE ToolInv'
  <2>1. /\ tstep[c] = "terminal" /\ Return(c, told[c])
        /\ UNCHANGED <<eventSink, target, requested, cleared, wire>>
    BY <1>11 DEF EmitTerminal
  <2>2. PICK s \in SendEvent(eventSink) :
           /\ terminal' = [terminal EXCEPT ![c] = s.copies]
           /\ IF s.ok THEN UNCHANGED lapse ELSE Lapse(c, "sink")
    BY <1>11 DEF EmitTerminal
  <2>3. s.copies \in 0..2 /\ (s.ok => s.copies > 0)
    BY <1>0, SendEventResult DEF ToolTypeOK
  <2>4. PermitInv'
    BY <1>0, <2>1, PermitDropped DEF Return
  <2>5. ToolTypeOK'
    BY <1>0, <1>b, <2>1, <2>2, <2>3, <2>4 DEF ToolTypeOK, Return, PermitInv, Lapse
  <2>6. /\ told'[c] = told[c] /\ tstep'[c] = "done" /\ terminal'[c] = s.copies
        /\ (s.ok \/ "sink" \in lapse'[c]) /\ lapse[c] \subseteq lapse'[c]
    BY <1>0, <2>1, <2>2 DEF Return, ToolTypeOK, Lapse
  <2>7. \A d \in ToolCalls : d # c => /\ tstep'[d] = tstep[d] /\ told'[d] = told[d]
                                      /\ terminal'[d] = terminal[d] /\ lapse'[d] = lapse[d]
    BY <1>0, <2>1, <2>2 DEF Return, ToolTypeOK, Lapse
  <2>8. lapse[c] \subseteq lapse'[c]
    BY <1>0, <2>2 DEF ToolTypeOK, Lapse
  <2> QED  BY <1>0, <1>a, <2>1, <2>3, <2>4, <2>5, <2>6, <2>7, <2>8, OneCallMoves
<1>12. ASSUME NEW c \in ToolCalls, ToolReceives(c)  PROVE ToolInv'
  <2>1. UNCHANGED <<eventSink, tstep, target, inUse, requested, terminal, cleared, told, lapse>>
    BY <1>12 DEF ToolReceives, trail
  <2>2. /\ wire[c] = "sent" /\ wire'[c] = "received"
        /\ \A d \in ToolCalls : d # c => wire'[d] = wire[d]
    BY <1>0, <1>12 DEF ToolReceives, ToolTypeOK
  <2>3. ToolTypeOK'
    BY <1>0, <1>12, <2>1 DEF ToolReceives, ToolTypeOK
  <2>4. PermitInv'
    BY <1>0, <2>1 DEF PermitInv, Held, HasPermit
  <2> QED  BY <1>0, <1>a, <2>1, <2>2, <2>3, <2>4, OneCallMoves
<1>13. ASSUME NEW c \in ToolCalls, LeaveCall(c)  PROVE ToolInv'
  <2>1. PermitInv'
    BY <1>0, <1>13, PermitDropped DEF LeaveCall, Return
  <2>2. ToolTypeOK'
    BY <1>0, <1>b, <1>13, <2>1 DEF ToolTypeOK, LeaveCall, Return, PermitInv, Lapse, trail
  <2>3. told'[c] = NotTold /\ tstep'[c] = "done" /\ "left" \in lapse'[c]
    BY <1>0, <1>13 DEF LeaveCall, Return, ToolTypeOK, Lapse
  <2>4. \A d \in ToolCalls : d # c =>
           tstep'[d] = tstep[d] /\ told'[d] = told[d] /\ lapse'[d] = lapse[d]
    BY <1>0, <1>13 DEF LeaveCall, Return, ToolTypeOK, Lapse
  <2> QED  BY <1>0, <1>a, <1>c, <1>13, <2>1, <2>2, <2>3, <2>4, OneCallMoves DEF LeaveCall, trail
<1> QED
  BY <1>1, <1>2, <1>3, <1>4, <1>5, <1>8, <1>9, <1>10, <1>11, <1>12, <1>13 DEF ToolNext, ToolStep

(* Calls of tools keep the invariant, whatever is lost and whoever leaves   *)
(* (handle_call).                                                           *)
THEOREM ToolInvariant == ToolSpec => []ToolInv
<1> QED  BY ToolInitInv, ToolStepInv, PTL DEF ToolSpec

(* Every variable keeps its type; an event is in the log at most twice.     *)
THEOREM ToolTypeCorrect == ToolSpec => []ToolTypeOK
<1>1. ToolInv => ToolTypeOK
  BY DEF ToolInv
<1> QED  BY <1>1, ToolInvariant, PTL

(* The checks, the bill, the trail and the permit of a call agree with what *)
(* the tool received (handle_call, execute_tool_with_context, outcome.rs).  *)
THEOREM ToolCallsAlwaysBalance == ToolSpec => []ToolCallsBalance
<1>1. ToolInv => PermitsExact
  BY DEF ToolInv, PermitInv, Held, PermitsExact
<1>2. ToolInv => ToolCallsBalance
  BY <1>1 DEF ToolInv, ToolCallsBalance
<1> QED  BY <1>2, ToolInvariant, PTL

-----------------------------------------------------------------------------
(* Calls observed in a stream                                               *)

\* What a draft knows itself by: its call's own names, under a provider that gives them.
NamesOf(d, c) ==
    /\ d.index \in {IndexOf[c], Absent} /\ d.id \in {IdOf[c], Absent}
    /\ names = "index" => d.index = IndexOf[c]
    /\ names = "id" => d.id = IdOf[c]

\* The arguments of a draft within g, what the provider has sent for its call: a prefix,
\* full where it was cut, and all of g if every frame so far was read.
ArgumentsIn(d, g, whole) ==
    /\ Len(d.arguments) <= Len(g)
    /\ \A n \in 1..Len(d.arguments) : d.arguments[n] = g[n]
    /\ d.truncated => Len(d.arguments) = MaxChars
    /\ ~d.truncated /\ (whole \/ d.finished) => d.arguments = g

WholeSoFar == frames <= MaxFrames \/ doneSeen

\* Every draft has a name, each of its names is an alias, and the draft an index stands
\* for has an index: no two drafts come to have the same one.
NamesKnown ==
    \A i \in DOMAIN drafts :
        /\ drafts[i].index # Absent \/ drafts[i].id # Absent
        /\ drafts[i].index # Absent => drafts[i].index \in DOMAIN aliases
        /\ drafts[i].id # Absent => drafts[i].id \in DOMAIN aliases
IndexTaken ==
    \A c \in ModelCalls : IndexOf[c] \in DOMAIN aliases =>
        drafts[aliases[IndexOf[c]]].index # Absent

\* Nothing is over before the finish reason.
EndsTrue == /\ doneSeen => over
            /\ \A i \in DOMAIN drafts : drafts[i].finished => over

\* From a provider that always gives one of the names, a draft and the aliases that lead
\* to it are of one call.
CallByName ==
    names # "any" =>
        /\ \A i \in DOMAIN drafts : \E c \in ModelCalls :
              /\ drafts[i].of = {c}
              /\ NamesOf(drafts[i], c)
              /\ ArgumentsIn(drafts[i], given[c], WholeSoFar)
        /\ \A i, j \in DOMAIN drafts : drafts[i].of = drafts[j].of => i = j
        /\ \A c \in ModelCalls : \A n \in {IndexOf[c], IdOf[c]} :
              n \in DOMAIN aliases => drafts[aliases[n]].of = {c}

\* A call that has no draft, although there is room for one, has shown no arguments.
NothingMissed ==
    names # "any" /\ frames <= MaxFrames /\ Len(drafts) < MaxDrafts =>
        \A c \in ModelCalls : (\A i \in DOMAIN drafts : drafts[i].of # {c}) => given[c] = <<>>

ChatInv == /\ ChatTypeOK /\ NamesKnown /\ IndexTaken /\ EndsTrue /\ KeysDistinct
           /\ CallByName /\ NothingMissed

\* A prefix of g to which as much of s is added as there is room for is one of g \o s.
Text == Seq(ModelCalls \X Nat)
GrowsInside(a, g, s, r, k) ==
    /\ Len(a) + r = MaxChars /\ k <= Len(s) /\ k <= r /\ (k = Len(s) \/ k = r)
    /\ Len(a) <= Len(g) /\ (\A i \in 1..Len(a) : a[i] = g[i]) /\ (a = g \/ Len(a) = MaxChars)
    => /\ a \o SubSeq(s, 1, k) \in Text
       /\ Len(a \o SubSeq(s, 1, k)) <= MaxChars
       /\ Len(a \o SubSeq(s, 1, k)) <= Len(g \o s)
       /\ \A i \in 1..Len(a \o SubSeq(s, 1, k)) : (a \o SubSeq(s, 1, k))[i] = (g \o s)[i]
       /\ r = 0 \/ Len(s) > r => Len(a \o SubSeq(s, 1, k)) = MaxChars
       /\ ~(r = 0 \/ Len(s) > r) /\ a = g => a \o SubSeq(s, 1, k) = g \o s

LEMMA PrefixGrows ==
    ASSUME NEW a \in Text, NEW g \in Text, NEW s \in Text, NEW r \in Nat, NEW k \in Nat
    PROVE  GrowsInside(a, g, s, r, k)
<1> SUFFICES
      ASSUME Len(a) + r = MaxChars, k <= Len(s), k <= r, k = Len(s) \/ k = r,
             Len(a) <= Len(g), \A i \in 1..Len(a) : a[i] = g[i], a = g \/ Len(a) = MaxChars
      PROVE  /\ a \o SubSeq(s, 1, k) \in Text
             /\ Len(a \o SubSeq(s, 1, k)) <= MaxChars
             /\ Len(a \o SubSeq(s, 1, k)) <= Len(g \o s)
             /\ \A i \in 1..Len(a \o SubSeq(s, 1, k)) : (a \o SubSeq(s, 1, k))[i] = (g \o s)[i]
             /\ r = 0 \/ Len(s) > r => Len(a \o SubSeq(s, 1, k)) = MaxChars
             /\ ~(r = 0 \/ Len(s) > r) /\ a = g => a \o SubSeq(s, 1, k) = g \o s
  BY DEF GrowsInside
<1>0. PICK b : b = a \o SubSeq(s, 1, k)  OBVIOUS
<1>1. PICK m \in Nat, n \in Nat, l \in Nat : m = Len(a) /\ n = Len(s) /\ l = Len(g)
  BY DEF Text
<1>2. k <= n /\ k <= r /\ (k = n \/ k = r) /\ MaxChars \in Nat
  BY <1>1, ObserverAssumption DEF ObserverAssumption
<1>3. /\ SubSeq(s, 1, k) \in Text /\ Len(SubSeq(s, 1, k)) = k
      /\ \A i \in 1..k : SubSeq(s, 1, k)[i] = s[i]
  BY <1>1, <1>2 DEF Text
<1>4. b \in Text /\ Len(b) = m + k /\ \A i \in 1..m : b[i] = a[i]
  BY <1>0, <1>1, <1>3 DEF Text
<1>5. \A i \in m + 1..m + k : b[i] = s[i - m]
  BY <1>0, <1>1, <1>3 DEF Text
<1>6. g \o s \in Text /\ Len(g \o s) = l + n /\ \A i \in 1..l : (g \o s)[i] = g[i]
  BY <1>1 DEF Text
<1>7. \A i \in l + 1..l + n : (g \o s)[i] = s[i - l]
  BY <1>1 DEF Text
<1>8. m <= l /\ m <= MaxChars /\ m + r = MaxChars  BY <1>1
<1>9. k = 0 \/ m = l
  BY <1>1, <1>2, <1>8
<1>10. \A i \in 1..m : a[i] = g[i]
  BY <1>1, <1>8
<1>11. \A i \in 1..m + k : b[i] = (g \o s)[i]
  <2> SUFFICES ASSUME NEW i \in 1..m + k  PROVE b[i] = (g \o s)[i]
    OBVIOUS
  <2>1. CASE i <= m  BY <2>1, <1>4, <1>6, <1>8, <1>10
  <2>2. CASE i > m
    <3>1. m = l /\ i \in m + 1..m + k  BY <2>2, <1>9
    <3>2. i \in l + 1..l + n  BY <3>1, <1>2
    <3>3. b[i] = s[i - m]  BY <3>1, <1>5
    <3>4. (g \o s)[i] = s[i - m]  BY <3>1, <3>2, <1>7
    <3> QED  BY <3>3, <3>4
  <2>3. i <= m \/ i > m  BY ONLY <1>1, k \in Nat, i \in 1..m + k
  <2> QED  BY ONLY <2>1, <2>2, <2>3
<1>12. m + k <= l + n /\ m + k <= MaxChars  BY <1>2, <1>8
<1>13. r = 0 \/ n > r => m + k = MaxChars
  BY <1>1, <1>8, <1>2
<1>14. ASSUME ~(r = 0 \/ n > r), a = g  PROVE b = g \o s
  <2>1. n <= r  BY <1>14, <1>1
  <2>2. k = n
    BY ONLY <2>1, <1>1, <1>2, r \in Nat
  <2>3. m = l  BY <1>14, <1>1
  <2>4. Len(b) = Len(g \o s) /\ \A i \in 1..Len(b) : b[i] = (g \o s)[i]
    BY <2>2, <2>3, <1>4, <1>6, <1>11
  <2> QED  BY ONLY <2>4, <1>4, <1>6, SeqEqual DEF Text
<1> QED  BY <1>0, <1>1, <1>4, <1>6, <1>11, <1>12, <1>13, <1>14

\* The fields of a delta.
LEMMA DeltaFields ==
    ASSUME NEW c \in ModelCalls, NEW e \in Deltas(c), names \in {"index", "id", "any"}
    PROVE  /\ e.call = c
           /\ e.index \in {IndexOf[c], Absent} /\ e.id \in {IdOf[c], Absent}
           /\ names = "index" => e.index = IndexOf[c]
           /\ names = "id" => e.id = IdOf[c]
           /\ e.name \in {NameOf[c], Absent} /\ e.has \in BOOLEAN /\ e.chars \in Nat
           /\ e.has \/ e.chars = 0
<1>1. /\ e \in [call : {c},
            index : {IndexOf[c]} \cup IF names = "index" THEN {} ELSE {Absent},
            id : {IdOf[c]} \cup IF names = "id" THEN {} ELSE {Absent},
            name : {NameOf[c], Absent},
            has : BOOLEAN, chars : 0..MaxChars]
      /\ e.has \/ e.chars = 0
  BY DEF Deltas
<1>2. /\ e.call = c /\ e.has \in BOOLEAN /\ e.name \in {NameOf[c], Absent}
      /\ e.index \in {IndexOf[c]} \cup IF names = "index" THEN {} ELSE {Absent}
      /\ e.id \in {IdOf[c]} \cup IF names = "id" THEN {} ELSE {Absent}
      /\ e.chars \in 0..MaxChars
  BY <1>1
<1>3. e.chars \in Nat  BY <1>2, ObserverAssumption DEF ObserverAssumption
<1> QED  BY <1>1, <1>2, <1>3

\* Where neither name is an alias, only a draft without an index can be found, by the
\* name of its tool, and not under a provider that always gives one of the names.
LEMMA FoundByFields ==
    ASSUME ChatInv, NEW c \in ModelCalls, NEW e \in Deltas(c),
           e.index \notin DOMAIN aliases, e.id \notin DOMAIN aliases,
           NEW f, f = FindByFields(e)
    PROVE  /\ f \in 0..Len(drafts)
           /\ f # 0 => drafts[f].index = Absent /\ names = "any"
<1>0. /\ drafts \in Seq(Draft) /\ names \in {"index", "id", "any"} /\ NamesKnown /\ CallByName
      /\ IndexOf[c] # Absent /\ IdOf[c] # Absent
  BY ObserverAssumption DEF ChatInv, ChatTypeOK, ObserverAssumption
<1>1. DOMAIN drafts = 1..Len(drafts) /\ Len(drafts) \in Nat  BY <1>0
<1>2. ASSUME e.index # Absent
      PROVE {i \in DOMAIN drafts : drafts[i].index = e.index /\ drafts[i].id = Absent} = {}
  BY <1>0, <1>2 DEF NamesKnown
<1>3. ASSUME e.id # Absent  PROVE {i \in DOMAIN drafts : drafts[i].id = e.id} = {}
  BY <1>0, <1>3 DEF NamesKnown
<1>4. ASSUME e.index # Absent, e.id # Absent
      PROVE {i \in DOMAIN drafts : drafts[i].index = e.index \/ drafts[i].id = e.id} = {}
  BY <1>0, <1>4 DEF NamesKnown
<1> DEFINE S == {i \in DOMAIN drafts : /\ drafts[i].index = Absent /\ drafts[i].id # Absent
                                       /\ e.name # Absent /\ drafts[i].name = e.name}
<1>5. Candidate(e) = IF Cardinality(S) = 1 THEN First(S) ELSE 0
  BY DEF Candidate, Positions
<1>6. IsFiniteSet(S)
  <2>1. IsFiniteSet(1..Len(drafts))  BY <1>1, FS_Interval
  <2> QED  BY <1>1, <2>1, FS_Subset
<1>7. Candidate(e) = 0 \/ Candidate(e) \in S
  <2>1. CASE Cardinality(S) = 1
    <3>1. PICK i : S = {i}  BY <1>6, <2>1, FS_Singleton
    <3>2. i \in Nat /\ i <= i  BY <1>1, <3>1
    <3>3. First(S) = i  BY <3>1, <3>2 DEF First
    <3> QED  BY <1>5, <2>1, <3>1, <3>3
  <2> QED  BY <1>5, <2>1
<1>8. f = 0 \/ (f = Candidate(e) /\ e.index # Absent /\ e.id = Absent)
  <2>1. CASE e.index # Absent /\ e.id = Absent
    BY <2>1, <1>2 DEF FindByFields, Positions, First
  <2>2. CASE e.index = Absent /\ e.id # Absent
    BY <2>2, <1>3 DEF FindByFields, Positions, First
  <2>3. CASE e.index # Absent /\ e.id # Absent
    BY <2>3, <1>4 DEF FindByFields, Positions, First
  <2>4. CASE e.index = Absent /\ e.id = Absent
    BY <2>4 DEF FindByFields
  <2> QED  BY <2>1, <2>2, <2>3, <2>4
<1>9. SUFFICES ASSUME f # 0  PROVE f \in DOMAIN drafts /\ drafts[f].index = Absent /\ names = "any"
  BY <1>1
<1>10. f \in S /\ e.id = Absent  BY <1>7, <1>8, <1>9
<1>11. f \in DOMAIN drafts /\ drafts[f].index = Absent  BY <1>10
<1>12. ASSUME names # "any"  PROVE FALSE
  <2>1. names # "id"  BY <1>0, <1>10, DeltaFields
  <2>2. \E d \in ModelCalls : drafts[f].index = IndexOf[d]
    BY <1>0, <1>11, <1>12, <2>1 DEF CallByName, NamesOf
  <2> QED  BY <1>11, <2>2, ObserverAssumption DEF ObserverAssumption
<1> QED  BY <1>0, <1>11, <1>12

\* The draft a delta is given to, or 0: then its names are new.
LEMMA DraftFound ==
    ASSUME ChatInv, NEW c \in ModelCalls, NEW e \in Deltas(c), NEW f, f = FindDraft(e)
    PROVE  /\ f \in 0..Len(drafts)
           /\ f = 0 => e.index \notin DOMAIN aliases /\ e.id \notin DOMAIN aliases
           /\ f # 0 /\ drafts[f].index = Absent => e.index \notin DOMAIN aliases
           /\ f # 0 /\ names # "any" => drafts[f].of = {c}
<1>0. /\ drafts \in Seq(Draft) /\ Len(drafts) \in Nat /\ names \in {"index", "id", "any"}
      /\ \A n \in DOMAIN aliases : aliases[n] \in 1..Len(drafts)
      /\ DOMAIN aliases \subseteq Named /\ IndexTaken /\ CallByName
  BY DEF ChatInv, ChatTypeOK
<1>1. e.index \in {IndexOf[c], Absent} /\ e.id \in {IdOf[c], Absent}
  BY <1>0, DeltaFields
<1>2. Absent \notin DOMAIN aliases
  BY <1>0, ObserverAssumption DEF Named, ObserverAssumption
<1>3. CASE e.index \in DOMAIN aliases
  <2>1. f = aliases[e.index] /\ e.index = IndexOf[c]  BY <1>1, <1>2, <1>3 DEF FindDraft
  <2>2. f \in 1..Len(drafts) /\ f # 0  BY <1>0, <1>3, <2>1
  <2>3. drafts[f].index # Absent  BY <1>0, <1>3, <2>1 DEF IndexTaken
  <2>4. names # "any" => drafts[f].of = {c}  BY <1>0, <1>3, <2>1 DEF CallByName
  <2> QED  BY <2>2, <2>3, <2>4
<1>4. CASE e.index \notin DOMAIN aliases /\ e.id \in DOMAIN aliases
  <2>1. f = aliases[e.id] /\ e.id = IdOf[c]  BY <1>1, <1>2, <1>4 DEF FindDraft
  <2>2. f \in 1..Len(drafts) /\ f # 0  BY <1>0, <1>4, <2>1
  <2>3. names # "any" => drafts[f].of = {c}  BY <1>0, <1>4, <2>1 DEF CallByName
  <2> QED  BY <1>4, <2>2, <2>3
<1>5. CASE e.index \notin DOMAIN aliases /\ e.id \notin DOMAIN aliases
  <2>1. f = FindByFields(e)  BY <1>5 DEF FindDraft
  <2> QED  BY <1>5, <2>1, FoundByFields
<1> QED  BY <1>3, <1>4, <1>5

\* The characters of a delta are those that follow what its call has shown.
LEMMA CharactersType ==
    ASSUME ChatTypeOK, NEW c \in ModelCalls, NEW e \in Deltas(c)
    PROVE  Characters(e) \in Seq(ModelCalls \X Nat) /\ Len(Characters(e)) = e.chars
<1>1. e.call = c /\ e.chars \in Nat  BY DeltaFields DEF ChatTypeOK
<1>2. Len(given[c]) \in Nat  BY DEF ChatTypeOK
<1>3. Characters(e) = [n \in 1..e.chars |-> <<c, Len(given[c]) + n>>]
  BY <1>1 DEF Characters
<1>4. \A n \in 1..e.chars : <<c, Len(given[c]) + n>> \in ModelCalls \X Nat
  BY <1>1, <1>2
<1>5. Characters(e) \in [1..e.chars -> ModelCalls \X Nat]
  BY <1>3, <1>4
<1> QED  BY <1>1, <1>5

\* What a delta makes of a draft with arguments within the limit.
LEMMA UpdatedFields ==
    ASSUME ChatTypeOK, NEW c \in ModelCalls, NEW e \in Deltas(c),
           NEW d \in Draft, Len(d.arguments) <= MaxChars,
           NEW u, u = Updated(d, e)
    PROVE  /\ u \in Draft /\ Len(u.arguments) <= MaxChars
           /\ u.index = Or(d.index, e.index) /\ u.id = Or(d.id, e.id)
           /\ u.finished <=> d.finished
           /\ u.of = d.of \cup {c}
<1> DEFINE X == ModelCalls \X Nat
           s == Characters(e)
           r == MaxChars - Len(d.arguments)
           k == IF Len(s) < r THEN Len(s) ELSE r
           b == d.arguments \o SubSeq(s, 1, k)
<1>1. /\ e.call = c /\ e.index \in {IndexOf[c], Absent} /\ e.id \in {IdOf[c], Absent}
      /\ e.name \in {NameOf[c], Absent}
  BY DeltaFields DEF ChatTypeOK
<1>2. /\ d.index \in {IndexOf[x] : x \in ModelCalls} \cup {Absent}
      /\ d.id \in {IdOf[x] : x \in ModelCalls} \cup {Absent}
      /\ d.name \in {NameOf[x] : x \in ModelCalls} \cup {Absent}
      /\ d.arguments \in Seq(X) /\ d.of \in SUBSET ModelCalls
  BY DEF Draft
<1>3. d.truncated \in BOOLEAN /\ d.finished \in BOOLEAN  BY DEF Draft
<1>4. s \in Seq(X)  BY CharactersType
<1>5. r \in Nat /\ k \in Nat /\ k <= Len(s) /\ k <= r
  <2> HIDE DEF s, X
  <2>1. PICK l \in Nat, m \in Nat : l = Len(s) /\ m = Len(d.arguments)  BY <1>2, <1>4
  <2>2. r \in Nat  BY <2>1, ObserverAssumption DEF ObserverAssumption
  <2> HIDE DEF r
  <2>3. k = IF l < r THEN l ELSE r  BY <2>1
  <2> QED  BY <2>1, <2>2, <2>3
<1>6. b \in Seq(X) /\ Len(b) <= MaxChars
  <2> HIDE DEF k, s
  <2>1. SubSeq(s, 1, k) \in Seq(X) /\ Len(SubSeq(s, 1, k)) = k  BY <1>4, <1>5
  <2>2. b \in Seq(X) /\ Len(b) = Len(d.arguments) + k  BY <1>2, <2>1
  <2>3. PICK m \in Nat : m = Len(d.arguments)  BY <1>2
  <2>4. MaxChars \in Nat  BY ObserverAssumption DEF ObserverAssumption
  <2>5. r = MaxChars - m /\ Len(b) = m + k  BY <2>2, <2>3
  <2>6. m + k <= MaxChars
    <3> HIDE DEF r
    <3> QED  BY <2>3, <2>4, <2>5, <1>5
  <2> HIDE DEF b
  <2> QED  BY <2>2, <2>5, <2>6
<1>7. Appended(d, s) = b  BY DEF Appended, Room
<1> DEFINE a == IF e.has THEN Appended(d, s) ELSE d.arguments
           t == d.truncated \/ (e.has /\ Truncates(d, s))
<1>8. a \in Seq(X) /\ Len(a) <= MaxChars
  <2> HIDE DEF b, s, X
  <2> QED  BY <1>2, <1>6, <1>7
<1>9. t \in BOOLEAN  OBVIOUS
<1>10. u = [index |-> Or(d.index, e.index), id |-> Or(d.id, e.id), name |-> Or(d.name, e.name),
            arguments |-> a, truncated |-> t, finished |-> d.finished, of |-> d.of \cup {c}]
  BY <1>1 DEF Updated
<1>11. /\ Or(d.index, e.index) \in {IndexOf[x] : x \in ModelCalls} \cup {Absent}
       /\ Or(d.id, e.id) \in {IdOf[x] : x \in ModelCalls} \cup {Absent}
       /\ Or(d.name, e.name) \in {NameOf[x] : x \in ModelCalls} \cup {Absent}
       /\ d.of \cup {c} \in SUBSET ModelCalls
  BY <1>1, <1>2 DEF Or
<1> HIDE DEF a, t, s, r, k, b
<1>12. u \in Draft
  BY <1>3, <1>8, <1>9, <1>10, <1>11 DEF Draft
<1>13. u.arguments = a  BY <1>10
<1>14. u.finished <=> d.finished  BY <1>3, <1>10
<1>15. u.index = Or(d.index, e.index) /\ u.id = Or(d.id, e.id) /\ u.of = d.of \cup {c}
  BY <1>10
<1> QED  BY <1>8, <1>12, <1>13, <1>14, <1>15

\* The arguments of a draft stay within what its call has shown, and are all of it unless
\* they were cut.
LEMMA UpdatedArguments ==
    ASSUME ChatTypeOK, NEW c \in ModelCalls, NEW e \in Deltas(c),
           NEW d \in Draft, Len(d.arguments) <= MaxChars,
           ArgumentsIn(d, given[c], TRUE),
           NEW u, u = Updated(d, e),
           NEW g, g = given[c] \o Characters(e)
    PROVE  ArgumentsIn(u, g, TRUE)
<1> DEFINE X == ModelCalls \X Nat
           s == Characters(e)
           r == MaxChars - Len(d.arguments)
           k == IF Len(s) < r THEN Len(s) ELSE r
           b == d.arguments \o SubSeq(s, 1, k)
           h == given[c]
           a == IF e.has THEN Appended(d, s) ELSE d.arguments
           t == d.truncated \/ (e.has /\ Truncates(d, s))
<1>1. d.arguments \in Seq(X) /\ h \in Seq(X) /\ s \in Seq(X) /\ MaxChars \in Nat
  BY CharactersType, ObserverAssumption DEF Draft, ChatTypeOK, ObserverAssumption
<1>2. r \in Nat /\ k \in Nat
  BY <1>1
<1>3. /\ Len(d.arguments) <= Len(h)
      /\ \A n \in 1..Len(d.arguments) : d.arguments[n] = h[n]
      /\ d.truncated => Len(d.arguments) = MaxChars
      /\ ~d.truncated => d.arguments = h
  BY DEF ArgumentsIn
<1>4. u = [index |-> Or(d.index, e.index), id |-> Or(d.id, e.id), name |-> Or(d.name, e.name),
           arguments |-> a, truncated |-> t, finished |-> d.finished,
           of |-> d.of \cup {e.call}]
  BY DEF Updated
<1>5. (u.arguments = a) /\ (u.truncated <=> t)
  <2> HIDE DEF a, t
  <2> QED  BY <1>4
<1>6. t <=> d.truncated \/ (e.has /\ (r = 0 \/ Len(s) > r))
  BY DEF Truncates, Room
<1>7. CASE e.has
  <2>1. a = b  BY <1>7 DEF Appended, Room
  <2>2. d.arguments = h \/ Len(d.arguments) = MaxChars  BY <1>3
  <2> HIDE DEF a, s, h, X, t
  <2>3. /\ Len(b) <= MaxChars /\ Len(b) <= Len(h \o s) /\ Len(b) \in Nat
        /\ \A i \in 1..Len(b) : b[i] = (h \o s)[i]
        /\ r = 0 \/ Len(s) > r => Len(b) = MaxChars
        /\ ~(r = 0 \/ Len(s) > r) /\ d.arguments = h => b = h \o s
    <3>1. /\ b \in Seq(X)
          /\ Len(b) <= MaxChars /\ Len(b) <= Len(h \o s)
          /\ \A i \in 1..Len(b) : b[i] = (h \o s)[i]
          /\ r = 0 \/ Len(s) > r => Len(b) = MaxChars
          /\ ~(r = 0 \/ Len(s) > r) /\ d.arguments = h => b = h \o s
      <4> HIDE DEF r, k, b
      <4>1. r = MaxChars - Len(d.arguments) /\ k = IF Len(s) < r THEN Len(s) ELSE r
        BY DEF r, k
      <4>2. b = d.arguments \o SubSeq(s, 1, k)  BY DEF b
      <4>3. Len(d.arguments) <= Len(h)  BY <1>3
      <4>4. \A n \in 1..Len(d.arguments) : d.arguments[n] = h[n]  BY <1>3
      <4>5. PICK q, m, n, i : q = h /\ m = s /\ n = r /\ i = k  OBVIOUS
      <4>6. /\ d.arguments \in Text /\ q \in Text /\ m \in Text /\ MaxChars \in Nat
            /\ n \in Nat /\ i \in Nat
        BY ONLY <1>1, <1>2, <4>5 DEF Text, X
      <4>7. PICK x \in Nat, y \in Nat : x = Len(d.arguments) /\ y = Len(m)  BY <4>6 DEF Text
      <4>8. (n = MaxChars - x) /\ (y < n => i = y) /\ (~(y < n) => i = n)
        BY ONLY <4>1, <4>5, <4>7
      <4>9. x + n = MaxChars /\ i <= y /\ i <= n /\ (i = y \/ i = n)
        <5>1. x \in Nat /\ y \in Nat /\ n \in Nat /\ i \in Nat /\ MaxChars \in Nat
          BY ONLY <4>6, <4>7
        <5> QED  BY ONLY <4>8, <5>1
      <4>10. /\ Len(d.arguments) + n = MaxChars /\ i <= Len(m) /\ i <= n
             /\ i = Len(m) \/ i = n
        BY ONLY <4>7, <4>9
      <4>11. /\ Len(d.arguments) <= Len(q) /\ \A z \in 1..Len(d.arguments) : d.arguments[z] = q[z]
             /\ d.arguments = q \/ Len(d.arguments) = MaxChars
        BY ONLY <2>2, <4>3, <4>4, <4>5
      <4> DEFINE j == d.arguments \o SubSeq(m, 1, i)
      <4>12. /\ j \in Text /\ Len(j) <= MaxChars /\ Len(j) <= Len(q \o m)
             /\ \A z \in 1..Len(j) : j[z] = (q \o m)[z]
             /\ n = 0 \/ Len(m) > n => Len(j) = MaxChars
             /\ ~(n = 0 \/ Len(m) > n) /\ d.arguments = q => j = q \o m
        <5>1. GrowsInside(d.arguments, q, m, n, i)  BY ONLY <4>6, PrefixGrows
        <5> QED  BY ONLY <5>1, <4>10, <4>11 DEF GrowsInside
      <4>13. j = b  BY ONLY <4>2, <4>5
      <4> HIDE DEF j
      <4> QED  BY ONLY <4>5, <4>12, <4>13 DEF Text, X
    <3>2. Len(b) \in Nat
      <4> HIDE DEF b
      <4> QED  BY <3>1
    <3> HIDE DEF b, r
    <3> QED  BY <3>1, <3>2
  <2>4. Len(d.arguments) = MaxChars => r = 0  BY <1>1
  <2>5. t => Len(b) = MaxChars
    BY <1>3, <1>6, <1>7, <2>3, <2>4
  <2>6. ~t => b = h \o s
    BY <1>3, <1>6, <1>7, <2>3
  <2>7. g = h \o s  BY DEF h, s
  <2> HIDE DEF b
  <2> QED  BY <1>5, <2>1, <2>3, <2>5, <2>6, <2>7 DEF ArgumentsIn
<1>8. CASE ~e.has
  <2>1. e.chars = 0  BY <1>8, DeltaFields DEF ChatTypeOK
  <2>2. Len(s) = 0  BY <2>1, CharactersType
  <2>3. g = h
    <3> HIDE DEF s, h, X
    <3>1. h \o s \in Seq(X) /\ Len(h \o s) = Len(h) /\ \A i \in 1..Len(h \o s) : (h \o s)[i] = h[i]
      BY <1>1, <2>2
    <3>2. h \o s = h  BY <1>1, <3>1, SeqEqual
    <3> QED  BY <3>2 DEF h, s
  <2>4. a = d.arguments  BY <1>8
  <2>5. t <=> d.truncated  BY <1>6, <1>8
  <2> HIDE DEF a, t, h
  <2> QED  BY <1>3, <1>5, <2>3, <2>4, <2>5 DEF ArgumentsIn
<1> QED  BY <1>7, <1>8

\* Draft i, which is d and one the delta was found to belong to, or is new.
GoesTo(c, e, i, d) ==
    \/ /\ i \in DOMAIN drafts /\ d = drafts[i]
       /\ d.index = Absent => e.index \notin DOMAIN aliases
       /\ names # "any" => d.of = {c}
    \/ /\ i = Len(drafts) + 1 /\ d = NewDraft(e)
       /\ e.index \notin DOMAIN aliases /\ e.id \notin DOMAIN aliases

\* What is common to the steps that give delta e of call c to draft i.
Takes(c, e, i, d, u) ==
    /\ KeysOf(e) # {} /\ ~over
    /\ GoesTo(c, e, i, d) /\ i \in 1..MaxDrafts
    /\ d \in Draft /\ Len(d.arguments) <= MaxChars
    /\ u = Updated(d, e)
    /\ drafts' \in Seq(Draft) /\ DOMAIN drafts' = DOMAIN drafts \cup {i}
    /\ Len(drafts') <= MaxDrafts /\ Len(drafts) <= Len(drafts')
    /\ drafts'[i] = u
    /\ \A j \in DOMAIN drafts : j # i => drafts'[j] = drafts[j]
    /\ aliases' = Alias(e, i)
    /\ given' = [given EXCEPT ![c] = @ \o Characters(e)]
    /\ frames' \in Nat /\ frames <= frames' /\ frames' <= MaxFrames
    /\ deltas' \in 0..MaxDeltas
    /\ UNCHANGED <<names, over, doneSeen>>

\* The aliases after it.
LEMMA AliasTaken ==
    ASSUME ChatInv, NEW c \in ModelCalls, NEW e \in Deltas(c), NEW i, NEW d, NEW u,
           Takes(c, e, i, d, u)
    PROVE  /\ DOMAIN aliases' = DOMAIN aliases \cup KeysOf(e)
           /\ \A n \in KeysOf(e) : aliases'[n] = i
           /\ \A n \in DOMAIN aliases : n \notin KeysOf(e) => aliases'[n] = aliases[n]
           /\ KeysOf(e) \subseteq {IndexOf[c], IdOf[c]} /\ Absent \notin KeysOf(e)
           /\ e.index # Absent => e.index \in KeysOf(e)
           /\ e.id # Absent => e.id \in KeysOf(e)
           /\ IndexOf[c] \in KeysOf(e) => e.index = IndexOf[c]
           /\ Absent \notin DOMAIN aliases
<1>1. e.index \in {IndexOf[c], Absent} /\ e.id \in {IdOf[c], Absent}
  BY DeltaFields DEF ChatInv, ChatTypeOK
<1>2. IndexOf[c] # IdOf[c] /\ IndexOf[c] # Absent /\ IdOf[c] # Absent
  BY ObserverAssumption DEF ObserverAssumption
<1>3. aliases' = [n \in DOMAIN aliases \cup KeysOf(e) |-> IF n \in KeysOf(e) THEN i ELSE aliases[n]]
  BY DEF Takes, Alias
<1>4. Absent \notin DOMAIN aliases
  BY ObserverAssumption DEF ChatInv, ChatTypeOK, Named, ObserverAssumption
<1>5. /\ KeysOf(e) \subseteq {IndexOf[c], IdOf[c]} /\ Absent \notin KeysOf(e)
      /\ e.index # Absent => e.index \in KeysOf(e)
      /\ e.id # Absent => e.id \in KeysOf(e)
      /\ IndexOf[c] \in KeysOf(e) => e.index = IndexOf[c]
  BY <1>1, <1>2 DEF KeysOf
<1> QED  BY <1>3, <1>4, <1>5

\* The draft after it.
LEMMA DraftTaken ==
    ASSUME ChatInv, NEW c \in ModelCalls, NEW e \in Deltas(c), NEW i, NEW d, NEW u,
           Takes(c, e, i, d, u)
    PROVE  /\ u \in Draft /\ Len(u.arguments) <= MaxChars
           /\ u.index = (IF d.index = Absent THEN e.index ELSE d.index)
           /\ u.id = (IF d.id = Absent THEN e.id ELSE d.id)
           /\ u.finished <=> d.finished
           /\ u.of = d.of \cup {c}
  BY UpdatedFields DEF ChatInv, Takes, Or

\* It keeps types and limits.
LEMMA TakesType ==
    ASSUME ChatInv, NEW c \in ModelCalls, NEW e \in Deltas(c), NEW i, NEW d, NEW u,
           Takes(c, e, i, d, u)
    PROVE  ChatTypeOK'
<1>0. /\ DOMAIN aliases' = DOMAIN aliases \cup KeysOf(e)
      /\ \A n \in KeysOf(e) : aliases'[n] = i
      /\ \A n \in DOMAIN aliases : n \notin KeysOf(e) => aliases'[n] = aliases[n]
      /\ KeysOf(e) \subseteq {IndexOf[c], IdOf[c]}
  BY AliasTaken
<1>1. names' \in {"index", "id", "any"} /\ over' \in BOOLEAN /\ doneSeen' \in BOOLEAN
  BY DEF ChatInv, ChatTypeOK, Takes
<1>2. drafts' \in Seq(Draft) /\ Len(drafts') <= MaxDrafts  BY DEF Takes
<1>3. ASSUME NEW j \in DOMAIN drafts'  PROVE Len(drafts'[j].arguments) <= MaxChars
  <2>1. CASE j = i
    <3>1. drafts'[i] = u  BY DEF Takes
    <3>2. Len(u.arguments) <= MaxChars  BY DraftTaken
    <3> QED  BY <2>1, <3>1, <3>2
  <2>2. CASE j # i
    <3>1. j \in DOMAIN drafts /\ drafts'[j] = drafts[j]  BY <1>3, <2>2 DEF Takes
    <3> QED  BY <3>1 DEF ChatInv, ChatTypeOK
  <2> QED  BY <2>1, <2>2
<1>4. DOMAIN aliases' \subseteq Named
  <2>1. {IndexOf[c], IdOf[c]} \subseteq Named  BY DEF Named
  <2>2. DOMAIN aliases \subseteq Named  BY DEF ChatInv, ChatTypeOK
  <2> QED  BY <1>0, <2>1, <2>2
<1>5. ASSUME NEW n \in DOMAIN aliases'  PROVE aliases'[n] \in 1..Len(drafts')
  <2>1. DOMAIN drafts' = 1..Len(drafts')  BY <1>2
  <2>2. CASE n \in KeysOf(e)
    <3>1. i \in DOMAIN drafts'  BY DEF Takes
    <3> QED  BY <1>0, <2>1, <2>2, <3>1
  <2>3. CASE n \notin KeysOf(e)
    <3>1. n \in DOMAIN aliases /\ aliases'[n] = aliases[n]  BY <1>0, <1>5, <2>3
    <3>2. aliases[n] \in DOMAIN drafts  BY <3>1 DEF ChatInv, ChatTypeOK
    <3> QED  BY <2>1, <3>1, <3>2 DEF Takes
  <2> QED  BY <2>2, <2>3
<1>6. given' \in [ModelCalls -> Seq(ModelCalls \X Nat)]
  <2>1. given[c] \o Characters(e) \in Seq(ModelCalls \X Nat)
    BY CharactersType DEF ChatInv, ChatTypeOK
  <2>2. given \in [ModelCalls -> Seq(ModelCalls \X Nat)]  BY DEF ChatInv, ChatTypeOK
  <2>3. given' = [given EXCEPT ![c] = given[c] \o Characters(e)]  BY DEF Takes
  <2> QED  BY <2>1, <2>2, <2>3
<1>7. deltas' \in 0..MaxDeltas /\ frames' \in 0..MaxFrames + 1
  BY ObserverAssumption DEF ObserverAssumption, Takes
<1> QED  BY <1>1, <1>2, <1>3, <1>4, <1>5, <1>6, <1>7 DEF ChatTypeOK

\* The key of the draft stays what it was or is new to the aliases.
LEMMA TakesNames ==
    ASSUME ChatInv, NEW c \in ModelCalls, NEW e \in Deltas(c), NEW i, NEW d, NEW u,
           Takes(c, e, i, d, u)
    PROVE  NamesKnown' /\ IndexTaken' /\ KeysDistinct' /\ EndsTrue'
<1>0. /\ DOMAIN drafts' = DOMAIN drafts \cup {i} /\ drafts'[i] = u
      /\ \A j \in DOMAIN drafts : j # i => drafts'[j] = drafts[j]
  BY DEF Takes
<1>1. /\ u.index = (IF d.index = Absent THEN e.index ELSE d.index)
      /\ u.id = (IF d.id = Absent THEN e.id ELSE d.id)
      /\ u.finished <=> d.finished
  BY DraftTaken
<1>2. /\ DOMAIN aliases' = DOMAIN aliases \cup KeysOf(e)
      /\ \A n \in KeysOf(e) : aliases'[n] = i
      /\ \A n \in DOMAIN aliases : n \notin KeysOf(e) => aliases'[n] = aliases[n]
      /\ e.index # Absent => e.index \in KeysOf(e)
      /\ e.id # Absent => e.id \in KeysOf(e)
      /\ KeysOf(e) \subseteq {IndexOf[c], IdOf[c]}
      /\ IndexOf[c] \in KeysOf(e) => e.index = IndexOf[c]
      /\ Absent \notin DOMAIN aliases
  BY AliasTaken
<1>3. drafts \in Seq(Draft) /\ DOMAIN drafts = 1..Len(drafts) /\ Len(drafts) \in Nat
  BY DEF ChatInv, ChatTypeOK
<1>4. \/ /\ i \in DOMAIN drafts /\ d = drafts[i]
         /\ d.index = Absent => e.index \notin DOMAIN aliases
      \/ /\ i \notin DOMAIN drafts /\ d.index = e.index /\ d.id = e.id
         /\ e.index \notin DOMAIN aliases /\ e.id \notin DOMAIN aliases
         /\ d.finished <=> FALSE
  BY <1>3 DEF Takes, GoesTo, NewDraft
<1>5. e.index # Absent \/ e.id # Absent  BY DEF Takes, KeysOf
<1>6. /\ u.index # Absent \/ u.id # Absent
      /\ u.index # Absent => u.index \in DOMAIN aliases'
      /\ u.id # Absent => u.id \in DOMAIN aliases'
  BY <1>1, <1>2, <1>4, <1>5 DEF ChatInv, NamesKnown
<1>7. NamesKnown'
  BY <1>0, <1>2, <1>6 DEF ChatInv, NamesKnown
<1>8. IndexTaken'
  <2> SUFFICES ASSUME NEW x \in ModelCalls, IndexOf[x] \in DOMAIN aliases'
               PROVE  drafts'[aliases'[IndexOf[x]]].index # Absent
    BY DEF IndexTaken
  <2>1. CASE IndexOf[x] \in KeysOf(e)
    <3>1. x = c
      BY <1>2, <2>1, ObserverAssumption DEF ObserverAssumption
    <3>2. e.index # Absent  BY <1>2, <2>1, <3>1, ObserverAssumption DEF ObserverAssumption
    <3>3. u.index # Absent  BY <1>1, <3>2
    <3> QED  BY <1>0, <1>2, <2>1, <3>3
  <2>2. CASE IndexOf[x] \notin KeysOf(e)
    <3> DEFINE k == aliases[IndexOf[x]]
    <3>1. IndexOf[x] \in DOMAIN aliases /\ aliases'[IndexOf[x]] = k  BY <1>2, <2>2
    <3>2. k \in DOMAIN drafts  BY <3>1 DEF ChatInv, ChatTypeOK
    <3>3. drafts[k].index # Absent  BY <3>1 DEF ChatInv, IndexTaken
    <3>4. CASE k = i
      <4>1. d = drafts[i]  BY <3>2, <3>4, <1>4
      <4> QED  BY <1>0, <1>1, <3>1, <3>3, <3>4, <4>1
    <3>5. CASE k # i  BY <1>0, <3>1, <3>2, <3>3, <3>5
    <3> QED  BY <3>4, <3>5
  <2> QED  BY <2>1, <2>2
<1>9. KeysDistinct'
  <2>1. ASSUME NEW j \in DOMAIN drafts  PROVE KeyPart(drafts[j]) \in DOMAIN aliases
    BY <2>1 DEF ChatInv, NamesKnown, KeyPart
  <2>2. \/ i \in DOMAIN drafts /\ KeyPart(u) = KeyPart(drafts[i])
        \/ KeyPart(u) \notin DOMAIN aliases
    BY <1>1, <1>4, <1>5 DEF KeyPart, ChatInv, NamesKnown
  <2>3. ASSUME NEW j \in DOMAIN drafts, j # i  PROVE KeyPart(u) # KeyPart(drafts[j])
    BY <2>1, <2>2, <2>3 DEF ChatInv, KeysDistinct
  <2>4. \A x \in DOMAIN drafts' : x # i => x \in DOMAIN drafts /\ KeyPart(drafts'[x]) = KeyPart(drafts[x])
    BY <1>0
  <2>5. KeyPart(drafts'[i]) = KeyPart(u)  BY <1>0
  <2>6. ASSUME NEW x \in DOMAIN drafts', NEW y \in DOMAIN drafts', x # y
        PROVE KeyPart(drafts'[x]) # KeyPart(drafts'[y])
    <3>1. CASE x = i  BY <2>3, <2>4, <2>5, <2>6, <3>1
    <3>2. CASE y = i  BY <2>3, <2>4, <2>5, <2>6, <3>2
    <3>3. CASE x # i /\ y # i
      <4>1. KeyPart(drafts[x]) # KeyPart(drafts[y])
        BY <2>4, <2>6, <3>3 DEF ChatInv, KeysDistinct
      <4> QED  BY <2>4, <3>3, <4>1
    <3> QED  BY <3>1, <3>2, <3>3
  <2> QED  BY <2>6 DEF KeysDistinct, KeyPart
<1>10. EndsTrue'
  <2>1. ~over /\ over' = over /\ doneSeen' = doneSeen  BY DEF Takes
  <2>2. ~doneSeen /\ \A j \in DOMAIN drafts : ~drafts[j].finished
    BY <2>1 DEF ChatInv, EndsTrue
  <2>3. ~u.finished  BY <1>1, <1>4, <2>2
  <2>4. \A j \in DOMAIN drafts' : ~drafts'[j].finished  BY <1>0, <2>2, <2>3
  <2> QED  BY <2>1, <2>2, <2>4 DEF EndsTrue
<1> QED  BY <1>7, <1>8, <1>9, <1>10

\* No draft is of call c when a delta of it has found none.
LEMMA NewCall ==
    ASSUME ChatInv, names # "any", NEW c \in ModelCalls, NEW e \in Deltas(c),
           e.index \notin DOMAIN aliases, e.id \notin DOMAIN aliases
    PROVE  \A j \in DOMAIN drafts : drafts[j].of # {c}
<1> SUFFICES ASSUME NEW j \in DOMAIN drafts, drafts[j].of = {c}  PROVE FALSE
  OBVIOUS
<1>1. /\ names = "index" => e.index = IndexOf[c]
      /\ names = "id" => e.id = IdOf[c]
      /\ names \in {"index", "id", "any"}
  BY DeltaFields DEF ChatInv, ChatTypeOK
<1>2. PICK x \in ModelCalls : drafts[j].of = {x} /\ NamesOf(drafts[j], x)
  BY DEF ChatInv, CallByName
<1>3. x = c  BY <1>2
<1>4. IndexOf[c] # Absent /\ IdOf[c] # Absent
  BY ObserverAssumption DEF ObserverAssumption
<1> QED  BY <1>1, <1>2, <1>3, <1>4 DEF ChatInv, NamesKnown, NamesOf

\* The draft and its aliases are of the call whose delta it is.
LEMMA TakesCalls ==
    ASSUME ChatInv, NEW c \in ModelCalls, NEW e \in Deltas(c), NEW i, NEW d, NEW u,
           Takes(c, e, i, d, u)
    PROVE  CallByName' /\ NothingMissed'
<1> SUFFICES ASSUME names # "any"  PROVE CallByName' /\ NothingMissed'
  BY DEF Takes, CallByName, NothingMissed
<1>0. /\ DOMAIN drafts' = DOMAIN drafts \cup {i} /\ drafts'[i] = u
      /\ \A j \in DOMAIN drafts : j # i => drafts'[j] = drafts[j]
      /\ names' = names /\ doneSeen' = doneSeen
      /\ Len(drafts) <= Len(drafts')
  BY DEF Takes
<1>1. /\ u.index = (IF d.index = Absent THEN e.index ELSE d.index)
      /\ u.id = (IF d.id = Absent THEN e.id ELSE d.id)
      /\ u.of = d.of \cup {c}
  BY DraftTaken
<1>2. /\ DOMAIN aliases' = DOMAIN aliases \cup KeysOf(e)
      /\ \A n \in KeysOf(e) : aliases'[n] = i
      /\ \A n \in DOMAIN aliases : n \notin KeysOf(e) => aliases'[n] = aliases[n]
      /\ KeysOf(e) \subseteq {IndexOf[c], IdOf[c]}
  BY AliasTaken
<1>3. drafts \in Seq(Draft) /\ DOMAIN drafts = 1..Len(drafts) /\ Len(drafts) \in Nat
  BY DEF ChatInv, ChatTypeOK
<1>4. WholeSoFar /\ frames <= MaxFrames
  BY ObserverAssumption DEF Takes, ChatInv, ChatTypeOK, WholeSoFar, ObserverAssumption
<1>5. \/ i \in DOMAIN drafts /\ d = drafts[i] /\ d.of = {c}
      \/ /\ i \notin DOMAIN drafts /\ d = NewDraft(e) /\ Len(drafts) < MaxDrafts
         /\ \A j \in DOMAIN drafts : drafts[j].of # {c}
  <2>1. CASE i \in DOMAIN drafts /\ d = drafts[i] /\ d.of = {c}  BY <2>1
  <2>2. CASE /\ i = Len(drafts) + 1 /\ d = NewDraft(e)
             /\ e.index \notin DOMAIN aliases /\ e.id \notin DOMAIN aliases
    <3>1. \A j \in DOMAIN drafts : drafts[j].of # {c}  BY <2>2, NewCall
    <3>2. i \in 1..MaxDrafts /\ MaxDrafts \in Nat
      BY ObserverAssumption DEF Takes, ObserverAssumption
    <3>3. i \notin DOMAIN drafts /\ Len(drafts) < MaxDrafts  BY <1>3, <2>2, <3>2
    <3> QED  BY <2>2, <3>1, <3>3
  <2> QED  BY <2>1, <2>2 DEF Takes, GoesTo
<1>6. u.of = {c}  BY <1>1, <1>5 DEF NewDraft
<1>7. ASSUME NEW j \in DOMAIN drafts, j # i  PROVE drafts[j].of # {c}
  BY <1>5, <1>7 DEF ChatInv, CallByName
<1>8. NamesOf(d, c) /\ ArgumentsIn(d, given[c], TRUE)
  <2>1. CASE i \in DOMAIN drafts /\ d = drafts[i] /\ d.of = {c}
    <3>1. PICK x \in ModelCalls :
            drafts[i].of = {x} /\ NamesOf(drafts[i], x) /\ ArgumentsIn(drafts[i], given[x], WholeSoFar)
      BY <2>1 DEF ChatInv, CallByName
    <3>2. x = c  BY <2>1, <3>1
    <3>3. ArgumentsIn(d, given[c], TRUE)
      BY <1>4, <2>1, <3>1, <3>2 DEF ArgumentsIn
    <3> QED  BY <2>1, <3>1, <3>2, <3>3
  <2>2. CASE /\ i \notin DOMAIN drafts /\ d = NewDraft(e) /\ Len(drafts) < MaxDrafts
             /\ \A j \in DOMAIN drafts : drafts[j].of # {c}
    <3>1. given[c] = <<>>  BY <1>4, <2>2 DEF ChatInv, NothingMissed
    <3>2. /\ e.index \in {IndexOf[c], Absent} /\ e.id \in {IdOf[c], Absent}
          /\ names = "index" => e.index = IndexOf[c]
          /\ names = "id" => e.id = IdOf[c]
      BY DeltaFields DEF ChatInv, ChatTypeOK
    <3>3. NamesOf(d, c)  BY <2>2, <3>2 DEF NamesOf, NewDraft
    <3>4. d.arguments = <<>> /\ (d.truncated <=> FALSE)  BY <2>2 DEF NewDraft
    <3>5. ArgumentsIn(d, given[c], TRUE)  BY <3>1, <3>4 DEF ArgumentsIn
    <3> QED  BY <3>3, <3>5
  <2> QED  BY <1>5, <2>1, <2>2
<1>9. NamesOf(u, c)
  <2>1. /\ e.index \in {IndexOf[c], Absent} /\ e.id \in {IdOf[c], Absent}
    BY DeltaFields DEF ChatInv, ChatTypeOK
  <2>2. IndexOf[c] # Absent /\ IdOf[c] # Absent
    BY ObserverAssumption DEF ObserverAssumption
  <2> QED  BY <1>1, <1>8, <2>1, <2>2 DEF NamesOf
<1>10. /\ given' = [given EXCEPT ![c] = given[c] \o Characters(e)]
       /\ DOMAIN given = ModelCalls
  BY DEF Takes, ChatInv, ChatTypeOK
<1>11. ArgumentsIn(u, given'[c], TRUE)
  <2>1. given'[c] = given[c] \o Characters(e)  BY <1>10
  <2>2. ChatTypeOK /\ d \in Draft /\ Len(d.arguments) <= MaxChars /\ u = Updated(d, e)
    BY DEF ChatInv, Takes
  <2>3. PICK g : g = given[c] \o Characters(e)  OBVIOUS
  <2>4. ArgumentsIn(u, g, TRUE)  BY <1>8, <2>2, <2>3, UpdatedArguments
  <2> QED  BY <2>1, <2>3, <2>4
<1>12. \A x \in ModelCalls : x # c => given'[x] = given[x]  BY <1>10
<1>13. ASSUME NEW j \in DOMAIN drafts'
       PROVE \E x \in ModelCalls :
               /\ drafts'[j].of = {x} /\ NamesOf(drafts'[j], x)
               /\ ArgumentsIn(drafts'[j], given'[x], WholeSoFar')
  <2>1. CASE j = i
    <3>1. ArgumentsIn(u, given'[c], WholeSoFar')  BY <1>11 DEF ArgumentsIn
    <3> QED  BY <1>0, <1>6, <1>9, <2>1, <3>1
  <2>2. CASE j # i
    <3>1. j \in DOMAIN drafts /\ drafts'[j] = drafts[j]  BY <1>0, <1>13, <2>2
    <3>2. PICK x \in ModelCalls :
            drafts[j].of = {x} /\ NamesOf(drafts[j], x) /\ ArgumentsIn(drafts[j], given[x], WholeSoFar)
      BY <3>1 DEF ChatInv, CallByName
    <3>3. x # c  BY <1>7, <2>2, <3>1, <3>2
    <3>4. ArgumentsIn(drafts[j], given'[x], WholeSoFar')
      BY <1>4, <1>12, <3>2, <3>3 DEF ArgumentsIn
    <3> QED  BY <3>1, <3>2, <3>4
  <2> QED  BY <2>1, <2>2
<1>14. ASSUME NEW x \in DOMAIN drafts', NEW y \in DOMAIN drafts', drafts'[x].of = drafts'[y].of
       PROVE x = y
  <2>1. CASE x = i \/ y = i  BY <1>0, <1>6, <1>7, <1>14, <2>1
  <2>2. CASE x # i /\ y # i
    <3>1. x \in DOMAIN drafts /\ y \in DOMAIN drafts /\ drafts[x].of = drafts[y].of
      BY <1>0, <1>14, <2>2
    <3> QED  BY <3>1 DEF ChatInv, CallByName
  <2> QED  BY <2>1, <2>2
<1>15. ASSUME NEW x \in ModelCalls, NEW n \in {IndexOf[x], IdOf[x]}, n \in DOMAIN aliases'
       PROVE drafts'[aliases'[n]].of = {x}
  <2>1. CASE n \in KeysOf(e)
    <3>1. x = c  BY <1>2, <1>15, <2>1, ObserverAssumption DEF ObserverAssumption
    <3> QED  BY <1>0, <1>2, <1>6, <2>1, <3>1
  <2>2. CASE n \notin KeysOf(e)
    <3>1. n \in DOMAIN aliases /\ aliases'[n] = aliases[n]  BY <1>2, <1>15, <2>2
    <3>2. aliases[n] \in DOMAIN drafts  BY <3>1 DEF ChatInv, ChatTypeOK
    <3>3. drafts[aliases[n]].of = {x}  BY <3>1, <1>15 DEF ChatInv, CallByName
    <3>4. CASE aliases[n] = i
      <4>1. {x} = {c}  BY <1>5, <3>2, <3>3, <3>4
      <4> QED  BY <1>0, <1>6, <3>1, <3>4, <4>1
    <3>5. CASE aliases[n] # i  BY <1>0, <3>1, <3>2, <3>3, <3>5
    <3> QED  BY <3>4, <3>5
  <2> QED  BY <2>1, <2>2
<1>16. CallByName'
  BY <1>0, <1>13, <1>14, <1>15 DEF CallByName, NamesOf, ArgumentsIn
<1>17. NothingMissed'
  <2> SUFFICES ASSUME Len(drafts') < MaxDrafts, NEW x \in ModelCalls,
                      \A j \in DOMAIN drafts' : drafts'[j].of # {x}
               PROVE  given'[x] = <<>>
    BY DEF NothingMissed
  <2>1. x # c  BY <1>0, <1>6
  <2>2. \A j \in DOMAIN drafts : drafts[j].of # {x}
    BY <1>0, <1>5, <2>1
  <2>3. Len(drafts) < MaxDrafts
    <3>1. PICK m \in Nat : m = Len(drafts)  BY <1>3
    <3>2. PICK l \in Nat : l = Len(drafts')  BY DEF Takes
    <3>3. MaxDrafts \in Nat  BY ObserverAssumption DEF ObserverAssumption
    <3> QED  BY <1>0, <3>1, <3>2, <3>3
  <2>4. given[x] = <<>>  BY <1>4, <2>2, <2>3 DEF ChatInv, NothingMissed
  <2> QED  BY <1>12, <2>1, <2>4
<1> QED  BY <1>16, <1>17

\* A delta that is not read, has no name, or comes when there is no room for a draft.
LEMMA DeltaSkipped ==
    ASSUME ChatInv, NEW c \in ModelCalls, NEW e \in Deltas(c),
           ~over, deltas' \in 0..MaxDeltas,
           given' = [given EXCEPT ![c] = @ \o Characters(e)],
           frames' \in 0..MaxFrames + 1, frames <= frames',
           UNCHANGED <<drafts, aliases, names, over, doneSeen>>,
           \/ ~(frames' <= MaxFrames)
           \/ KeysOf(e) = {}
           \/ Len(drafts) = MaxDrafts /\ FindDraft(e) = 0
    PROVE  ChatInv'
<1>0. /\ drafts \in Seq(Draft) /\ Len(drafts) \in Nat /\ names \in {"index", "id", "any"}
      /\ given \in [ModelCalls -> Seq(ModelCalls \X Nat)] /\ frames \in Nat /\ frames' \in Nat
      /\ ChatTypeOK
  BY ObserverAssumption DEF ChatInv, ChatTypeOK, ObserverAssumption
<1>1. Characters(e) \in Seq(ModelCalls \X Nat)  BY <1>0, CharactersType
<1>2. given' = [given EXCEPT ![c] = given[c] \o Characters(e)]  OBVIOUS
<1>3. given[c] \o Characters(e) \in Seq(ModelCalls \X Nat)  BY <1>0, <1>1
<1>4. given' \in [ModelCalls -> Seq(ModelCalls \X Nat)]  BY <1>0, <1>2, <1>3
<1>5. ChatTypeOK'
  BY <1>4 DEF ChatInv, ChatTypeOK
<1>6. NamesKnown' /\ IndexTaken' /\ EndsTrue' /\ KeysDistinct'
  BY DEF ChatInv, NamesKnown, IndexTaken, EndsTrue, KeysDistinct, KeyPart
<1>7. ASSUME KeysOf(e) = {}  PROVE names = "any"
  <2>1. /\ names = "index" => e.index = IndexOf[c]
        /\ names = "id" => e.id = IdOf[c]
    BY <1>0, DeltaFields
  <2>2. IndexOf[c] # Absent /\ IdOf[c] # Absent
    BY ObserverAssumption DEF ObserverAssumption
  <2>3. e.index = Absent /\ e.id = Absent  BY <1>7 DEF KeysOf
  <2> QED  BY <1>0, <2>1, <2>2, <2>3
<1>8. SUFFICES ASSUME names # "any"  PROVE CallByName' /\ NothingMissed'
  BY <1>5, <1>6 DEF ChatInv, CallByName, NothingMissed
<1>9. \/ ~(frames' <= MaxFrames)
      \/ Len(drafts) = MaxDrafts /\ \A j \in DOMAIN drafts : drafts[j].of # {c}
  <2>1. ASSUME FindDraft(e) = 0  PROVE \A j \in DOMAIN drafts : drafts[j].of # {c}
    <3>1. e.index \notin DOMAIN aliases /\ e.id \notin DOMAIN aliases
      BY <2>1, DraftFound
    <3> QED  BY <1>8, <3>1, NewCall
  <2> QED  BY <1>7, <1>8, <2>1
<1>10. \A x \in ModelCalls : x # c => given'[x] = given[x]  BY <1>0, <1>2
<1>11. given'[c] = given[c] \o Characters(e)  BY <1>0, <1>2
<1>12. ~doneSeen /\ \A j \in DOMAIN drafts : ~drafts[j].finished
  BY DEF ChatInv, EndsTrue
<1>13. ASSUME NEW j \in DOMAIN drafts
       PROVE \E x \in ModelCalls :
               /\ drafts[j].of = {x} /\ NamesOf(drafts[j], x)
               /\ ArgumentsIn(drafts[j], given'[x], WholeSoFar')
  <2>1. PICK x \in ModelCalls :
          drafts[j].of = {x} /\ NamesOf(drafts[j], x) /\ ArgumentsIn(drafts[j], given[x], WholeSoFar)
    BY <1>8 DEF ChatInv, CallByName
  <2>2. WholeSoFar' => WholeSoFar
    BY <1>0, ObserverAssumption DEF WholeSoFar, ObserverAssumption
  <2>3. CASE x # c
    <3>1. ArgumentsIn(drafts[j], given'[x], WholeSoFar')
      BY <1>10, <2>1, <2>2, <2>3 DEF ArgumentsIn
    <3> QED  BY <2>1, <3>1
  <2>4. CASE x = c
    <3>1. ~(frames' <= MaxFrames)  BY <1>9, <2>1, <2>4
    <3>2. ~WholeSoFar' /\ ~drafts[j].finished  BY <1>12, <3>1 DEF WholeSoFar
    <3> DEFINE a == drafts[j].arguments
    <3>3. a \in Seq(ModelCalls \X Nat)
      <4>1. drafts[j] \in Draft  BY <1>0
      <4> QED  BY <4>1 DEF Draft
    <3>4. /\ Len(a) <= Len(given[c]) /\ \A n \in 1..Len(a) : a[n] = given[c][n]
          /\ drafts[j].truncated => Len(a) = MaxChars
      BY <2>1, <2>4 DEF ArgumentsIn
    <3>5. /\ Len(a) <= Len(given'[c]) /\ \A n \in 1..Len(a) : a[n] = given'[c][n]
      <4> HIDE DEF a
      <4>1. PICK g, s : g = given[c] /\ s = Characters(e)  OBVIOUS
      <4>2. g \in Seq(ModelCalls \X Nat) /\ s \in Seq(ModelCalls \X Nat)  BY <1>0, <1>1, <4>1
      <4>3. Len(g \o s) = Len(g) + Len(s) /\ \A n \in 1..Len(g) : (g \o s)[n] = g[n]
        BY <4>2
      <4>4. Len(a) \in Nat /\ Len(g) \in Nat /\ Len(s) \in Nat  BY <3>3, <4>2
      <4>5. Len(a) <= Len(g) /\ \A n \in 1..Len(a) : a[n] = g[n]  BY <3>4, <4>1
      <4>6. Len(a) <= Len(g \o s) /\ \A n \in 1..Len(a) : a[n] = (g \o s)[n]
        BY <4>3, <4>4, <4>5
      <4> QED  BY <1>11, <4>1, <4>6
    <3>6. ArgumentsIn(drafts[j], given'[c], WholeSoFar')
      BY <3>2, <3>4, <3>5 DEF ArgumentsIn
    <3> QED  BY <2>1, <2>4, <3>6
  <2> QED  BY <2>3, <2>4
<1>14. CallByName'
  <2>1. drafts' = drafts /\ aliases' = aliases /\ names' = names  OBVIOUS
  <2>2. ASSUME NEW j \in DOMAIN drafts'
        PROVE \E x \in ModelCalls :
                /\ drafts'[j].of = {x} /\ NamesOf(drafts'[j], x)
                /\ ArgumentsIn(drafts'[j], given'[x], WholeSoFar')
    BY <1>13, <2>1
  <2>3. /\ \A i, j \in DOMAIN drafts' : drafts'[i].of = drafts'[j].of => i = j
        /\ \A x \in ModelCalls : \A n \in {IndexOf[x], IdOf[x]} :
              n \in DOMAIN aliases' => drafts'[aliases'[n]].of = {x}
    BY <1>8, <2>1 DEF ChatInv, CallByName
  <2>4. names' = names  OBVIOUS
  <2> QED  BY ONLY <2>2, <2>3, <2>4 DEF CallByName, NamesOf, ArgumentsIn
<1>15. NothingMissed'
  <2>1. ~(frames' <= MaxFrames /\ Len(drafts') < MaxDrafts)
    BY <1>0, <1>9
  <2> QED  BY <2>1 DEF NothingMissed
<1> QED  BY <1>14, <1>15

\* One entry of a frame.
LEMMA DeltaKeepsInv ==
    ASSUME ChatInv, NEW c \in ModelCalls, NEW e \in Deltas(c), ObserveDelta(e)
    PROVE  ChatInv'
<1>0. /\ drafts \in Seq(Draft) /\ Len(drafts) \in Nat /\ names \in {"index", "id", "any"}
      /\ DOMAIN drafts = 1..Len(drafts) /\ Len(drafts) <= MaxDrafts
      /\ frames \in 0..MaxFrames + 1 /\ deltas \in 0..MaxDeltas
      /\ MaxFrames \in Nat /\ MaxDeltas \in Nat /\ MaxDrafts \in Nat /\ MaxDrafts >= 1
      /\ MaxChars \in Nat
  BY ObserverAssumption DEF ChatInv, ChatTypeOK, ObserverAssumption
<1>1. e.call = c  BY <1>0, DeltaFields
<1>2. /\ ~over /\ deltas < MaxDeltas /\ deltas' = deltas + 1
      /\ given' = [given EXCEPT ![c] = @ \o Characters(e)]
      /\ UNCHANGED <<names, over, doneSeen>>
  BY <1>1 DEF ObserveDelta
<1>3. deltas' \in 0..MaxDeltas  BY <1>0, <1>2
<1>4. frames' \in 0..MaxFrames + 1 /\ frames <= frames' /\ frames' \in Nat
  BY <1>0 DEF ObserveDelta, NextFrame
<1>5. PICK f : f = FindDraft(e)  OBVIOUS
<1>6. /\ f \in 0..Len(drafts)
      /\ f = 0 => e.index \notin DOMAIN aliases /\ e.id \notin DOMAIN aliases
      /\ f # 0 /\ drafts[f].index = Absent => e.index \notin DOMAIN aliases
      /\ f # 0 /\ names # "any" => drafts[f].of = {c}
  BY <1>5, DraftFound
<1> DEFINE i == IF f # 0 THEN f ELSE Len(drafts) + 1
<1>7. IF ~Read \/ KeysOf(e) = {} \/ i > MaxDrafts
      THEN UNCHANGED <<drafts, aliases>>
      ELSE /\ aliases' = Alias(e, i)
           /\ drafts' = IF f # 0 THEN [drafts EXCEPT ![i] = Updated(drafts[i], e)]
                                 ELSE Append(drafts, Updated(NewDraft(e), e))
  BY <1>5 DEF ObserveDelta
<1>8. CASE ~Read \/ KeysOf(e) = {} \/ i > MaxDrafts
  <2>1. UNCHANGED <<drafts, aliases>>  BY <1>7, <1>8
  <2>2. i > MaxDrafts => Len(drafts) = MaxDrafts /\ f = 0
    <3>1. PICK m \in Nat : m = Len(drafts)  BY <1>0
    <3>2. f \in 0..m /\ m <= MaxDrafts  BY <1>0, <1>6, <3>1
    <3>3. f # 0 => i = f  OBVIOUS
    <3>4. f = 0 => i = m + 1  BY <3>1
    <3> HIDE DEF i
    <3>5. f # 0 => ~(i > MaxDrafts)  BY <1>0, <3>1, <3>2, <3>3
    <3>6. f = 0 /\ i > MaxDrafts => m = MaxDrafts
      <4> SUFFICES ASSUME f = 0, i > MaxDrafts  PROVE m = MaxDrafts
        OBVIOUS
      <4>1. m + 1 > MaxDrafts  BY <3>4
      <4>2. m \in Nat /\ MaxDrafts \in Nat /\ m <= MaxDrafts  BY <1>0, <3>1, <3>2
      <4> QED  BY ONLY <4>1, <4>2
    <3> QED  BY <3>1, <3>5, <3>6
  <2>3. \/ ~(frames' <= MaxFrames) \/ KeysOf(e) = {}
        \/ Len(drafts) = MaxDrafts /\ FindDraft(e) = 0
    BY <1>5, <1>8, <2>2 DEF Read
  <2> QED  BY <1>2, <1>3, <1>4, <2>1, <2>3, DeltaSkipped
<1>9. CASE ~(~Read \/ KeysOf(e) = {} \/ i > MaxDrafts)
  <2>1. frames' <= MaxFrames /\ KeysOf(e) # {} /\ ~(i > MaxDrafts)  BY <1>9 DEF Read
  <2>2. aliases' = Alias(e, i)  BY <1>7, <1>9
  <2>3. \E d, u : Takes(c, e, i, d, u)
    <3>1. CASE f # 0
      <4>1. i = f /\ f \in DOMAIN drafts /\ f \in 1..MaxDrafts  BY <1>0, <1>6, <3>1
      <4>2. PICK d : d = drafts[f]  OBVIOUS
      <4>3. d \in Draft /\ Len(d.arguments) <= MaxChars
        BY <1>0, <4>1, <4>2 DEF ChatInv, ChatTypeOK
      <4>4. PICK u : u = Updated(d, e)  OBVIOUS
      <4>5. u \in Draft  BY <4>3, <4>4, UpdatedFields DEF ChatInv
      <4>6. drafts' = [drafts EXCEPT ![f] = u]  BY <1>7, <1>9, <3>1, <4>2, <4>4
      <4>7. /\ drafts' \in Seq(Draft) /\ Len(drafts') = Len(drafts) /\ drafts'[f] = u
            /\ DOMAIN drafts' = DOMAIN drafts
            /\ \A j \in DOMAIN drafts : j # f => drafts'[j] = drafts[j]
        BY <1>0, <4>1, <4>5, <4>6
      <4>8. GoesTo(c, e, f, d)  BY <1>6, <3>1, <4>1, <4>2 DEF GoesTo
      <4>9. DOMAIN drafts' = DOMAIN drafts \cup {f}  BY <4>1, <4>7
      <4>10. Takes(c, e, f, d, u)
        BY <1>0, <1>2, <1>3, <1>4, <2>1, <2>2, <4>1, <4>3, <4>4, <4>7, <4>8, <4>9 DEF Takes
      <4> QED  BY <4>1, <4>10
    <3>2. CASE f = 0
      <4>1. i = Len(drafts) + 1  BY <3>2
      <4>2. i \in 1..MaxDrafts  BY <1>0, <2>1, <4>1
      <4>3. PICK k : k = i  OBVIOUS
      <4>4. PICK d : d = NewDraft(e)  OBVIOUS
      <4>5. d \in Draft /\ Len(d.arguments) <= MaxChars
        <5>1. /\ e.index \in {IndexOf[c], Absent} /\ e.id \in {IdOf[c], Absent}
          BY <1>0, DeltaFields
        <5>2. /\ e.index \in {IndexOf[x] : x \in ModelCalls} \cup {Absent}
              /\ e.id \in {IdOf[x] : x \in ModelCalls} \cup {Absent}
          BY <5>1
        <5>3. <<>> \in Seq(ModelCalls \X Nat)  OBVIOUS
        <5>4. d \in Draft  BY <4>4, <5>2, <5>3 DEF NewDraft, Draft
        <5>5. d.arguments = <<>>  BY <4>4 DEF NewDraft
        <5> QED  BY <1>0, <5>4, <5>5
      <4>6. PICK u : u = Updated(d, e)  OBVIOUS
      <4>7. u \in Draft  BY <4>5, <4>6, UpdatedFields DEF ChatInv
      <4>8. drafts' = Append(drafts, u)  BY <1>7, <1>9, <3>2, <4>4, <4>6
      <4>9. /\ drafts' \in Seq(Draft) /\ Len(drafts') = Len(drafts) + 1
            /\ drafts'[Len(drafts) + 1] = u
            /\ \A j \in 1..Len(drafts) : drafts'[j] = drafts[j]
        BY <1>0, <4>7, <4>8
      <4>10. /\ DOMAIN drafts' = DOMAIN drafts \cup {k} /\ drafts'[k] = u
             /\ \A j \in DOMAIN drafts : j # k => drafts'[j] = drafts[j]
             /\ Len(drafts') <= MaxDrafts /\ Len(drafts) <= Len(drafts')
        BY <1>0, <4>1, <4>2, <4>3, <4>9
      <4>11. GoesTo(c, e, k, d)  BY <1>6, <3>2, <4>1, <4>3, <4>4 DEF GoesTo
      <4>12. Takes(c, e, k, d, u)
        BY <1>0, <1>2, <1>3, <1>4, <2>1, <2>2, <4>2, <4>3, <4>5, <4>6, <4>9, <4>10, <4>11 DEF Takes
      <4> QED  BY <4>3, <4>12
    <3> QED  BY <3>1, <3>2
  <2>4. PICK d, u, k : Takes(c, e, k, d, u)
    BY <2>3
  <2> QED  BY <2>4, TakesType, TakesNames, TakesCalls DEF ChatInv
<1> QED  BY <1>8, <1>9

\* The finish reason: it marks the drafts if it is read, and then all before it was read.
LEMMA FinishKeepsInv ==
    ASSUME ChatInv, ObserveFinish
    PROVE  ChatInv'
<1>0. /\ drafts \in Seq(Draft) /\ Len(drafts) \in Nat /\ DOMAIN drafts = 1..Len(drafts)
      /\ frames \in 0..MaxFrames + 1 /\ MaxFrames \in Nat
  BY ObserverAssumption DEF ChatInv, ChatTypeOK, ObserverAssumption
<1>1. /\ ~over /\ over' = TRUE
      /\ drafts' = [j \in DOMAIN drafts |-> [drafts[j] EXCEPT !.finished = @ \/ Read]]
      /\ UNCHANGED <<names, aliases, given, deltas, doneSeen>>
  BY DEF ObserveFinish
<1>2. frames' \in 0..MaxFrames + 1 /\ frames <= frames'
  BY <1>0 DEF ObserveFinish, NextFrame
<1>3. DOMAIN drafts' = DOMAIN drafts  BY <1>1
<1>4. ~doneSeen /\ \A j \in DOMAIN drafts : ~drafts[j].finished
  BY <1>1 DEF ChatInv, EndsTrue
<1>5. Read \in BOOLEAN  BY DEF Read
<1>6. ASSUME NEW j \in DOMAIN drafts
      PROVE  /\ drafts'[j] \in Draft
             /\ drafts'[j].index = drafts[j].index /\ drafts'[j].id = drafts[j].id
             /\ drafts'[j].of = drafts[j].of /\ drafts'[j].arguments = drafts[j].arguments
             /\ drafts'[j].truncated <=> drafts[j].truncated
             /\ drafts'[j].finished <=> Read
  <2>1. PICK d : d = drafts[j]  OBVIOUS
  <2>2. d \in Draft  BY <1>0, <2>1
  <2>4. drafts'[j] = [d EXCEPT !.finished = d.finished \/ Read]  BY <1>1, <2>1
  <2>5. (d.finished \/ Read) \in BOOLEAN  OBVIOUS
  <2>6. drafts'[j] \in Draft  BY <2>2, <2>4, <2>5 DEF Draft
  <2>7. /\ drafts'[j].index = d.index /\ drafts'[j].id = d.id
        /\ drafts'[j].of = d.of /\ drafts'[j].arguments = d.arguments
        /\ drafts'[j].truncated = d.truncated
    BY <2>2, <2>4 DEF Draft
  <2>8. drafts'[j].finished <=> (d.finished \/ Read)
    BY <2>2, <2>4, <2>5 DEF Draft
  <2>9. drafts'[j].finished <=> Read  BY <1>4, <2>1, <2>8
  <2> QED  BY <2>1, <2>6, <2>7, <2>9
<1>7. drafts' \in Seq(Draft) /\ Len(drafts') = Len(drafts)
  <2>1. drafts' \in [1..Len(drafts) -> Draft]  BY <1>0, <1>1, <1>3, <1>6
  <2> QED  BY <1>0, <2>1
<1>8. ChatTypeOK'
  BY <1>1, <1>2, <1>3, <1>6, <1>7 DEF ChatInv, ChatTypeOK
<1>9. NamesKnown'
  <2>1. aliases' = aliases  BY <1>1
  <2>2. NamesKnown  BY DEF ChatInv
  <2>3. ASSUME NEW j \in DOMAIN drafts
        PROVE  /\ drafts'[j].index # Absent \/ drafts'[j].id # Absent
               /\ drafts'[j].index # Absent => drafts'[j].index \in DOMAIN aliases'
               /\ drafts'[j].id # Absent => drafts'[j].id \in DOMAIN aliases'
    BY <1>6, <2>1, <2>2 DEF NamesKnown
  <2> QED  BY <1>3, <2>3 DEF NamesKnown
<1>10. IndexTaken'
  BY <1>0, <1>1, <1>3, <1>6 DEF ChatInv, IndexTaken, ChatTypeOK
<1>11. EndsTrue'
  BY <1>1 DEF EndsTrue
<1>12. KeysDistinct'
  <2>1. \A j \in DOMAIN drafts : KeyPart(drafts'[j]) = KeyPart(drafts[j])
    BY <1>6 DEF KeyPart
  <2> QED  BY <1>3, <2>1 DEF ChatInv, KeysDistinct, KeyPart
<1>13. CallByName'
  <2> SUFFICES ASSUME names # "any"  PROVE CallByName'
    BY <1>1 DEF CallByName
  <2>1. ASSUME NEW j \in DOMAIN drafts
        PROVE \E x \in ModelCalls :
               /\ drafts'[j].of = {x} /\ NamesOf(drafts'[j], x)
               /\ ArgumentsIn(drafts'[j], given[x], WholeSoFar')
    <3>1. PICK x \in ModelCalls :
            drafts[j].of = {x} /\ NamesOf(drafts[j], x) /\ ArgumentsIn(drafts[j], given[x], WholeSoFar)
      BY <2>1 DEF ChatInv, CallByName
    <3>2. NamesOf(drafts'[j], x)  BY <1>6, <3>1 DEF NamesOf
    <3>3. Read => WholeSoFar
      BY <1>0, <1>2 DEF Read, WholeSoFar
    <3>4. WholeSoFar' => WholeSoFar
      BY <1>0, <1>1, <1>2 DEF WholeSoFar
    <3>5. ArgumentsIn(drafts'[j], given[x], WholeSoFar')
      BY <1>6, <3>1, <3>3, <3>4 DEF ArgumentsIn
    <3> QED  BY <1>6, <3>1, <3>2, <3>5
  <2>2. \A i, j \in DOMAIN drafts' : drafts'[i].of = drafts'[j].of => i = j
    BY <1>3, <1>6 DEF ChatInv, CallByName
  <2>3. ASSUME NEW x \in ModelCalls, NEW n \in {IndexOf[x], IdOf[x]}, n \in DOMAIN aliases
        PROVE drafts'[aliases[n]].of = {x}
    <3>1. aliases[n] \in DOMAIN drafts  BY <1>0, <2>3 DEF ChatInv, ChatTypeOK
    <3>2. drafts[aliases[n]].of = {x}  BY <2>3 DEF ChatInv, CallByName
    <3> QED  BY <1>6, <3>1, <3>2
  <2>4. given' = given /\ aliases' = aliases /\ names' = names  BY <1>1
  <2>5. ASSUME NEW j \in DOMAIN drafts'
        PROVE \E x \in ModelCalls :
               /\ drafts'[j].of = {x} /\ NamesOf(drafts'[j], x)
               /\ ArgumentsIn(drafts'[j], given'[x], WholeSoFar')
    BY <1>3, <2>1, <2>4
  <2>6. ASSUME NEW x \in ModelCalls, NEW n \in {IndexOf[x], IdOf[x]}, n \in DOMAIN aliases'
        PROVE drafts'[aliases'[n]].of = {x}
    <3>1. n \in DOMAIN aliases  BY <2>4, <2>6
    <3>2. drafts'[aliases[n]].of = {x}  BY <2>3, <3>1
    <3> QED  BY <2>4, <3>2
  <2> QED  BY ONLY <2>2, <2>4, <2>5, <2>6 DEF CallByName, NamesOf, ArgumentsIn
<1>14. NothingMissed'
  <2> SUFFICES ASSUME names # "any", frames' <= MaxFrames, Len(drafts) < MaxDrafts,
                      NEW x \in ModelCalls, \A j \in DOMAIN drafts : drafts'[j].of # {x}
               PROVE  given[x] = <<>>
    BY <1>1, <1>3, <1>7 DEF NothingMissed
  <2>1. frames <= MaxFrames  BY <1>0, <1>2
  <2>2. \A j \in DOMAIN drafts : drafts[j].of # {x}  BY <1>6
  <2> QED  BY <2>1, <2>2 DEF ChatInv, NothingMissed
<1> QED  BY <1>8, <1>9, <1>10, <1>11, <1>12, <1>13, <1>14 DEF ChatInv

\* The end of the stream.
LEMMA DoneKeepsInv ==
    ASSUME ChatInv, ObserveDone
    PROVE  ChatInv'
<1>0. /\ frames \in 0..MaxFrames + 1 /\ MaxFrames \in Nat
  BY ObserverAssumption DEF ChatInv, ChatTypeOK, ObserverAssumption
<1>1. /\ over /\ ~doneSeen /\ frames <= MaxFrames /\ frames' = frames + 1
      /\ UNCHANGED <<names, drafts, aliases, given, deltas, over>>
  BY DEF ObserveDone
<1>2. frames' \in 0..MaxFrames + 1 /\ (frames' <= MaxFrames => frames <= MaxFrames)
  BY <1>0, <1>1
<1>3. doneSeen' \in BOOLEAN  BY DEF ObserveDone, Read
<1>4. ChatTypeOK'
  BY <1>1, <1>2, <1>3 DEF ChatInv, ChatTypeOK
<1>5. NamesKnown' /\ IndexTaken' /\ EndsTrue' /\ KeysDistinct'
  BY <1>1 DEF ChatInv, NamesKnown, IndexTaken, EndsTrue, KeysDistinct, KeyPart
<1>6. WholeSoFar  BY <1>1 DEF WholeSoFar
<1>7. CallByName'
  <2>1. ASSUME names # "any", NEW j \in DOMAIN drafts
        PROVE \E x \in ModelCalls :
               /\ drafts[j].of = {x} /\ NamesOf(drafts[j], x)
               /\ ArgumentsIn(drafts[j], given[x], WholeSoFar')
    <3>1. PICK x \in ModelCalls :
            drafts[j].of = {x} /\ NamesOf(drafts[j], x) /\ ArgumentsIn(drafts[j], given[x], WholeSoFar)
      BY <2>1 DEF ChatInv, CallByName
    <3>2. ArgumentsIn(drafts[j], given[x], WholeSoFar')  BY <1>6, <3>1 DEF ArgumentsIn
    <3> QED  BY <3>1, <3>2
  <2>2. names # "any" =>
          /\ \A i, j \in DOMAIN drafts : drafts[i].of = drafts[j].of => i = j
          /\ \A x \in ModelCalls : \A n \in {IndexOf[x], IdOf[x]} :
                n \in DOMAIN aliases => drafts[aliases[n]].of = {x}
    BY DEF ChatInv, CallByName
  <2> QED  BY <1>1, <2>1, <2>2 DEF CallByName, NamesOf, ArgumentsIn
<1>8. NothingMissed'
  BY <1>1, <1>2 DEF ChatInv, NothingMissed
<1> QED  BY <1>4, <1>5, <1>7, <1>8 DEF ChatInv

\* Nothing has been observed.
LEMMA ChatStarts == ChatInit => ChatInv
<1> SUFFICES ASSUME ChatInit  PROVE ChatInv
  OBVIOUS
<1>1. drafts = <<>> /\ DOMAIN drafts = {} /\ Len(drafts) = 0 /\ drafts \in Seq(Draft)
  BY DEF ChatInit
<1>2. DOMAIN aliases = {}  BY DEF ChatInit
<1>3. given \in [ModelCalls -> Seq(ModelCalls \X Nat)] /\ \A c \in ModelCalls : given[c] = <<>>
  BY DEF ChatInit
<1>4. ChatTypeOK
  <2>1. /\ names \in {"index", "id", "any"} /\ deltas = 0 /\ frames = 0
        /\ over \in BOOLEAN /\ doneSeen \in BOOLEAN
    BY DEF ChatInit
  <2>2. deltas \in 0..MaxDeltas /\ frames \in 0..MaxFrames + 1 /\ 0 <= MaxDrafts
    BY <2>1, ObserverAssumption DEF ObserverAssumption
  <2> QED  BY <1>1, <1>2, <1>3, <2>1, <2>2 DEF ChatTypeOK
<1>5. NamesKnown /\ IndexTaken /\ KeysDistinct /\ CallByName /\ NothingMissed
  BY <1>1, <1>2, <1>3 DEF NamesKnown, IndexTaken, KeysDistinct, CallByName, NothingMissed
<1>6. EndsTrue  BY <1>1 DEF ChatInit, EndsTrue
<1> QED  BY <1>4, <1>5, <1>6 DEF ChatInv

\* A step of something else.
LEMMA ChatStutters ==
    ASSUME ChatInv, UNCHANGED chatVars
    PROVE  ChatInv'
<1>0. /\ names' = names /\ drafts' = drafts /\ aliases' = aliases /\ given' = given
      /\ deltas' = deltas /\ frames' = frames /\ over' = over /\ doneSeen' = doneSeen
  BY DEF chatVars
<1>1. ChatTypeOK'  BY <1>0 DEF ChatInv, ChatTypeOK
<1>2. NamesKnown' /\ IndexTaken' /\ EndsTrue' /\ KeysDistinct'
  BY <1>0 DEF ChatInv, NamesKnown, IndexTaken, EndsTrue, KeysDistinct, KeyPart
<1>3. CallByName'
  BY <1>0 DEF ChatInv, CallByName, NamesOf, ArgumentsIn, WholeSoFar
<1>4. NothingMissed'  BY <1>0 DEF ChatInv, NothingMissed
<1> QED  BY <1>1, <1>2, <1>3, <1>4 DEF ChatInv

\* The drafts and aliases are in order in every state that deltas, the finish reason and
\* the end of the stream reach, whatever the limits on drafts, characters and frames
\* (observe_chat_completion_stream_tool_calls).
THEOREM ChatInvariant == ChatSpec => []ChatInv
<1>1. ChatInv /\ [ChatNext]_chatVars => ChatInv'
  <2> SUFFICES ASSUME ChatInv, [ChatNext]_chatVars  PROVE ChatInv'
    OBVIOUS
  <2>1. ASSUME NEW c \in ModelCalls, NEW e \in Deltas(c), ObserveDelta(e)  PROVE ChatInv'
    BY <2>1, DeltaKeepsInv
  <2>2. CASE ObserveFinish  BY <2>2, FinishKeepsInv
  <2>3. CASE ObserveDone  BY <2>3, DoneKeepsInv
  <2>4. CASE UNCHANGED chatVars  BY <2>4, ChatStutters
  <2> QED  BY <2>1, <2>2, <2>3, <2>4 DEF ChatNext
<1> QED  BY <1>1, ChatStarts, PTL DEF ChatSpec

\* The drafts and aliases keep their types and their limits.
THEOREM ChatTypeCorrect == ChatSpec => []ChatTypeOK
<1>1. ChatInv => ChatTypeOK  BY DEF ChatInv
<1> QED  BY <1>1, ChatInvariant, PTL

\* No two events have the same key, a draft is of one call, and what is reported complete
\* is all the provider sent, for every number of calls and every limit.
THEOREM CallsArePutTogether == ChatSpec => []CallsPutTogether
<1>1. ChatInv => CallsPutTogether
  <2> SUFFICES ASSUME ChatInv  PROVE CallsPutTogether
    OBVIOUS
  <2>1. KeysDistinct  BY DEF ChatInv
  <2>2. DraftIsOneCall
    <3> SUFFICES ASSUME names # "any"
                 PROVE  /\ \A i, j \in DOMAIN drafts : i # j => drafts[i].of \cap drafts[j].of = {}
                        /\ \A i \in DOMAIN drafts : \E c \in ModelCalls :
                              /\ drafts[i].of = {c}
                              /\ Len(drafts[i].arguments) <= Len(given[c])
                              /\ \A n \in 1..Len(drafts[i].arguments) :
                                    drafts[i].arguments[n] = given[c][n]
      BY DEF DraftIsOneCall
    <3>1. \A i \in DOMAIN drafts : \E c \in ModelCalls :
            drafts[i].of = {c} /\ ArgumentsIn(drafts[i], given[c], WholeSoFar)
      BY DEF ChatInv, CallByName
    <3>2. \A i, j \in DOMAIN drafts : drafts[i].of = drafts[j].of => i = j
      BY DEF ChatInv, CallByName
    <3>3. ASSUME NEW i \in DOMAIN drafts, NEW j \in DOMAIN drafts, i # j
          PROVE drafts[i].of \cap drafts[j].of = {}
      BY <3>1, <3>2, <3>3
    <3> QED  BY <3>1, <3>3 DEF ArgumentsIn
  <2>3. CompleteIsWhole
    <3> SUFFICES ASSUME names # "any", NEW i \in DOMAIN drafts, Complete(drafts[i]),
                        NEW c \in drafts[i].of
                 PROVE  drafts[i].arguments = given[c]
      BY DEF CompleteIsWhole
    <3>1. PICK x \in ModelCalls :
            drafts[i].of = {x} /\ ArgumentsIn(drafts[i], given[x], WholeSoFar)
      BY DEF ChatInv, CallByName
    <3>2. x = c  BY <3>1
    <3> QED  BY <3>1, <3>2 DEF ArgumentsIn, Complete, WholeSoFar
  <2> QED  BY <2>1, <2>2, <2>3 DEF CallsPutTogether
<1> QED  BY <1>1, ChatInvariant, PTL

-----------------------------------------------------------------------------
(* The stations together                                                    *)

\* Whichever station runs, each of them behaves as its own specification says: the one
\* that runs by its steps, the others by resting.
THEOREM StationsKeepTheirSpecs ==
    RequestsSpec => InFlightSpec /\ DispatchSpec /\ Spec /\ X402Spec /\ ToolSpec /\ ChatSpec
<1> DEFINE all == <<part, inFlightVars, dispatchVars, vars, x402Vars, toolVars, chatVars>>
<1>1. RequestsInit => InFlightInit /\ DispatchInit /\ Init /\ X402Init /\ ToolInit /\ ChatInit
  BY DEF RequestsInit
<1>2. [RequestsNext]_all => [InFlightNext]_inFlightVars
  BY DEF RequestsNext
<1>3. [RequestsNext]_all => [DispatchNext]_dispatchVars
  BY DEF RequestsNext
<1>4. [RequestsNext]_all => [Next]_vars
  BY DEF RequestsNext
<1>5. [RequestsNext]_all => [X402Next]_x402Vars
  BY DEF RequestsNext
<1>6. [RequestsNext]_all => [ToolNext]_toolVars
  BY DEF RequestsNext
<1>7. [RequestsNext]_all => [ChatNext]_chatVars
  BY DEF RequestsNext
<1> QED
  BY <1>1, <1>2, <1>3, <1>4, <1>5, <1>6, <1>7, PTL
  DEF RequestsSpec, InFlightSpec, DispatchSpec, Spec, X402Spec, ToolSpec, ChatSpec

\* Every variable of the station that runs keeps its type and its bound.
THEOREM RequestsTypeCorrect == RequestsSpec => []RequestsTypeOK
<1> DEFINE all == <<part, inFlightVars, dispatchVars, vars, x402Vars, toolVars, chatVars>>
           PartOK == part \in {"slots", "dispatch", "models", "x402", "tools", "observer"}
<1>1. RequestsSpec => []PartOK
  <2>1. RequestsInit => PartOK
    BY DEF RequestsInit
  <2>2. PartOK /\ [RequestsNext]_all => PartOK'
    BY DEF RequestsNext
  <2> QED  BY <2>1, <2>2, PTL DEF RequestsSpec
<1>2. /\ InFlightTypeOK /\ DispatchTypeOK /\ TypeOK /\ X402TypeOK /\ ToolTypeOK /\ ChatTypeOK
      /\ PartOK
      => RequestsTypeOK
  BY DEF RequestsTypeOK
<1> HIDE DEF PartOK
<1> QED
  BY <1>1, <1>2, StationsKeepTheirSpecs, InFlightTypeCorrect, DispatchTypeCorrect,
     TypeCorrect, X402TypeCorrect, ToolTypeCorrect, ChatTypeCorrect, PTL

\* What the stations promise holds wherever they stand side by side: all of it, for any
\* number of gateways, requests, dispatches, models, payments, tools and calls.
THEOREM RequestsAreSafe ==
    RequestsSpec => /\ [](SlotsAccounted /\ CacheIsTrue /\ NoKeyLost /\ PaymentsBalance
                          /\ ToolCallsBalance /\ CallsPutTogether)
                    /\ RejectedOnlyWhenFull /\ NotReplayed /\ KeepsPromise
  BY StationsKeepTheirSpecs, SlotsBalance, CacheAlwaysTrue, NoProviderIsLost,
     PaymentsAreBalanced, ToolCallsAlwaysBalance, CallsArePutTogether, RejectionsAreJust,
     CallsNotReplayed, PromiseKept, PTL
=============================================================================
