----------------------------- MODULE KeysProofs -----------------------------
(***************************************************************************)
(* The keys' two sides.  The listener: an update that overlapped neither a *)
(* poll nor a read of its row is never lost, for any number of keys,       *)
(* requests, polls, failures and updates.  Admission: what every admitted  *)
(* request has been through, for any set of models, any choice of direct   *)
(* proxies and any number of changes of the control plane.                 *)
(***************************************************************************)
EXTENDS MCKeys, TLAPS

-----------------------------------------------------------------------------
(* DatabaseListener                                                        *)

(* The row of key k as a query returns it.                                 *)
RowOf(k) == [key |-> k, at |-> row[k].at, active |-> row[k].active]

(* Rows are only waiting to be applied in the two apply stages, belong to  *)
(* the table of the stage, and are no newer than the database.             *)
FetchedRows ==
    /\ stage \notin {"applyVirtual", "applyMaster"} => fetched = {}
    /\ stage = "applyVirtual" => \A f \in fetched : f.key \in VirtualKeys
    /\ stage = "applyMaster" => \A f \in fetched : f.key \in MasterKeys
    /\ \A f \in fetched : f.at <= row[f.key].at

(* The listener has seen no row newer than the database's.                 *)
SeenOld == \A k \in Keys : seen[k] <= row[k].at

(* What polls and requests have read of a key updated quietly is current.  *)
ReadsCurrent ==
    \A k \in Keys : during[k] = {} =>
        /\ \A v \in inflight[k] : v = row[k].at /\ row[k].active
        /\ \A f \in fetched : f.key = k => f = RowOf(k)

(* The poll has no work left to do for key k.                              *)
Settled(k) ==
    \/ cursor = 0
    \/ row[k].at <= cursor
    \/ seen[k] = row[k].at
    \/ /\ k \in VirtualKeys
       /\ \/ stage = "applyVirtual" /\ RowOf(k) \notin fetched
          \/ stage \in {"master", "applyMaster", "configs", "reload", "end"}
    \/ /\ k \in MasterKeys
       /\ \/ stage = "applyMaster" /\ RowOf(k) \notin fetched
          \/ stage \in {"configs", "reload", "end"}

QuietSettled == \A k \in Keys : during[k] = {} /\ Settled(k) => ~Stale(k)

IInv == TypeOK /\ FetchedRows /\ SeenOld /\ ReadsCurrent /\ QuietSettled

-----------------------------------------------------------------------------
(* Putting a key changes its entry and may only empty another key's entry. *)
LEMMA PutFacts ==
    ASSUME TypeOK, NEW k \in Keys, NEW v \in 1 .. clock, NEW c \in Put(k, v)
    PROVE  /\ c \in [Items -> 0 .. clock]
           /\ c[k] = v
           /\ \A i \in Items \ {k} : c[i] = cache[i] \/ (i \in Keys /\ c[i] = 0)
<1>1. cache \in [Items -> 0 .. clock] /\ v \in 0 .. clock /\ 0 \in 0 .. clock /\ k \in Items
  BY DEF TypeOK, Items
<1>2. CASE c = [cache EXCEPT ![k] = v]
  BY <1>1, <1>2
<1>3. CASE \E j \in CachedMasters : k \notin CachedMasters /\ c = [cache EXCEPT ![k] = v, ![j] = 0]
  <2>1. PICK j \in CachedMasters : k \notin CachedMasters /\ c = [cache EXCEPT ![k] = v, ![j] = 0]
    BY <1>3
  <2>2. j \in Keys /\ j \in Items /\ j # k
    BY <2>1 DEF CachedMasters, Keys, Items
  <2> QED  BY <1>1, <2>1, <2>2
<1> QED  BY <1>2, <1>3 DEF Put

(* Type correctness of DatabaseListener: no cursor, cache entry or read    *)
(* row is ever later than the last update.                                 *)
THEOREM TypeCorrect == Spec => []TypeOK
<1>1. Init => TypeOK
  BY ConstantsAssumption DEF Init, TypeOK, Items, Rows, Fetched, Stages, Windows
<1>2. TypeOK /\ [Next]_vars => TypeOK'
  <2> SUFFICES ASSUME TypeOK, [Next]_vars  PROVE TypeOK'
    OBVIOUS
  <2> USE DEF TypeOK, dbVars, pollVars, requestVars
  <2>1. CASE UNCHANGED vars
    BY <2>1 DEF vars
  <2>2. ASSUME NEW i \in Items, NEW active \in BOOLEAN, Update(i, active)  PROVE TypeOK'
    <3>1. clock' = clock + 1 /\ clock' \in Nat /\ 0 .. clock \subseteq 0 .. clock'
          /\ 1 .. clock \subseteq 1 .. clock'
      BY <2>2 DEF Update
    <3>2. row' \in [Items -> Rows] /\ \A j \in Items : row'[j].at \in 1 .. clock'
      BY <2>2, <3>1 DEF Update, Rows
    <3>3. cache' \in [Items -> 0 .. clock'] /\ cursor' \in 0 .. clock' /\ seen' \in [Keys -> 0 .. clock']
      BY <2>2, <3>1 DEF Update
    <3>4. inflight' \in [Keys -> SUBSET (1 .. clock')]
      BY <2>2, <3>1 DEF Update
    <3>5. stage' \in Stages /\ fetched' \in SUBSET Fetched /\ missed' \in SUBSET Keys
          /\ \A f \in fetched' : f.at <= clock'
      BY <2>2, <3>1 DEF Update, Fetched
    <3>6. during' \in [Items -> SUBSET Windows]
      BY <2>2 DEF Update, Overlapped
    <3> QED  BY <3>1, <3>2, <3>3, <3>4, <3>5, <3>6
  <2>3. ASSUME NEW k \in Keys, Miss(k)  PROVE TypeOK'
    BY <2>3 DEF Miss
  <2>4. ASSUME NEW k \in Keys, Read(k)  PROVE TypeOK'
    <3>1. missed' \in SUBSET Keys
      BY <2>4 DEF Read
    <3>2. k \in Items /\ row[k].at \in 1 .. clock
      BY DEF Items
    <3>3. inflight' \in [Keys -> SUBSET (1 .. clock)]
      BY <2>4, <3>2 DEF Read
    <3> QED  BY <2>4, <3>1, <3>3 DEF Read
  <2>5. ASSUME NEW k \in Keys, ReadFails(k)  PROVE TypeOK'
    BY <2>5 DEF ReadFails
  <2>6. ASSUME NEW k \in Keys, NEW v \in inflight[k], Fill(k, v)  PROVE TypeOK'
    <3>1. v \in 1 .. clock
      OBVIOUS
    <3>2. cache' \in [Items -> 0 .. clock]
      BY <2>6, <3>1, PutFacts DEF Fill
    <3>3. inflight' \in [Keys -> SUBSET (1 .. clock)]
      BY <2>6 DEF Fill
    <3> QED  BY <2>6, <3>2, <3>3 DEF Fill
  <2>7. ASSUME NEW f \in fetched, ApplyVirtualKey(f)  PROVE TypeOK'
    <3>1. f.key \in Keys /\ f.key \in Items /\ f.at \in 0 .. clock /\ 0 \in 0 .. clock
      BY DEF Fetched, Items
    <3>2. cache' \in [Items -> 0 .. clock]
      BY <2>7, <3>1 DEF ApplyVirtualKey, CacheAfterRow
    <3>3. seen' \in [Keys -> 0 .. clock]
      BY <2>7, <3>1 DEF ApplyVirtualKey
    <3> QED  BY <2>7, <3>2, <3>3 DEF ApplyVirtualKey
  <2>8. ASSUME NEW f \in fetched, InvalidateMasterKey(f)  PROVE TypeOK'
    <3>1. f.key \in Keys /\ f.key \in Items /\ f.at \in 0 .. clock /\ 0 \in 0 .. clock
      BY DEF Fetched, Items
    <3>2. cache' \in [Items -> 0 .. clock]
      BY <2>8, <3>1 DEF InvalidateMasterKey
    <3>3. seen' \in [Keys -> 0 .. clock]
      BY <2>8, <3>1 DEF InvalidateMasterKey
    <3> QED  BY <2>8, <3>2, <3>3 DEF InvalidateMasterKey
  <2>9. CASE StartPoll
    BY <2>9 DEF StartPoll, Stages
  <2>10. CASE QueryVirtualKeys
    <3>1. fetched' \in SUBSET Fetched /\ \A f \in fetched' : f.at <= clock
      BY <2>10 DEF QueryVirtualKeys, UpdatedAfter, Fetched, Keys, Items, Rows
    <3> QED  BY <2>10, <3>1 DEF QueryVirtualKeys, Stages
  <2>11. CASE QueryMasterKeys
    <3>1. fetched' \in SUBSET Fetched /\ \A f \in fetched' : f.at <= clock
      BY <2>11 DEF QueryMasterKeys, UpdatedAfter, Fetched, Keys, Items, Rows
    <3> QED  BY <2>11, <3>1 DEF QueryMasterKeys, Stages
  <2>12. CASE PollFails
    BY <2>12 DEF PollFails, CursorAfterFailure, Stages
  <2>13. CASE RowsApplied
    BY <2>13 DEF RowsApplied, Stages
  <2>14. CASE CheckProviderConfigs
    BY <2>14 DEF CheckProviderConfigs, AllowlistFailed, Stages, Windows
  <2>15. CASE ReloadAllowlist
    <3>1. row[Allowlist].at \in 0 .. clock /\ Allowlist \in Items
      BY DEF Items, Rows
    <3>2. cache' \in [Items -> 0 .. clock]
      BY <2>15, <3>1 DEF ReloadAllowlist
    <3> QED  BY <2>15, <3>2 DEF ReloadAllowlist, AllowlistFailed, Stages, Windows
  <2>16. CASE EndPoll
    BY <2>16 DEF EndPoll, CursorAfterPoll, Stages
  <2> QED  BY <2>1, <2>2, <2>3, <2>4, <2>5, <2>6, <2>7, <2>8, <2>9, <2>10, <2>11,
              <2>12, <2>13, <2>14, <2>15, <2>16 DEF Next
<1> QED  BY <1>1, <1>2, PTL DEF Spec

-----------------------------------------------------------------------------
(* A step that leaves the row and the history of a key alone, adds no read *)
(* of it, and settles it only when its entry is fresh, keeps it in order.  *)
LEMMA QuietFrame ==
    ASSUME IInv, NEW k \in Keys, during'[k] = during[k], row'[k] = row[k],
           cache'[k] = cache[k], during'[k] = {} /\ Settled(k)' => Settled(k)
    PROVE  during'[k] = {} /\ Settled(k)' => ~Stale(k)'
BY DEF IInv, QuietSettled, Stale

(* QuietUpdateSeen: the cursor passes a quiet update only after the cache  *)
(* has caught up with it.                                                  *)
THEOREM QuietUpdateIsNeverLost == Spec => []QuietUpdateSeen
<1>1. Init => IInv
  <2> SUFFICES ASSUME Init PROVE IInv
    OBVIOUS
  <2>1. TypeOK
    BY ConstantsAssumption DEF Init, TypeOK, Items, Rows, Fetched, Stages, Windows
  <2>2. FetchedRows /\ SeenOld /\ ReadsCurrent
    BY DEF Init, FetchedRows, SeenOld, ReadsCurrent, Keys, Items
  <2>3. QuietSettled
    BY ConstantsAssumption DEF Init, QuietSettled, Stale, Keys, Items
  <2> QED  BY <2>1, <2>2, <2>3 DEF IInv
<1>2. IInv /\ TypeOK' /\ [Next]_vars => IInv'
  <2> SUFFICES ASSUME IInv, TypeOK', [Next]_vars
               PROVE (FetchedRows /\ SeenOld /\ ReadsCurrent /\ QuietSettled)'
    BY DEF IInv
  <2> USE DEF dbVars, pollVars, requestVars
  <2>0. \A k \in Keys : k \in Items /\ k # Allowlist
    BY ConstantsAssumption DEF Items
  <2>1. CASE UNCHANGED vars
    BY <2>1 DEF vars, IInv, FetchedRows, SeenOld, ReadsCurrent, RowOf, QuietSettled, Settled, Stale
  <2>2. ASSUME NEW i \in Items, NEW active \in BOOLEAN, Update(i, active)
        PROVE  (FetchedRows /\ SeenOld /\ ReadsCurrent /\ QuietSettled)'
    <3>1. clock' = clock + 1 /\ row' = [row EXCEPT ![i] = [at |-> clock + 1, active |-> active]]
          /\ during' = [during EXCEPT ![i] = Overlapped(i)]
          /\ UNCHANGED <<cache, cursor, stage, fetched, seen, missed, inflight>>
      BY <2>2 DEF Update
    <3>2. \A j \in Items : j # i => row'[j] = row[j] /\ during'[j] = during[j]
      BY <3>1 DEF IInv, TypeOK
    <3>3. row'[i] = [at |-> clock + 1, active |-> active] /\ during'[i] = Overlapped(i)
      BY <3>1 DEF IInv, TypeOK
    <3>4. \A j \in Items : row[j].at <= row'[j].at
      BY <3>2, <3>3 DEF IInv, TypeOK
    <3>5. i \in Keys /\ during'[i] = {} => cursor # 0 /\ stage = "idle" /\ inflight[i] = {}
      BY <3>3 DEF Overlapped, Windows
    <3>6. FetchedRows'
      BY <3>1, <3>4, <2>0 DEF FetchedRows, IInv, TypeOK, Fetched, Rows
    <3>7. SeenOld'
      BY <3>1, <3>4, <2>0 DEF SeenOld, IInv, TypeOK, Rows
    <3>8. ReadsCurrent'
      BY <3>1, <3>2, <3>5, <2>0 DEF ReadsCurrent, RowOf, IInv, FetchedRows
    <3>9. ASSUME NEW k \in Keys  PROVE (during[k] = {} /\ Settled(k) => ~Stale(k))'
      <4>1. CASE k # i
        <5>1. row'[k] = row[k] /\ during'[k] = during[k]
          BY <3>2, <4>1, <2>0
        <5>2. UNCHANGED <<cache, cursor, stage, fetched, seen>>
          BY <3>1
        <5>3. Settled(k)' => Settled(k)
          BY <5>1, <5>2 DEF Settled, RowOf
        <5> QED  BY <5>1, <5>2, <5>3, QuietFrame
      <4>2. CASE k = i
        <5>1. cursor <= clock /\ seen[k] <= clock /\ cursor \in Nat /\ seen[k] \in Nat /\ clock \in Nat
          BY DEF IInv, TypeOK
        <5> QED  BY <3>1, <3>3, <3>5, <4>2, <5>1 DEF Settled
      <4> QED  BY <4>1, <4>2
    <3> QED  BY <3>6, <3>7, <3>8, <3>9 DEF QuietSettled
  <2>3. ASSUME NEW k \in Keys, Miss(k) \/ ReadFails(k)
        PROVE  (FetchedRows /\ SeenOld /\ ReadsCurrent /\ QuietSettled)'
    <3>1. UNCHANGED <<clock, row, during, cache, cursor, stage, fetched, seen, inflight>>
      BY <2>3 DEF Miss, ReadFails
    <3> QED  BY <3>1 DEF IInv, FetchedRows, SeenOld, ReadsCurrent, RowOf, QuietSettled, Settled, Stale
  <2>4. ASSUME NEW k \in Keys, Read(k)
        PROVE  (FetchedRows /\ SeenOld /\ ReadsCurrent /\ QuietSettled)'
    <3>1. UNCHANGED <<clock, row, during, cache, cursor, stage, fetched, seen>>
      BY <2>4 DEF Read
    <3>2. \A j \in Keys : \A v \in inflight'[j] : v \in inflight[j] \/ (v = row[j].at /\ row[j].active)
      BY <2>4 DEF Read, IInv, TypeOK
    <3> QED  BY <3>1, <3>2 DEF IInv, FetchedRows, SeenOld, ReadsCurrent, RowOf, QuietSettled, Settled, Stale
  <2>6. ASSUME NEW k \in Keys, NEW v \in inflight[k], Fill(k, v)
        PROVE  (FetchedRows /\ SeenOld /\ ReadsCurrent /\ QuietSettled)'
    <3>1. UNCHANGED <<clock, row, during, cursor, stage, fetched, seen>>
      BY <2>6 DEF Fill
    <3>2. \A j \in Keys : inflight'[j] \subseteq inflight[j]
      BY <2>6 DEF Fill, IInv, TypeOK
    <3>3. v \in 1 .. clock /\ cache' \in Put(k, v)
      BY <2>6 DEF Fill, IInv, TypeOK
    <3>4. cache'[k] = v /\ \A j \in Items \ {k} : cache'[j] = cache[j] \/ (j \in Keys /\ cache'[j] = 0)
      BY <3>3, PutFacts DEF IInv
    <3>5. FetchedRows' /\ SeenOld' /\ ReadsCurrent'
      BY <3>1, <3>2 DEF IInv, FetchedRows, SeenOld, ReadsCurrent, RowOf
    <3>6. ASSUME NEW j \in Keys  PROVE (during[j] = {} /\ Settled(j) => ~Stale(j))'
      <4>1. CASE j = k
        BY <3>1, <3>4, <4>1, <2>0 DEF IInv, ReadsCurrent, Stale
      <4>2. CASE j # k /\ cache'[j] = cache[j]
        BY <3>1, <4>2, QuietFrame DEF Settled, RowOf
      <4>3. CASE j # k /\ cache'[j] = 0
        BY <4>3, <2>0 DEF Stale
      <4> QED  BY <3>4, <4>1, <4>2, <4>3, <2>0
    <3> QED  BY <3>5, <3>6 DEF QuietSettled
  <2>7. ASSUME NEW f \in fetched, ApplyVirtualKey(f)
        PROVE  (FetchedRows /\ SeenOld /\ ReadsCurrent /\ QuietSettled)'
    <3>1. stage = "applyVirtual" /\ fetched' = fetched \ {f}
          /\ UNCHANGED <<clock, row, during, cursor, stage, missed, inflight>>
      BY <2>7 DEF ApplyVirtualKey
    <3>2. f.key \in VirtualKeys /\ f.key \in Keys /\ f.key \in Items /\ f.at \in Nat
          /\ f.at <= row[f.key].at
      BY <3>1, <2>0 DEF IInv, TypeOK, FetchedRows, Fetched
    <3>3. FetchedRows' /\ ReadsCurrent'
      BY <3>1 DEF IInv, FetchedRows, ReadsCurrent, RowOf
    <3>4. SeenOld'
      BY <2>7, <3>1, <3>2, <2>0 DEF ApplyVirtualKey, IInv, SeenOld, TypeOK, Rows
    <3>5. ASSUME NEW k \in Keys  PROVE (during[k] = {} /\ Settled(k) => ~Stale(k))'
      <4>1. CASE k # f.key
        <5>1. cache'[k] = cache[k] /\ seen'[k] = seen[k]
          BY <2>7, <3>2, <4>1, <2>0 DEF ApplyVirtualKey, CacheAfterRow, IInv, TypeOK
        <5>2. RowOf(k) # f
          BY <4>1 DEF RowOf
        <5>3. Settled(k)' => Settled(k)
          BY <3>1, <5>1, <5>2 DEF Settled, RowOf
        <5> QED  BY <3>1, <5>1, <5>3, QuietFrame
      <4>2. CASE k = f.key /\ during[k] = {}
        <5>1. f.at = row[k].at /\ f.active = row[k].active
          BY <4>2 DEF IInv, ReadsCurrent, RowOf
        <5>2. CASE f.at <= seen[k]
          <6>1. seen[k] \in Nat /\ seen[k] <= row[k].at
            BY DEF IInv, SeenOld, TypeOK
          <6>2. seen[k] = row[k].at
            BY <6>1, <5>1, <5>2, <4>2, <3>2
          <6>3. cache' = cache
            BY <2>7, <4>2, <5>2 DEF ApplyVirtualKey, CacheAfterRow
          <6>4. ~Stale(k)
            BY <6>2, <4>2 DEF IInv, QuietSettled, Settled
          <6> QED  BY <3>1, <6>3, <6>4 DEF Stale
        <5>3. CASE ~(f.at <= seen[k])
          <6>1. cache'[k] = IF f.active THEN f.at ELSE 0
            BY <2>7, <4>2, <5>3, <3>2 DEF ApplyVirtualKey, CacheAfterRow, IInv, TypeOK
          <6> QED  BY <3>1, <5>1, <6>1, <2>0 DEF Stale
        <5> QED  BY <5>2, <5>3
      <4> QED  BY <3>1, <4>1, <4>2
    <3> QED  BY <3>3, <3>4, <3>5 DEF QuietSettled
  <2>8. ASSUME NEW f \in fetched, InvalidateMasterKey(f)
        PROVE  (FetchedRows /\ SeenOld /\ ReadsCurrent /\ QuietSettled)'
    <3>1. stage = "applyMaster" /\ fetched' = fetched \ {f}
          /\ UNCHANGED <<clock, row, during, cursor, stage, missed, inflight>>
      BY <2>8 DEF InvalidateMasterKey
    <3>2. f.key \in MasterKeys /\ f.key \in Keys /\ f.key \in Items /\ f.at \in Nat
          /\ f.at <= row[f.key].at
      BY <3>1, <2>0 DEF IInv, TypeOK, FetchedRows, Fetched
    <3>3. FetchedRows' /\ ReadsCurrent'
      BY <3>1 DEF IInv, FetchedRows, ReadsCurrent, RowOf
    <3>4. SeenOld'
      BY <2>8, <3>1, <3>2, <2>0 DEF InvalidateMasterKey, IInv, SeenOld, TypeOK, Rows
    <3>5. ASSUME NEW k \in Keys  PROVE (during[k] = {} /\ Settled(k) => ~Stale(k))'
      <4>1. CASE k # f.key
        <5>1. cache'[k] = cache[k] /\ seen'[k] = seen[k]
          BY <2>8, <3>2, <4>1, <2>0 DEF InvalidateMasterKey, IInv, TypeOK
        <5>2. RowOf(k) # f
          BY <4>1 DEF RowOf
        <5>3. Settled(k)' => Settled(k)
          BY <3>1, <5>1, <5>2 DEF Settled, RowOf
        <5> QED  BY <3>1, <5>1, <5>3, QuietFrame
      <4>2. CASE k = f.key /\ during[k] = {}
        <5>1. f.at = row[k].at /\ f.active = row[k].active
          BY <4>2 DEF IInv, ReadsCurrent, RowOf
        <5>2. CASE ~(f.at > seen[k])
          <6>1. seen[k] \in Nat /\ seen[k] <= row[k].at
            BY DEF IInv, SeenOld, TypeOK
          <6>2. seen[k] = row[k].at
            BY <6>1, <5>1, <5>2, <4>2, <3>2
          <6>3. cache' = cache
            BY <2>8, <4>2, <5>2 DEF InvalidateMasterKey
          <6>4. ~Stale(k)
            BY <6>2, <4>2 DEF IInv, QuietSettled, Settled
          <6> QED  BY <3>1, <6>3, <6>4 DEF Stale
        <5>3. CASE f.at > seen[k]
          <6>1. cache'[k] = 0
            BY <2>8, <4>2, <5>3, <3>2 DEF InvalidateMasterKey, IInv, TypeOK
          <6> QED  BY <6>1, <2>0 DEF Stale
        <5> QED  BY <5>2, <5>3
      <4> QED  BY <3>1, <4>1, <4>2
    <3> QED  BY <3>3, <3>4, <3>5 DEF QuietSettled
  <2>9. CASE StartPoll \/ PollFails
    <3>1. UNCHANGED <<clock, row, during, cache, cursor, fetched, seen, missed, inflight>>
          /\ stage \in {"idle", "virtual", "master"} /\ stage' \in {"virtual", "idle"}
      BY <2>9 DEF StartPoll, PollFails, CursorAfterFailure
    <3>2. FetchedRows' /\ SeenOld' /\ ReadsCurrent'
      BY <3>1 DEF IInv, FetchedRows, SeenOld, ReadsCurrent, RowOf
    <3>3. \A k \in Keys : Settled(k)' => Settled(k)
      BY <3>1 DEF Settled, RowOf
    <3> QED  BY <3>1, <3>2, <3>3, QuietFrame DEF QuietSettled
  <2>10. CASE QueryVirtualKeys
    <3>1. UNCHANGED <<clock, row, during, cache, cursor, seen, missed, inflight>>
          /\ stage = "virtual" /\ stage' = "applyVirtual" /\ fetched' = UpdatedAfter(VirtualKeys)
      BY <2>10 DEF QueryVirtualKeys
    <3>2. \A f \in fetched' : f.key \in VirtualKeys /\ f = RowOf(f.key)
      BY <3>1 DEF UpdatedAfter, RowOf
    <3>3. \A k \in VirtualKeys : cursor # 0 /\ row[k].at > cursor => RowOf(k) \in fetched'
      BY <3>1 DEF UpdatedAfter, RowOf
    <3>4. \A k \in Keys : cursor \in Nat /\ row[k].at \in Nat
      BY <2>0 DEF IInv, TypeOK
    <3>5. FetchedRows' /\ SeenOld' /\ ReadsCurrent'
      BY <3>1, <3>2, <3>4 DEF IInv, FetchedRows, SeenOld, ReadsCurrent, RowOf, Keys
    <3>6. \A k \in Keys : Settled(k)' => Settled(k)
      BY <3>1, <3>3, <3>4 DEF Settled, RowOf
    <3> QED  BY <3>1, <3>5, <3>6, QuietFrame DEF QuietSettled
  <2>11. CASE QueryMasterKeys
    <3>1. UNCHANGED <<clock, row, during, cache, cursor, seen, missed, inflight>>
          /\ stage = "master" /\ stage' = "applyMaster" /\ fetched' = UpdatedAfter(MasterKeys)
      BY <2>11 DEF QueryMasterKeys
    <3>2. \A f \in fetched' : f.key \in MasterKeys /\ f = RowOf(f.key)
      BY <3>1 DEF UpdatedAfter, RowOf
    <3>3. \A k \in MasterKeys : cursor # 0 /\ row[k].at > cursor => RowOf(k) \in fetched'
      BY <3>1 DEF UpdatedAfter, RowOf
    <3>4. \A k \in Keys : cursor \in Nat /\ row[k].at \in Nat
      BY <2>0 DEF IInv, TypeOK
    <3>5. FetchedRows' /\ SeenOld' /\ ReadsCurrent'
      BY <3>1, <3>2, <3>4 DEF IInv, FetchedRows, SeenOld, ReadsCurrent, RowOf, Keys
    <3>6. \A k \in Keys : Settled(k)' => Settled(k)
      BY <3>1, <3>3, <3>4 DEF Settled, RowOf
    <3> QED  BY <3>1, <3>5, <3>6, QuietFrame DEF QuietSettled
  <2>13. CASE RowsApplied
    <3>1. UNCHANGED <<clock, row, during, cache, cursor, fetched, seen, missed, inflight>>
          /\ fetched = {}
          /\ \/ stage = "applyVirtual" /\ stage' = "master"
             \/ stage = "applyMaster" /\ stage' = "configs"
      BY <2>13 DEF RowsApplied
    <3>2. FetchedRows' /\ SeenOld' /\ ReadsCurrent'
      BY <3>1 DEF IInv, FetchedRows, SeenOld, ReadsCurrent, RowOf
    <3>3. \A k \in Keys : Settled(k)' => Settled(k)
      BY <3>1 DEF Settled, RowOf
    <3> QED  BY <3>1, <3>2, <3>3, QuietFrame DEF QuietSettled
  <2>14. CASE CheckProviderConfigs \/ ReloadAllowlist
    <3>1. UNCHANGED <<clock, row, cursor, fetched, seen, missed, inflight>>
          /\ stage \in {"configs", "reload"} /\ stage' \in {"reload", "end"}
      BY <2>14 DEF CheckProviderConfigs, ReloadAllowlist
    <3>2. \A k \in Keys : cache'[k] = cache[k] /\ during'[k] = during[k]
      BY <2>14, <2>0 DEF CheckProviderConfigs, ReloadAllowlist, AllowlistFailed, IInv, TypeOK
    <3>3. FetchedRows' /\ SeenOld' /\ ReadsCurrent'
      BY <3>1, <3>2 DEF IInv, FetchedRows, SeenOld, ReadsCurrent, RowOf
    <3>4. \A k \in Keys : Settled(k)' => Settled(k)
      BY <3>1 DEF Settled, RowOf
    <3> QED  BY <3>1, <3>2, <3>3, <3>4, QuietFrame DEF QuietSettled
  <2>16. CASE EndPoll
    <3>1. UNCHANGED <<clock, row, during, cache, fetched, seen, missed, inflight>>
          /\ stage = "end" /\ stage' = "idle"
      BY <2>16 DEF EndPoll
    <3>2. FetchedRows' /\ SeenOld' /\ ReadsCurrent'
      BY <3>1 DEF IInv, FetchedRows, SeenOld, ReadsCurrent, RowOf
    <3>3. \A k \in Keys : Settled(k)
      BY <3>1 DEF Settled, Keys
    <3> QED  BY <3>1, <3>2, <3>3, QuietFrame DEF QuietSettled
  <2> QED  BY <2>1, <2>2, <2>3, <2>4, <2>6, <2>7, <2>8, <2>9, <2>10, <2>11,
              <2>13, <2>14, <2>16 DEF Next
<1>3. IInv => QuietUpdateSeen
  BY DEF IInv, QuietSettled, QuietUpdateSeen, Settled, Polled
<1> QED  BY <1>1, <1>2, <1>3, TypeCorrect, PTL DEF Spec

-----------------------------------------------------------------------------
(* The allowlist's row is always active; when its last update was quiet    *)
(* and no failure followed, the snapshot holds it as soon as the cursor    *)
(* has passed it or the poll is about to move the cursor past it.          *)
AllowlistInv ==
    /\ row[Allowlist].active
    /\ row[Allowlist].at > 1 /\ during[Allowlist] = {}
       /\ (row[Allowlist].at <= cursor \/ stage = "end")
            => cache[Allowlist] = row[Allowlist].at

(* AllowlistUpdateSeen: a quiet change of provider_configs is in the       *)
(* snapshot once the cursor has passed it, unless a query failed.          *)
THEOREM AllowlistIsNeverLost == Spec => []AllowlistUpdateSeen
<1>1. Init => AllowlistInv
  BY DEF Init, AllowlistInv, Items
<1>2. TypeOK /\ TypeOK' /\ AllowlistInv /\ [Next]_vars => AllowlistInv'
  <2> SUFFICES ASSUME TypeOK, TypeOK', AllowlistInv, [Next]_vars  PROVE AllowlistInv'
    OBVIOUS
  <2> USE DEF dbVars, pollVars, requestVars, AllowlistInv
  <2>0. /\ Allowlist \in Items /\ Allowlist \notin Keys
        /\ row[Allowlist].at \in Nat /\ cursor \in Nat /\ clock \in Nat
        /\ row[Allowlist].at <= clock /\ cursor <= clock
    BY ConstantsAssumption DEF TypeOK, Items, Rows
  <2>1. CASE UNCHANGED vars
    BY <2>1 DEF vars
  <2>2. ASSUME NEW i \in Items, NEW active \in BOOLEAN, Update(i, active)
        PROVE  AllowlistInv'
    <3>1. CASE i # Allowlist
      <4>1. row'[Allowlist] = row[Allowlist] /\ during'[Allowlist] = during[Allowlist]
            /\ UNCHANGED <<cursor, stage, cache>>
        BY <2>2, <2>0, <3>1 DEF Update, TypeOK
      <4> QED  BY <4>1
    <3>2. CASE i = Allowlist
      <4>1. row'[Allowlist] = [at |-> clock + 1, active |-> TRUE]
            /\ during'[Allowlist] = Overlapped(Allowlist)
            /\ UNCHANGED <<cursor, stage, cache>>
        BY <2>2, <2>0, <3>2 DEF Update, TypeOK
      <4>2. Overlapped(Allowlist) = {} => stage # "end"
        BY DEF Overlapped, Windows
      <4> QED  BY <4>1, <4>2, <2>0
    <3> QED  BY <3>1, <3>2
  <2>3. ASSUME NEW k \in Keys, Miss(k) \/ Read(k) \/ ReadFails(k)  PROVE AllowlistInv'
    BY <2>3 DEF Miss, Read, ReadFails
  <2>4. ASSUME NEW k \in Keys, NEW v \in inflight[k], Fill(k, v)  PROVE AllowlistInv'
    <3>1. v \in 1 .. clock /\ cache' \in Put(k, v)
          /\ UNCHANGED <<row, during, cursor, stage>>
      BY <2>4 DEF Fill, TypeOK
    <3>2. cache'[Allowlist] = cache[Allowlist]
      BY <3>1, <2>0, PutFacts
    <3> QED  BY <3>1, <3>2
  <2>5. ASSUME NEW f \in fetched, ApplyVirtualKey(f) \/ InvalidateMasterKey(f)
        PROVE  AllowlistInv'
    <3>1. f.key \in Keys /\ UNCHANGED <<row, during, cursor, stage>>
      BY <2>5 DEF ApplyVirtualKey, InvalidateMasterKey, TypeOK, Fetched
    <3>2. cache'[Allowlist] = cache[Allowlist]
      BY <2>5, <2>0, <3>1 DEF ApplyVirtualKey, InvalidateMasterKey, CacheAfterRow, TypeOK
    <3> QED  BY <3>1, <3>2
  <2>6. CASE StartPoll \/ QueryVirtualKeys \/ QueryMasterKeys \/ RowsApplied
    BY <2>6 DEF StartPoll, QueryVirtualKeys, QueryMasterKeys, RowsApplied
  <2>7. CASE PollFails
    BY <2>7 DEF PollFails, CursorAfterFailure
  <2>8. CASE CheckProviderConfigs
    <3>1. CASE ~AllowlistFailed
      BY <2>8, <2>0, <3>1 DEF CheckProviderConfigs, ConfigsChanged
    <3>2. CASE AllowlistFailed
      <4>1. during'[Allowlist] # {}
        BY <3>2, <2>0 DEF AllowlistFailed, TypeOK
      <4> QED  BY <4>1, <2>8 DEF CheckProviderConfigs
    <3> QED  BY <2>8, <3>1, <3>2 DEF CheckProviderConfigs
  <2>9. CASE ReloadAllowlist
    <3>1. CASE AllowlistFailed
      <4>1. during'[Allowlist] # {}
        BY <3>1, <2>0 DEF AllowlistFailed, TypeOK
      <4> QED  BY <4>1, <2>9 DEF ReloadAllowlist
    <3>2. CASE cache' = [cache EXCEPT ![Allowlist] = row[Allowlist].at]
      <4>1. cache'[Allowlist] = row[Allowlist].at
        BY <3>2, <2>0 DEF TypeOK
      <4> QED  BY <4>1, <2>9 DEF ReloadAllowlist
    <3> QED  BY <2>9, <3>1, <3>2 DEF ReloadAllowlist
  <2>10. CASE EndPoll
    BY <2>10 DEF EndPoll
  <2> QED  BY <2>1, <2>2, <2>3, <2>4, <2>5, <2>6, <2>7, <2>8, <2>9, <2>10 DEF Next
<1>3. AllowlistInv => AllowlistUpdateSeen
  BY DEF AllowlistInv, AllowlistUpdateSeen, Polled, Stale
<1> QED  BY <1>1, <1>2, <1>3, TypeCorrect, PTL DEF Spec

-----------------------------------------------------------------------------
(* Admission.  The invariant says, stage by stage, what the stages before  *)
(* have established of the request; the control plane's rows do not occur  *)
(* in it, which is why their changes cannot disturb it.                    *)

Choosing == {"new", "auth", "collect", "determine", "default"}
Early == Choosing \cup {"plan", "proxy", "map"}
Written == {"dispatch", "evaluate", "send", "sent", "fallback", "resent"}
Chosen == {"proxy", "map", "enforce", "convert"} \cup Written
Ended == {"listed", "refused"}

\* The captured lists clear the model of r.
Cleared(r) == ModelAccessAllowed(r.model, r.access.allowed, r.access.blocked)

\* The name of r as it is sent is the one that was checked, perhaps without its prefix,
\* or one of the catalog's.
Worded(r) == r.mapped \/ r.wire = r.model \/ r.wire = Bare[r.model]

\* A request's model, once chosen, is cleared by the captured lists, or is a
\* default that the key does not block, or the policy service put it there.
ModelStage(st, r) ==
    /\ st \in Choosing => r.from = "client"
    /\ st \in {"determine", "default", "plan"} => r.path # "media"
    /\ st # "refused" => r.denied # "model"
    /\ r.from = "default" => r.model \notin r.access.blocked /\ r.denied # "model"
    /\ st \in Chosen \cup {"plan"} => r.model \in Models
    /\ st \in Chosen => r.checked /\ (r.from # "service" => Cleared(r))
    /\ st \in Written \/ (st \in Chosen /\ r.path = "media") => Worded(r)

\* What the policy service has allowed so far, by the stage.
Consents(st, r) ==
    IF st \in Early THEN 0
    ELSE (IF r.path = "media" THEN 0 ELSE 1)
         + (IF st \in {"send"} \cup Sent /\ IsCustom(r.key) THEN 1 ELSE 0)

ConsentStage(st, r) ==
    st \notin Ended =>
        /\ r.allowed <= Consents(st, r)
        /\ policyService = "deny" => r.allowed = Consents(st, r)

\* The key and the proxy that carries its requests belong together.
CarrierStage(st, r) ==
    /\ IsCustom(r.key) => r.key.url
    /\ st = "evaluate" => IsCustom(r.key)
    /\ st \in {"fallback", "resent"} => ~IsCustom(r.key)
    /\ st \in Chosen \ {"proxy", "fallback", "resent"} =>
          IsCustom(r.key) \/ r.carrier = r.key.provider
    /\ st \in Sent => r.sentKey.provider \in {r.carrier, "custom"}

StageInv(st, r) ==
    ModelStage(st, r) /\ ConsentStage(st, r) /\ CarrierStage(st, r)

AdmissionInv == AdmissionTypeOK /\ StageInv(req.stage, req)

\* A request that has not been authenticated fits its stage.
LEMMA AdmissionInitInv == AdmissionInit => AdmissionInv
<1> SUFFICES ASSUME AdmissionInit  PROVE AdmissionInv
  OBVIOUS
<1>1. AdmissionTypeOK
  <2>1. [allowed |-> {}, blocked |-> {}] \in [allowed : SUBSET Models, blocked : SUBSET Models]
    OBVIOUS
  <2>2. virtualKey \in [live : BOOLEAN, access : AccessLists]
    BY DEF AdmissionInit
  <2>3. masterKey \in MasterKeyRows
    BY DEF AdmissionInit
  <2>4. changes \in 0 .. MaxChanges
    BY AdmissionAssumption DEF AdmissionInit
  <2> QED
    BY <2>1, <2>2, <2>3, <2>4
    DEF AdmissionInit, AdmissionTypeOK, AdmRequests, AdmStages, AdmPaths
<1>2. StageInv(req.stage, req)
  BY DEF AdmissionInit, StageInv, ModelStage, ConsentStage, CarrierStage, Consents, Choosing,
         Early, Chosen, Written, Sent, IsCustom, NoMaster
<1> QED  BY <1>1, <1>2 DEF AdmissionInv

-----------------------------------------------------------------------------
(* Steps of the request.                                                    *)

\* All rows stay, and what counts is the request that enters a stage.
LEMMA ReadsKeepRows ==
  ASSUME AdmissionInv, Reads, req' \in AdmRequests, StageInv(req.stage, req)'
  PROVE  AdmissionInv'
BY DEF AdmissionInv, AdmissionTypeOK, Reads, controlVars

\* A request r that fits the stage it enters.
LEMMA EnterKeeps ==
  ASSUME AdmissionInv, Reads, NEW st \in AdmStages, NEW r \in AdmRequests,
         Enter(st, r), StageInv(st, r)
  PROVE  AdmissionInv'
<1>1. req' \in AdmRequests
  BY DEF Enter, AdmRequests
<1>2. /\ req'.stage = st /\ req'.path = r.path /\ req'.model = r.model /\ req'.from = r.from
      /\ req'.wire = r.wire /\ req'.mapped = r.mapped /\ req'.access = r.access /\ req'.key = r.key /\ req'.carrier = r.carrier
      /\ req'.checked = r.checked /\ req'.allowed = r.allowed /\ req'.denied = r.denied
      /\ req'.sentKey = r.sentKey
  BY DEF Enter, AdmRequests
<1>3. policyService' = policyService
  BY DEF Reads
<1>4. StageInv(req.stage, req)'
  BY <1>2, <1>3
     DEF StageInv, ModelStage, ConsentStage, CarrierStage, Consents, Cleared, Worded
<1> QED  BY <1>1, <1>4, ReadsKeepRows

\* A refusal for the model's sake of anything but a default model.
LEMMA RefuseKeeps ==
  ASSUME AdmissionInv, Reads, NEW why \in {"model", "other"}, Refuse(why),
         why = "model" => req.from # "default"
  PROVE  AdmissionInv'
<1>0. req \in AdmRequests
  BY DEF AdmissionInv, AdmissionTypeOK
<1>1. req' \in AdmRequests
  BY <1>0 DEF Refuse, AdmRequests, AdmStages
<1>2. /\ req'.stage = "refused" /\ req'.model = req.model /\ req'.from = req.from
      /\ req'.access = req.access /\ req'.key = req.key /\ req'.denied = why
  BY <1>0 DEF Refuse, AdmRequests
<1>3. policyService' = policyService
  BY DEF Reads
<1>4. StageInv(req.stage, req)'
  BY <1>2, <1>3
     DEF AdmissionInv, StageInv, ModelStage, ConsentStage, CarrierStage, Consents, Cleared,
         Choosing, Chosen, Written, Sent, Ended
<1> QED  BY <1>1, <1>4, ReadsKeepRows

\* The policy service's part: the model it puts there is its own, and its consent
\* is counted.
LEMMA EvaluateKeeps ==
  ASSUME AdmissionInv, Reads, NEW next, EvaluateForVkRequest(next),
         \/ req.stage = "map" /\ next = "enforce" /\ req.path # "media"
         \/ req.stage = "evaluate" /\ next = "send"
  PROVE  AdmissionInv'
<1> USE DEF StageInv, ModelStage, ConsentStage, CarrierStage, Consents, Cleared, Worded, Early,
            Choosing, Chosen, Written, Sent, Ended
<1>1. req \in AdmRequests /\ next \in AdmStages
  BY DEF AdmissionInv, AdmissionTypeOK, AdmStages
<1>2. req.allowed \in 0 .. 2 /\ policyService \in {"off", "allow", "deny"}
  BY <1>1 DEF AdmRequests, AdmissionInv, AdmissionTypeOK
<1>3. req.allowed \in 0 .. 1
  BY <1>1, <1>2 DEF AdmissionInv
<1>4. CASE policyService # "deny" /\ Enter(next, req)
  <2>1. StageInv(next, req)
    BY <1>1, <1>4, <1>3 DEF AdmissionInv
  <2> QED  BY <1>1, <1>4, <2>1, EnterKeeps
<1>5. CASE Enter(next, [req EXCEPT !.allowed = @ + 1])
  <2> DEFINE r == [req EXCEPT !.allowed = @ + 1]
  <2>1. /\ r \in AdmRequests /\ r.allowed = req.allowed + 1
        /\ r.path = req.path /\ r.model = req.model /\ r.from = req.from
        /\ r.access = req.access /\ r.key = req.key /\ r.carrier = req.carrier
        /\ r.checked = req.checked /\ r.denied = req.denied
        /\ r.wire = req.wire /\ r.mapped = req.mapped
    BY <1>1, <1>3 DEF AdmRequests
  <2> HIDE DEF r
  <2>2. StageInv(next, r)
    BY <1>1, <1>3, <2>1 DEF AdmissionInv
  <2> QED  BY <1>1, <1>5, <2>1, <2>2, EnterKeeps DEF r
<1>6. ASSUME NEW m \in Models, NEW r,
             r = Changed(m) \/ r = [Changed(m) EXCEPT !.override = TRUE], Enter(next, r)
      PROVE  AdmissionInv'
  <2>1. /\ r \in AdmRequests /\ r.allowed = req.allowed + 1
        /\ r.path = req.path /\ r.from = "service"
        /\ r.access = req.access /\ r.key = req.key /\ r.carrier = req.carrier
        /\ r.checked = req.checked /\ r.denied = req.denied
        /\ r.model = m /\ r.wire = m
    <3>1. req.allowed + 1 \in 0 .. 2
      BY <1>3
    <3>2. [req EXCEPT !.model = m] \in AdmRequests
      BY <1>1, <1>6 DEF AdmRequests
    <3>3. [req EXCEPT !.model = m, !.wire = m, !.from = "service"] \in AdmRequests
      BY <1>1, <3>2 DEF AdmRequests
    <3>4. Changed(m) \in AdmRequests
      BY <1>1, <3>1, <3>3 DEF AdmRequests, Changed
    <3>5. r \in AdmRequests
      BY <3>4, <1>6 DEF AdmRequests
    <3>6. r.allowed = req.allowed + 1 /\ r.path = req.path /\ r.from = "service"
      BY <1>1, <1>6 DEF AdmRequests, Changed
    <3>7. r.access = req.access /\ r.key = req.key /\ r.carrier = req.carrier
      BY <1>1, <1>6 DEF AdmRequests, Changed
    <3>8. r.checked = req.checked /\ r.denied = req.denied
      BY <1>1, <1>6 DEF AdmRequests, Changed
    <3>9. r.model = m /\ r.wire = m
      BY <1>1, <1>6 DEF AdmRequests, Changed
    <3> QED  BY <3>5, <3>6, <3>7, <3>8, <3>9
  <2>2. StageInv(next, r)
    BY <1>1, <1>3, <2>1 DEF AdmissionInv
  <2> QED  BY <1>1, <1>6, <2>1, <2>2, EnterKeeps
<1> QED  BY <1>4, <1>5, <1>6, <1>2, RefuseKeeps DEF EvaluateForVkRequest

-----------------------------------------------------------------------------
(* One step per action.                                                     *)
LEMMA AdmissionStepInv == AdmissionInv /\ [AdmissionNext]_admissionVars => AdmissionInv'
<1> SUFFICES ASSUME AdmissionInv, [AdmissionNext]_admissionVars  PROVE AdmissionInv'
  OBVIOUS
<1>0. AdmissionTypeOK /\ req \in AdmRequests /\ StageInv(req.stage, req)
  BY DEF AdmissionInv, AdmissionTypeOK
<1> USE DEF AdmStages
<1> DEFINE FitsStage == StageInv(req.stage, req)
<1>1. ASSUME UNCHANGED <<policyService, req>>  PROVE FitsStage'
  BY <1>0, <1>1 DEF StageInv, ModelStage, ConsentStage, CarrierStage, Consents
<1>2. CASE UNCHANGED admissionVars
  <2>1. AdmissionTypeOK'
    BY <1>0, <1>2 DEF admissionVars, controlVars, AdmissionTypeOK
  <2> QED  BY <1>1, <1>2, <2>1 DEF AdmissionInv, admissionVars
<1>3. CASE ChangeRow
  <2>1. changes' \in 0 .. MaxChanges
    BY <1>0, <1>3, AdmissionAssumption DEF ChangeRow, AdmissionTypeOK
  <2>2. virtualKey' \in [live : BOOLEAN, access : AccessLists]
    BY <1>0, <1>3 DEF ChangeRow, AdmissionTypeOK
  <2>3. masterKey' \in MasterKeyRows
    BY <1>0, <1>3 DEF ChangeRow, AdmissionTypeOK
  <2>4. /\ usable' \in BOOLEAN
        /\ overrides' \in SUBSET Models
        /\ allowlist' \in SUBSET KeyProviders
    BY <1>0, <1>3 DEF ChangeRow, AdmissionTypeOK
  <2>5. UNCHANGED <<policyService, req>>
    BY <1>3 DEF ChangeRow
  <2> QED  BY <1>0, <1>1, <2>1, <2>2, <2>3, <2>4, <2>5 DEF AdmissionInv, AdmissionTypeOK
<1> HIDE DEF FitsStage
<1>4. CASE FailStage
  BY <1>4, RefuseKeeps DEF FailStage
<1>5. CASE Authenticate
  <2>1. PICK key \in MasterKeyRows \cup {NoMaster}, named \in SUBSET Models :
           /\ IsCustom(key) => key.url
           /\ Enter("collect", [req EXCEPT !.named = named, !.key = key,
                                           !.access = virtualKey.access])
    BY <1>0, <1>5 DEF Authenticate, AdmissionTypeOK, Named
  <2> DEFINE r == [req EXCEPT !.named = named, !.key = key, !.access = virtualKey.access]
  <2>2. virtualKey.access \in [allowed : SUBSET Models, blocked : SUBSET Models]
    BY <1>0, AdmissionAssumption DEF AdmissionTypeOK
  <2>3. r \in AdmRequests
    BY <1>0, <2>1, <2>2 DEF AdmRequests
  <2>4. /\ r.key = key /\ r.from = req.from /\ r.allowed = req.allowed
        /\ r.denied = req.denied
    BY <1>0 DEF AdmRequests
  <2> HIDE DEF r
  <2>5. StageInv("collect", r)
    BY <1>0, <1>5, <2>1, <2>4
    DEF Authenticate, StageInv, ModelStage, ConsentStage, CarrierStage, Consents, Choosing,
        Early, Chosen, Written, Sent, Ended
  <2> QED  BY <1>5, <2>1, <2>3, <2>5, EnterKeeps DEF r, Authenticate
<1>17. CASE Precheck
  <2>1. req.stage = "new" /\ Reads
    BY <1>17 DEF Precheck
  <2>2. CASE Refuse("other")
    BY <2>1, <2>2, RefuseKeeps
  <2>3. ASSUME NEW path \in AdmPaths, Enter("auth", [req EXCEPT !.path = path])
        PROVE  AdmissionInv'
    <3> DEFINE r == [req EXCEPT !.path = path]
    <3>1. /\ r \in AdmRequests /\ r.key = req.key /\ r.from = req.from
          /\ r.allowed = req.allowed /\ r.denied = req.denied
      BY <1>0, <2>3 DEF AdmRequests
    <3> HIDE DEF r
    <3>2. StageInv("auth", r)
      BY <1>0, <2>1, <3>1
      DEF StageInv, ModelStage, ConsentStage, CarrierStage, Consents, Choosing, Early, Chosen,
          Written, Sent, Ended
    <3> QED  BY <2>1, <2>3, <3>1, <3>2, EnterKeeps DEF r
  <2> QED  BY <1>17, <2>2, <2>3 DEF Precheck
<1>6. CASE CollectMedia
  <2>1. PICK model \in req.named :
           IF CheckModelAccess(model)
           THEN Enter("proxy", [req EXCEPT !.model = model, !.checked = TRUE,
                                           !.wire = OwnName(model, req.key.provider)])
           ELSE Refuse("model")
    BY <1>6 DEF CollectMedia
  <2>2. req.stage = "collect" /\ Reads /\ model \in Models
    BY <1>0, <1>6 DEF CollectMedia, AdmRequests
  <2>3. CASE ~CheckModelAccess(model)
    <3>1. req.from # "default"
      BY <1>0, <2>2 DEF StageInv, ModelStage, Choosing
    <3> QED  BY <2>1, <2>2, <2>3, <3>1, RefuseKeeps
  <2>4. CASE CheckModelAccess(model)
    <3> DEFINE own == OwnName(model, req.key.provider)
               r == [req EXCEPT !.model = model, !.checked = TRUE, !.wire = own]
    <3>0. own \in Models /\ (own = model \/ own = Bare[model])
      BY <2>2, AdmissionAssumption DEF OwnName
    <3> HIDE DEF own
    <3>1. /\ r \in AdmRequests
          /\ r.model = model /\ r.wire = own /\ r.checked /\ r.access = req.access /\ r.from = req.from
          /\ r.key = req.key /\ r.allowed = req.allowed /\ r.denied = req.denied
      BY <1>0, <2>2, <3>0 DEF AdmRequests
    <3> HIDE DEF r
    <3>2. StageInv("proxy", r)
      BY <1>0, <2>2, <2>4, <3>0, <3>1
      DEF StageInv, ModelStage, ConsentStage, CarrierStage, Consents, Choosing, Early, Chosen,
          Written, Sent, Ended, Cleared, Worded, CheckModelAccess
    <3> QED  BY <2>1, <2>2, <2>4, <3>1, <3>2, EnterKeeps DEF r, own
  <2> QED  BY <2>3, <2>4
<1>7. CASE CollectBody
  <2>1. /\ req.stage = "collect" /\ Reads /\ req.path # "media"
        /\ \E next \in {"listed", "determine"} : Enter(next, req)
    BY <1>7 DEF CollectBody
  <2>2. \A next \in {"listed", "determine"} : StageInv(next, req)
    BY <1>0, <2>1
    DEF StageInv, ModelStage, ConsentStage, CarrierStage, Consents, Choosing, Early, Chosen, Written, Sent, Ended
  <2> QED  BY <1>0, <2>1, <2>2, EnterKeeps
<1>8. CASE DetermineProvider
  <2>1. req.stage = "determine" /\ Reads
    BY <1>8 DEF DetermineProvider
  <2>2. CASE Enter("default", req)
    <3>1. StageInv("default", req)
      BY <1>0, <2>1
      DEF StageInv, ModelStage, ConsentStage, CarrierStage, Consents, Choosing, Early, Chosen,
          Written, Sent, Ended
    <3> QED  BY <1>0, <2>1, <2>2, <3>1, EnterKeeps
  <2>3. ASSUME NEW model \in req.named, Enter("plan", [req EXCEPT !.model = model])
        PROVE  AdmissionInv'
    <3> DEFINE r == [req EXCEPT !.model = model]
    <3>1. /\ r \in AdmRequests /\ r.from = req.from /\ r.key = req.key
          /\ r.model \in Models /\ r.allowed = req.allowed /\ r.denied = req.denied
          /\ r.path = req.path
      BY <1>0, <2>3 DEF AdmRequests
    <3> HIDE DEF r
    <3>2. StageInv("plan", r)
      BY <1>0, <2>1, <3>1
      DEF StageInv, ModelStage, ConsentStage, CarrierStage, Consents, Choosing, Early, Chosen,
          Written, Sent, Ended
    <3> QED  BY <2>1, <2>3, <3>1, <3>2, EnterKeeps DEF r
  <2> QED  BY <1>8, <2>2, <2>3 DEF DetermineProvider
<1>9. CASE InjectDefaultModel
  <2>1. req.stage = "default" /\ Reads
    BY <1>9 DEF InjectDefaultModel
  <2>2. CASE Refuse("other")
    BY <2>1, <2>2, RefuseKeeps
  <2>3. ASSUME NEW model \in DefaultCandidates,
               Enter("plan", [req EXCEPT !.model = model, !.chosen = model, !.from = "default"])
        PROVE  AdmissionInv'
    <3> DEFINE r == [req EXCEPT !.model = model, !.chosen = model, !.from = "default"]
    <3>1. model \in Models /\ model \notin req.access.blocked
      BY <1>0, <2>3
      DEF DefaultCandidates, Expanded, ModelAccessAllowed
    <3>2. /\ r \in AdmRequests /\ r.model = model /\ r.key = req.key /\ r.access = req.access
          /\ r.allowed = req.allowed /\ r.denied = req.denied /\ r.path = req.path
      BY <1>0, <3>1 DEF AdmRequests
    <3> HIDE DEF r
    <3>3. StageInv("plan", r)
      BY <1>0, <2>1, <3>1, <3>2
      DEF StageInv, ModelStage, ConsentStage, CarrierStage, Consents, Choosing, Early, Chosen,
          Written, Sent, Ended
    <3> QED  BY <2>1, <2>3, <3>2, <3>3, EnterKeeps DEF r
  <2> QED  BY <1>9, <2>2, <2>3 DEF InjectDefaultModel
<1>10. CASE PlanRoute
  <2>1. req.stage = "plan" /\ Reads
    BY <1>10 DEF PlanRoute
  <2>2. CASE ~CheckModelAccess(req.model)
    <3>1. req.from # "default"
      BY <1>0, <2>2 DEF StageInv, ModelStage, CheckModelAccess, ModelAccessAllowed
    <3> QED  BY <1>10, <2>1, <2>2, <3>1, RefuseKeeps DEF PlanRoute
  <2>3. CASE CheckModelAccess(req.model) /\ ~KeyResolved
    BY <1>10, <2>1, <2>3, RefuseKeeps DEF PlanRoute
  <2>4. CASE CheckModelAccess(req.model) /\ KeyResolved
    <3> DEFINE r == [req EXCEPT !.checked = TRUE]
    <3>1. /\ r \in AdmRequests /\ r.checked /\ r.model = req.model /\ r.from = req.from
          /\ r.access = req.access /\ r.key = req.key /\ r.allowed = req.allowed
          /\ r.denied = req.denied /\ r.path = req.path
      BY <1>0 DEF AdmRequests
    <3>2. Enter("proxy", r)
      BY <1>10, <2>4 DEF PlanRoute
    <3> HIDE DEF r
    <3>3. StageInv("proxy", r)
      BY <1>0, <2>1, <2>4, <3>1
      DEF StageInv, ModelStage, ConsentStage, CarrierStage, Consents, Choosing, Early, Chosen,
          Written, Sent, Ended, Cleared, CheckModelAccess
    <3> QED  BY <2>1, <3>1, <3>2, <3>3, EnterKeeps
  <2> QED  BY <2>2, <2>3, <2>4
<1>11. CASE InitProxy
  <2>1. req.stage = "proxy" /\ Reads
    BY <1>11 DEF InitProxy
  <2>2. CASE Refuse("other")
    BY <2>1, <2>2, RefuseKeeps
  <2>3. ASSUME NEW carrier \in Carriers, Enter("map", [req EXCEPT !.carrier = carrier])
        PROVE  AdmissionInv'
    <3> DEFINE r == [req EXCEPT !.carrier = carrier]
    <3>1. carrier \in Proxied /\ (IsCustom(req.key) \/ carrier = req.key.provider)
      BY <2>3 DEF Carriers
    <3>2. /\ r \in AdmRequests /\ r.carrier = carrier /\ r.checked = req.checked
          /\ r.model = req.model /\ r.from = req.from /\ r.access = req.access
          /\ r.wire = req.wire /\ r.mapped = req.mapped /\ r.path = req.path
          /\ r.key = req.key /\ r.allowed = req.allowed /\ r.denied = req.denied
      BY <1>0, <3>1, AdmissionAssumption DEF AdmRequests
    <3> HIDE DEF r
    <3>3. StageInv("map", r)
      BY <1>0, <2>1, <3>1, <3>2
      DEF StageInv, ModelStage, ConsentStage, CarrierStage, Consents, Choosing, Early, Chosen,
          Written, Sent, Ended, Cleared, Worded
    <3> QED  BY <2>1, <2>3, <3>2, <3>3, EnterKeeps DEF r
  <2> QED  BY <1>11, <2>2, <2>3 DEF InitProxy
<1>12. CASE MapRequest
  <2>1. req.stage = "map" /\ Reads
    BY <1>12 DEF MapRequest
  <2>2. CASE req.path = "media"
    <3>1. StageInv("dispatch", req)
      BY <1>0, <2>1, <2>2
      DEF StageInv, ModelStage, ConsentStage, CarrierStage, Consents, Choosing, Early, Chosen,
          Written, Sent, Ended
    <3> QED  BY <1>0, <1>12, <2>1, <2>2, <3>1, EnterKeeps DEF MapRequest
  <2>3. CASE req.path # "media"
    BY <1>12, <2>1, <2>3, EvaluateKeeps DEF MapRequest
  <2> QED  BY <2>2, <2>3
<1>13. CASE EnforceModelPolicy
  <2>1. /\ req.stage = "enforce" /\ Reads
        /\ StageInv("convert", req) /\ req.checked
    BY <1>0, <1>13
    DEF EnforceModelPolicy, StageInv, ModelStage, ConsentStage, CarrierStage, Consents,
        Choosing, Early, Chosen, Written, Sent, Ended
  <2> QED  BY <1>0, <1>13, <2>1, EnterKeeps DEF EnforceModelPolicy
<1>18. CASE ConvertModel
  <2>1. req.stage = "convert" /\ Reads /\ req.model \in Models
    BY <1>0, <1>18 DEF ConvertModel, StageInv, ModelStage, Chosen
  <2>2. ASSUME NEW w \in Models, NEW b \in BOOLEAN,
               b \/ w = req.model \/ w = Bare[req.model],
               Enter("dispatch", [req EXCEPT !.wire = w, !.mapped = b])
        PROVE  AdmissionInv'
    <3> DEFINE r == [req EXCEPT !.wire = w, !.mapped = b]
    <3>1. /\ r \in AdmRequests /\ r.wire = w /\ r.mapped = b /\ r.carrier = req.carrier
          /\ r.checked = req.checked /\ r.model = req.model /\ r.from = req.from
          /\ r.access = req.access /\ r.key = req.key /\ r.path = req.path
          /\ r.allowed = req.allowed /\ r.denied = req.denied
      BY <1>0, <2>2 DEF AdmRequests
    <3> HIDE DEF r
    <3>2. StageInv("dispatch", r)
      BY <1>0, <2>1, <2>2, <3>1
      DEF StageInv, ModelStage, ConsentStage, CarrierStage, Consents, Choosing, Early, Chosen,
          Written, Sent, Ended, Cleared, Worded
    <3> QED  BY <2>1, <2>2, <3>1, <3>2, EnterKeeps DEF r
  <2>3. CASE Enter("dispatch", [req EXCEPT !.wire = OwnName(req.model, req.carrier)])
    <3>1. PICK w \in Models : /\ w = OwnName(req.model, req.carrier)
                              /\ w = req.model \/ w = Bare[req.model]
      BY <2>1, AdmissionAssumption DEF OwnName
    <3>2. [req EXCEPT !.wire = w] = [req EXCEPT !.wire = w, !.mapped = req.mapped]
      BY <1>0 DEF AdmRequests
    <3>3. req.mapped \in BOOLEAN
      BY <1>0 DEF AdmRequests
    <3> QED  BY <2>2, <2>3, <3>1, <3>2, <3>3
  <2>4. ASSUME NEW model \in Models,
               Enter("dispatch", [req EXCEPT !.wire = model, !.mapped = TRUE])
        PROVE  AdmissionInv'
    BY <2>2, <2>4
  <2> QED  BY <1>18, <2>3, <2>4 DEF ConvertModel
<1>14. CASE CheckAllowlist
  <2>1. req.stage = "dispatch" /\ Reads
    BY <1>14 DEF CheckAllowlist
  <2>2. CASE Refuse("other")
    BY <2>1, <2>2, RefuseKeeps
  <2>3. CASE Enter(IF IsCustom(req.key) THEN "evaluate" ELSE "send", req)
    <3>1. StageInv(IF IsCustom(req.key) THEN "evaluate" ELSE "send", req)
      BY <1>0, <2>1
      DEF StageInv, ModelStage, ConsentStage, CarrierStage, Consents, Choosing, Early, Chosen,
          Written, Sent, Ended
    <3> QED  BY <1>0, <2>1, <2>3, <3>1, EnterKeeps
  <2> QED  BY <1>14, <2>2, <2>3 DEF CheckAllowlist
<1>15. CASE EvaluateCustom
  BY <1>15, EvaluateKeeps DEF EvaluateCustom
<1>16. ASSUME NEW st \in {"send", "fallback"}, NEW next, req.stage = st, Reads, ApplyKey(next),
              next = IF st = "send" THEN "sent" ELSE "resent"
       PROVE  AdmissionInv'
  <2>1. next \in Sent /\ next \in AdmStages
    BY <1>16 DEF Sent
  <2>2. CASE Refuse("other")
    BY <1>16, <2>2, RefuseKeeps
  <2>3. ASSUME NEW key \in SendKeys, MasterKeyProviderMatches(key),
               Enter(next, [req EXCEPT !.sentKey = key])
        PROVE  AdmissionInv'
    <3> DEFINE r == [req EXCEPT !.sentKey = key]
    <3>1. key \in MasterKeyRows /\ key.provider \in {req.carrier, "custom"}
      BY <1>0, <2>3 DEF SendKeys, SpareKeys, AdmissionTypeOK, MasterKeyProviderMatches, IsCustom
    <3>2. /\ r \in AdmRequests /\ r.sentKey = key /\ r.carrier = req.carrier
          /\ r.checked = req.checked /\ r.model = req.model /\ r.from = req.from
          /\ r.wire = req.wire /\ r.mapped = req.mapped
          /\ r.access = req.access /\ r.key = req.key /\ r.path = req.path
          /\ r.allowed = req.allowed /\ r.denied = req.denied
      BY <1>0, <3>1 DEF AdmRequests
    <3> HIDE DEF r
    <3>3. ModelStage(next, r)
      BY <1>0, <1>16, <2>1, <3>2
      DEF StageInv, ModelStage, Choosing, Chosen, Written, Sent, Cleared, Worded
    <3>4. ConsentStage(next, r) /\ CarrierStage(next, r)
      BY <1>0, <1>16, <2>1, <3>1, <3>2
      DEF StageInv, ConsentStage, CarrierStage, Consents, Choosing, Early, Chosen, Written, Sent,
          Ended
    <3> QED  BY <1>16, <2>1, <2>3, <3>2, <3>3, <3>4, EnterKeeps DEF r, StageInv
  <2> QED  BY <1>16, <2>2, <2>3 DEF ApplyKey
<1>19. CASE SendUpstream
  BY <1>16, <1>19 DEF SendUpstream
<1>20. CASE SendFallback
  BY <1>16, <1>20 DEF SendFallback
<1>21. CASE ChooseFallback
  <2>1. req.stage = "sent" /\ ~IsCustom(req.key) /\ Reads
    BY <1>21 DEF ChooseFallback
  <2>2. PICK model \in DefaultCandidates :
           /\ Prefix[model] \in allowlist
           /\ Enter("fallback", [req EXCEPT !.model = model, !.wire = model, !.mapped = FALSE,
                                            !.from = "default", !.carrier = Prefix[model]])
    BY <1>21 DEF ChooseFallback
  <2> DEFINE r == [req EXCEPT !.model = model, !.wire = model, !.mapped = FALSE,
                              !.from = "default", !.carrier = Prefix[model]]
  <2>3. model \in Models /\ model \notin req.access.blocked
    BY DEF DefaultCandidates, Expanded, ModelAccessAllowed
  <2>4. Prefix[model] \in KeyProviders
    BY <1>0, <2>2 DEF AdmissionTypeOK
  <2>5. /\ r \in AdmRequests /\ r.model = model /\ r.wire = model /\ r.from = "default"
        /\ r.checked = req.checked /\ r.access = req.access /\ r.key = req.key
        /\ r.path = req.path /\ r.allowed = req.allowed /\ r.denied = req.denied
    BY <1>0, <2>3, <2>4 DEF AdmRequests
  <2> HIDE DEF r
  <2>6. ModelStage("fallback", r)
    BY <1>0, <2>1, <2>3, <2>5
    DEF StageInv, ModelStage, Choosing, Chosen, Written, Sent, Cleared, ModelAccessAllowed, Worded
  <2>7. ConsentStage("fallback", r) /\ CarrierStage("fallback", r)
    BY <1>0, <2>1, <2>5
    DEF StageInv, ConsentStage, CarrierStage, Consents, Choosing, Early, Chosen, Written, Sent,
        Ended
  <2> QED  BY <2>1, <2>2, <2>5, <2>6, <2>7, EnterKeeps DEF r, StageInv
<1> QED
  BY <1>2, <1>3, <1>4, <1>5, <1>6, <1>7, <1>8, <1>9, <1>10, <1>11, <1>12, <1>13, <1>14, <1>15,
     <1>17, <1>18, <1>19, <1>20, <1>21
  DEF AdmissionNext

(* The stages of the unified API (router, mapper, dispatcher) keep the      *)
(* invariant while the control plane changes what they read.                *)
THEOREM AdmissionInvariant == AdmissionSpec => []AdmissionInv
<1> QED  BY AdmissionInitInv, AdmissionStepInv, PTL DEF AdmissionSpec

(* Every variable keeps its type; in particular the policy service is asked *)
(* at most twice about a request (the mapper's and the dispatcher's calls). *)
THEOREM AdmissionTypeCorrect == AdmissionSpec => []AdmissionTypeOK
<1>1. AdmissionInv => AdmissionTypeOK
  BY DEF AdmissionInv
<1> QED  BY <1>1, AdmissionInvariant, PTL

(* A model that reaches a provider was cleared by the captured lists under  *)
(* the name it had then, on the fallback too, or is the policy service's;   *)
(* and what is blocked in every spelling is sent in none, whatever prefix   *)
(* the mapper removes after the check, unless the catalog named it.         *)
THEOREM ModelIsCleared == AdmissionSpec => []ModelCleared
<1>1. AdmissionInv => ModelCleared
  <2> SUFFICES ASSUME AdmissionInv, req.stage \in Sent, req.from # "service"
               PROVE  /\ ModelAccessAllowed(req.model, req.access.allowed, req.access.blocked)
                      /\ req.mapped
                         \/ ~ Spellings(req.wire) \subseteq req.access.blocked \ req.access.allowed
    BY DEF ModelCleared
  <2>1. Cleared(req) /\ Worded(req) /\ req.model \in Models
    BY DEF AdmissionInv, StageInv, ModelStage, Chosen, Written, Sent
  <2>2. CASE req.mapped
    BY <2>1, <2>2 DEF Cleared
  <2>3. CASE req.wire = req.model \/ req.wire = Bare[req.model]
    <3>1. req.model \in Spellings(req.wire)
      BY <2>1, <2>3, AdmissionAssumption DEF Spellings
    <3> QED  BY <2>1, <3>1 DEF Cleared, ModelAccessAllowed
  <2> QED  BY <2>1, <2>2, <2>3 DEF Worded
<1> QED  BY <1>1, AdmissionInvariant, PTL

(* The gateway does not refuse the default model it chose (default model    *)
(* selection against the route planner's check).                            *)
THEOREM DefaultIsNeverRefused == AdmissionSpec => []DefaultNeverRefused
<1>1. AdmissionInv => DefaultNeverRefused
  BY DEF AdmissionInv, StageInv, ModelStage, DefaultNeverRefused
<1> QED  BY <1>1, AdmissionInvariant, PTL

(* Where an unavailable policy service denies, whatever is sent has its     *)
(* consent (the mapper's and the dispatcher's calls of the service).        *)
THEOREM SentIsFiltered == AdmissionSpec => []FilteredBeforeSent
<1>1. AdmissionInv => FilteredBeforeSent
  BY DEF AdmissionInv, StageInv, ConsentStage, CarrierStage, Consents, Choosing, Early, Ended,
         Sent, FilteredBeforeSent
<1> QED  BY <1>1, AdmissionInvariant, PTL

(* The key that authentication saw goes to its own URL or its provider's;   *)
(* another one goes astray only if one of the two names a URL or is custom  *)
(* (TargetEndpointResolver::resolve against get_primary_or_fallback).       *)
THEOREM KeyFitsItsTarget == AdmissionSpec => []KeyFitsTarget
<1>1. AdmissionInv => KeyFitsTarget
  <2> SUFFICES ASSUME AdmissionInv, req.stage \in Sent
               PROVE  /\ req.sentKey.provider \in {req.carrier, "custom"}
                      /\ \/ Home(req.sentKey) = Destination
                         \/ /\ req.sentKey # req.key
                            /\ req.key.url \/ req.sentKey.url \/ IsCustom(req.sentKey)
    BY DEF KeyFitsTarget
  <2>1. req.sentKey.provider \in {req.carrier, "custom"} /\ (IsCustom(req.key) => req.key.url)
    BY DEF AdmissionInv, StageInv, CarrierStage, Sent
  <2>2. CASE req.sentKey = req.key
    BY <2>1, <2>2 DEF Home, Destination, IsCustom
  <2>3. CASE ~req.key.url /\ ~req.sentKey.url /\ ~IsCustom(req.sentKey)
    BY <2>1, <2>3 DEF Home, Destination, IsCustom
  <2> QED  BY <2>1, <2>2, <2>3
<1> QED  BY <1>1, AdmissionInvariant, PTL

(* Everything a request that is sent was admitted for, in one statement.    *)
THEOREM WhatIsSentIsAdmitted == AdmissionSpec => []SentIsAdmitted
<1>1. ModelCleared /\ DefaultNeverRefused /\ FilteredBeforeSent /\ KeyFitsTarget
        => SentIsAdmitted
  BY DEF SentIsAdmitted
<1> QED  BY <1>1, ModelIsCleared, DefaultIsNeverRefused, SentIsFiltered, KeyFitsItsTarget, PTL

-----------------------------------------------------------------------------
(* Both sides together                                                     *)

\* What the listener and the stages of a request promise holds wherever they stand side by
\* side: updates reach the caches, and what is sent was admitted.
THEOREM KeysAreSafe ==
    KeysSpec => [](QuietUpdateSeen /\ AllowlistUpdateSeen /\ SentIsAdmitted)
<1>1. KeysInit => Init /\ AdmissionInit  BY DEF KeysInit
<1>2. [KeysNext]_<<part, vars, admissionVars>> => [Next]_vars /\ [AdmissionNext]_admissionVars
  BY DEF KeysNext
<1> QED
  BY <1>1, <1>2, QuietUpdateIsNeverLost, AllowlistIsNeverLost, WhatIsSentIsAdmitted, PTL
  DEF KeysSpec, Spec, AdmissionSpec
=============================================================================
