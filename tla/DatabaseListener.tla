-------------------------- MODULE DatabaseListener --------------------------
(***************************************************************************)
(* How changes of the database reach the caches of the gateway.            *)
(*                                                                         *)
(* The control plane updates rows of virtual_keys, master_keys and         *)
(* provider_configs.  The DatabaseListener task polls the three tables for *)
(* rows whose updated_at is later than its cursor, last_poll_time, and     *)
(* edits the in-process caches.  Requests that miss a key cache read the   *)
(* row themselves and fill the cache, without holding its lock while they  *)
(* read.                                                                   *)
(*                                                                         *)
(* A row and a cache entry are identified by the row's updated_at.  Time   *)
(* advances with the updates: of two moments with no update in between the *)
(* model sees one.  This grants the code the best of clocks, one shared by *)
(* database and gateway, in which no two updates coincide.                 *)
(***************************************************************************)
EXTENDS Naturals, FiniteSets

CONSTANTS
    VirtualKeys,  \* rows of virtual_keys, cached in virtual_keys_cache
    MasterKeys,   \* rows of master_keys, cached in the MasterKeyCache
    Allowlist,    \* provider_configs as a whole, cached as one snapshot
    MasterCap,    \* capacity of the MasterKeyCache (DEFAULT_CAPACITY)
    MayFail,      \* whether queries of the listener may fail
    MaxClock      \* bounds the number of updates

Keys == VirtualKeys \cup MasterKeys
Items == Keys \cup {Allowlist}

ASSUME ConstantsAssumption ==
    /\ VirtualKeys \cap MasterKeys = {}
    /\ Allowlist \notin Keys
    /\ MasterCap \in Nat \ {0}
    /\ MayFail \in BOOLEAN
    /\ MaxClock \in Nat

VARIABLES
    clock,    \* the time of the last update
    row,      \* item -> its row: updated_at, and whether it is active
    cache,    \* item -> updated_at of the cached row, 0 when there is none
    cursor,   \* last_poll_time, 0 before the first poll has ended
    stage,    \* where the listener is in poll_database
    fetched,  \* rows a query has returned and the poll has yet to apply
    seen,     \* key -> last_*_key_updated_at, 0 when there is none
    missed,   \* keys some request has missed in the cache and will read
    inflight, \* key -> updated_at of rows requests have read and will cache
    during    \* history: item -> what the last update of it met with

vars == <<clock, row, cache, cursor, stage, fetched, seen, missed, inflight, during>>

pollVars == <<cursor, stage, fetched, seen>>
requestVars == <<missed, inflight>>
dbVars == <<clock, row, during>>

Stages == {"idle", "virtual", "applyVirtual", "master", "applyMaster",
           "configs", "reload", "end"}
Windows == {"boot", "poll", "read", "failure"}
Rows == [at : Nat, active : BOOLEAN]
Fetched == [key : Keys, at : Nat, active : BOOLEAN]

(* No cursor, cache entry or read row is later than the last update.       *)
TypeOK ==
    /\ clock \in Nat
    /\ row \in [Items -> Rows]
    /\ \A i \in Items : row[i].at \in 1 .. clock
    /\ cache \in [Items -> 0 .. clock]
    /\ cursor \in 0 .. clock
    /\ stage \in Stages
    /\ fetched \in SUBSET Fetched
    /\ \A f \in fetched : f.at <= clock
    /\ seen \in [Keys -> 0 .. clock]
    /\ missed \in SUBSET Keys
    /\ inflight \in [Keys -> SUBSET (1 .. clock)]
    /\ during \in [Items -> SUBSET Windows]

(* App::new has loaded every active virtual key and the allowlist (or has  *)
(* failed to: then it starts with an empty one); the listener is about to  *)
(* start its first poll.                                                   *)
Init ==
    /\ clock = 1
    /\ row = [i \in Items |-> [at |-> 1, active |-> TRUE]]
    /\ cache \in [Items -> {0, 1}]
    /\ \A k \in VirtualKeys : cache[k] = 1
    /\ \A k \in MasterKeys : cache[k] = 0
    /\ MayFail \/ cache[Allowlist] = 1
    /\ cursor = 0
    /\ stage = "virtual"
    /\ fetched = {}
    /\ seen = [k \in Keys |-> 0]
    /\ missed = {}
    /\ inflight = [k \in Keys |-> {}]
    /\ during = [i \in Items |-> {}]

-----------------------------------------------------------------------------
(* What an update of item i overlaps: the startup up to the end of the     *)
(* first poll, a later poll, a request that has read the row before it.    *)
Overlapped(i) ==
    {w \in Windows :
        \/ w = "boot" /\ cursor = 0
        \/ w = "poll" /\ cursor # 0 /\ stage # "idle"
        \/ w = "read" /\ i \in Keys /\ inflight[i] # {}}

(* The control plane updates a row; keys may be revoked and reactivated.   *)
Update(i, active) ==
    /\ clock < MaxClock
    /\ i = Allowlist => active
    /\ clock' = clock + 1
    /\ row' = [row EXCEPT ![i] = [at |-> clock + 1, active |-> active]]
    /\ during' = [during EXCEPT ![i] = Overlapped(i)]
    /\ UNCHANGED <<cache, pollVars, requestVars>>

-----------------------------------------------------------------------------
(* A request looks up a key and does not find it.                          *)
Miss(k) ==
    /\ cache[k] = 0 /\ k \notin missed
    /\ missed' = missed \cup {k}
    /\ UNCHANGED <<dbVars, cache, pollVars, inflight>>

(* It reads the row; an inactive one, or a failed query, ends the request. *)
(* Any number of requests may be reading: missed keeps k or not.           *)
Read(k) ==
    /\ k \in missed
    /\ missed' \in {missed, missed \ {k}}
    /\ inflight' = IF row[k].active
                   THEN [inflight EXCEPT ![k] = @ \cup {row[k].at}]
                   ELSE inflight
    /\ missed' # missed \/ inflight' # inflight
    /\ UNCHANGED <<dbVars, cache, pollVars>>

ReadFails(k) ==
    /\ k \in missed
    /\ missed' = missed \ {k}
    /\ UNCHANGED <<dbVars, cache, pollVars, inflight>>

CachedMasters == {k \in MasterKeys : cache[k] # 0}

(* The caches after key k is put with updated_at v.  The master key cache  *)
(* is an LRU cache: when it is full another entry leaves it.               *)
Put(k, v) ==
    IF k \in MasterKeys /\ k \notin CachedMasters
                        /\ Cardinality(CachedMasters) >= MasterCap
    THEN {[cache EXCEPT ![k] = v, ![j] = 0] : j \in CachedMasters}
    ELSE {[cache EXCEPT ![k] = v]}

(* The request caches the row it has read, whatever happened since.        *)
Fill(k, v) ==
    /\ v \in inflight[k]
    /\ cache' \in Put(k, v)
    /\ inflight' \in {inflight, [inflight EXCEPT ![k] = @ \ {v}]}
    /\ cache' # cache \/ inflight' # inflight
    /\ UNCHANGED <<dbVars, pollVars, missed>>

-----------------------------------------------------------------------------
(* The poll interval ticks.                                                *)
StartPoll ==
    /\ stage = "idle"
    /\ stage' = "virtual"
    /\ UNCHANGED <<dbVars, cache, cursor, fetched, seen, requestVars>>

(* Rows of one table whose updated_at is later than the cursor; the first  *)
(* poll asks for none.                                                     *)
UpdatedAfter(keys) ==
    IF cursor = 0 THEN {}
    ELSE {[key |-> k, at |-> row[k].at, active |-> row[k].active] :
            k \in {j \in keys : row[j].at > cursor}}

QueryVirtualKeys ==
    /\ stage = "virtual"
    /\ stage' = "applyVirtual"
    /\ fetched' = UpdatedAfter(VirtualKeys)
    /\ UNCHANGED <<dbVars, cache, cursor, seen, requestVars>>

QueryMasterKeys ==
    /\ stage = "master"
    /\ stage' = "applyMaster"
    /\ fetched' = UpdatedAfter(MasterKeys)
    /\ UNCHANGED <<dbVars, cache, cursor, seen, requestVars>>

(* The cursor when a poll fails, and the faulty variant that moves it.     *)
CursorAfterFailure_Moves == clock

CursorAfterFailure == cursor

(* A key query fails: poll_database returns early.                         *)
PollFails ==
    /\ MayFail /\ cursor # 0 /\ stage \in {"virtual", "master"}
    /\ stage' = "idle"
    /\ cursor' = CursorAfterFailure
    /\ UNCHANGED <<dbVars, cache, fetched, seen, requestVars>>

(* classify_virtual_key_update: rows already seen are skipped, inactive    *)
(* ones removed, the others cached.  NotRemoved, a faulty variant, caches  *)
(* inactive rows too.                                                      *)
CacheAfterRow_NotRemoved(f) ==
    IF f.at <= seen[f.key] THEN cache ELSE [cache EXCEPT ![f.key] = f.at]

CacheAfterRow(f) ==
    IF f.at <= seen[f.key] THEN cache
    ELSE [cache EXCEPT ![f.key] = IF f.active THEN f.at ELSE 0]

ApplyVirtualKey(f) ==
    /\ stage = "applyVirtual" /\ f \in fetched
    /\ fetched' = fetched \ {f}
    /\ cache' = CacheAfterRow(f)
    /\ seen' = IF f.at <= seen[f.key] THEN seen
               ELSE [seen EXCEPT ![f.key] = IF f.active THEN f.at ELSE 0]
    /\ UNCHANGED <<dbVars, cursor, stage, requestVars>>

(* MasterKeyCache::invalidate for a row that is newer than the last seen.  *)
InvalidateMasterKey(f) ==
    /\ stage = "applyMaster" /\ f \in fetched
    /\ fetched' = fetched \ {f}
    /\ cache' = IF f.at > seen[f.key] THEN [cache EXCEPT ![f.key] = 0] ELSE cache
    /\ seen' = IF f.at > seen[f.key] THEN [seen EXCEPT ![f.key] = f.at] ELSE seen
    /\ UNCHANGED <<dbVars, cursor, stage, requestVars>>

(* The loop over the fetched rows ends.                                    *)
RowsApplied ==
    /\ fetched = {}
    /\ \/ stage = "applyVirtual" /\ stage' = "master"
       \/ stage = "applyMaster" /\ stage' = "configs"
    /\ UNCHANGED <<dbVars, cache, cursor, fetched, seen, requestVars>>

(* History: the check or the reload of the allowlist has failed.           *)
AllowlistFailed == during' = [during EXCEPT ![Allowlist] = @ \cup {"failure"}]

(* has_provider_configs_updated_since; the first poll reloads in any case, *)
(* and a failed query counts as no change.  FirstPoll is a faulty variant. *)
ConfigsChanged_FirstPoll == cursor = 0

ConfigsChanged == cursor = 0 \/ row[Allowlist].at > cursor

CheckProviderConfigs ==
    /\ stage = "configs"
    /\ \/ /\ stage' = IF ConfigsChanged THEN "reload" ELSE "end"
          /\ UNCHANGED during
       \/ /\ MayFail /\ cursor # 0
          /\ stage' = "end"
          /\ AllowlistFailed
    /\ UNCHANGED <<clock, row, cache, cursor, fetched, seen, requestVars>>

(* reload_workspace_provider_allowlist: a failure keeps the old snapshot.  *)
ReloadAllowlist ==
    /\ stage = "reload"
    /\ stage' = "end"
    /\ \/ /\ cache' = [cache EXCEPT ![Allowlist] = row[Allowlist].at]
          /\ UNCHANGED during
       \/ /\ MayFail /\ UNCHANGED cache
          /\ AllowlistFailed
    /\ UNCHANGED <<clock, row, cursor, fetched, seen, requestVars>>

(* last_poll_time = Utc::now(), taken after the queries.                   *)
CursorAfterPoll == clock

EndPoll ==
    /\ stage = "end"
    /\ stage' = "idle"
    /\ cursor' = CursorAfterPoll
    /\ UNCHANGED <<dbVars, cache, fetched, seen, requestVars>>

-----------------------------------------------------------------------------
Next ==
    \/ \E i \in Items, active \in BOOLEAN : Update(i, active)
    \/ \E k \in Keys : \/ Miss(k) \/ Read(k) \/ ReadFails(k)
                       \/ \E v \in inflight[k] : Fill(k, v)
    \/ \E f \in fetched : ApplyVirtualKey(f) \/ InvalidateMasterKey(f)
    \/ StartPoll \/ QueryVirtualKeys \/ QueryMasterKeys \/ PollFails
    \/ RowsApplied \/ CheckProviderConfigs \/ ReloadAllowlist \/ EndPoll

Spec == Init /\ [][Next]_vars

(* The listener's task runs and its interval ticks; the database does not  *)
(* answer every query with an error.                                       *)
Fairness ==
    /\ WF_vars(StartPoll) /\ WF_vars(RowsApplied) /\ WF_vars(EndPoll)
    /\ SF_vars(QueryVirtualKeys) /\ SF_vars(QueryMasterKeys)
    /\ WF_vars(CheckProviderConfigs) /\ WF_vars(ReloadAllowlist)
    /\ WF_vars(\E f \in fetched : ApplyVirtualKey(f) \/ InvalidateMasterKey(f))

LiveSpec == Spec /\ Fairness

-----------------------------------------------------------------------------
(* The cache holds something other than the current row, or a revoked key. *)
Stale(i) ==
    /\ cache[i] # 0 \/ i = Allowlist
    /\ cache[i] # row[i].at \/ ~row[i].active

(* The listener considers the current row of item i polled.                *)
Polled(i) == row[i].at <= cursor

(* QuietUpdateSeen: an update of a key that overlapped no poll and no read *)
(* of its row is never lost: once the cursor has passed it the cache does  *)
(* not hold an older row, nor a key it revoked, whichever queries failed   *)
(* in between and whatever other keys did.                                 *)
QuietUpdateSeen == \A k \in Keys : during[k] = {} /\ Polled(k) => ~Stale(k)

(* AllowlistUpdateSeen: the same of an update of provider_configs, after   *)
(* which the snapshot must be replaced; here only as long as neither the   *)
(* check nor the reload fails, for the cursor moves on when they do.       *)
AllowlistUpdateSeen ==
    row[Allowlist].at > 1 /\ during[Allowlist] = {} /\ Polled(Allowlist)
        => ~Stale(Allowlist)

(* PollUpdateSeen: the same of an update of a virtual key that overlapped  *)
(* a poll only, once that poll has ended.                                  *)
PollUpdateSeen ==
    \A k \in VirtualKeys : during[k] = {"poll"} /\ Polled(k) /\ stage = "idle" => ~Stale(k)

(* RevokedKeyForgotten: a quiet revocation reaches the cache in the end,   *)
(* although polls may fail and are retried from the same cursor.           *)
RevokedKeyForgotten ==
    \A k \in Keys : during[k] = {} /\ Stale(k) ~> ~(during[k] = {} /\ Stale(k))
=============================================================================
