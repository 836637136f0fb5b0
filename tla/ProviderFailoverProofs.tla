----------------------- MODULE ProviderFailoverProofs -----------------------
(* Theorems about ProviderFailover, for any routers, targets, endpoint     *)
(* types and channel capacities.                                           *)
EXTENDS ProviderFailover, TLAPS

(* The fields of keys, changes and events.                                 *)
LEMMA Fields ==
    /\ \A k \in Keys : k.target \in Targets /\ k.endpoint \in Endpoints
    /\ \A c \in Changes : c.key \in Keys
    /\ \A k \in Keys : /\ [op |-> "Remove", key |-> k] \in Changes
                      /\ [op |-> "Insert", key |-> k] \in Changes
    /\ \A p \in Providers, e \in Endpoints :
            [provider |-> p, endpoint |-> e] \in Events
    /\ \A K \in SUBSET Keys : /\ [op : {"Remove"}, key : K] \subseteq Changes
                             /\ [op : {"Insert"}, key : K] \subseteq Changes
BY DEF Keys, Changes, Events

(* The states of a rate limit monitor task.                                *)
LEMMA Tasks ==
    /\ Idle \in TaskStates
    /\ [at |-> "unspawned", key |-> NoKey] \in TaskStates
    /\ \A k \in Keys : /\ [at |-> "removing", key |-> k] \in TaskStates
                      /\ [at |-> "restoring", key |-> k] \in TaskStates
    /\ \A t \in TaskStates : t.at \in {"removing", "restoring"} => t.key \in Keys
BY DEF TaskStates, Idle

(* Sending a Change about another key does not alter where k settles.      *)
LEMMA SettlesAppendOther ==
    ASSUME NEW s \in Seq(Changes), NEW c \in Changes, NEW k \in Keys,
           NEW present \in BOOLEAN,
           c.key # k, SettlesIn(present, s, k)
    PROVE  SettlesIn(present, Append(s, c), k)
<1>1. /\ Len(Append(s, c)) = Len(s) + 1
      /\ DOMAIN s = 1 .. Len(s) /\ Len(s) \in Nat
      /\ DOMAIN Append(s, c) = 1 .. Len(s) + 1
      /\ \A i \in DOMAIN s : Append(s, c)[i] = s[i]
      /\ Append(s, c)[Len(s) + 1] = c
  OBVIOUS
<1>2. \A i \in DOMAIN Append(s, c) : i \in DOMAIN s \/ i = Len(s) + 1
  BY <1>1
<1>3. CASE present /\ \A i \in DOMAIN s : s[i].key # k
  <2>1. \A i \in DOMAIN Append(s, c) : Append(s, c)[i].key # k
    BY <1>1, <1>2, <1>3
  <2> QED
    BY <1>3, <2>1 DEF SettlesIn
<1>4. ASSUME NEW i \in DOMAIN s, s[i] = [op |-> "Insert", key |-> k],
             \A j \in DOMAIN s : j > i => s[j].key # k
      PROVE  SettlesIn(present, Append(s, c), k)
  <2>1. i \in DOMAIN Append(s, c) /\ Append(s, c)[i] = [op |-> "Insert", key |-> k]
    BY <1>1, <1>4
  <2>2. \A j \in DOMAIN Append(s, c) : j > i => Append(s, c)[j].key # k
    BY <1>1, <1>2, <1>4
  <2> QED
    BY <2>1, <2>2 DEF SettlesIn
<1> QED
  BY <1>3, <1>4 DEF SettlesIn

(* Sending an insertion of k settles k in the cache.                       *)
LEMMA SettlesAppendInsert ==
    ASSUME NEW s \in Seq(Changes), NEW k \in Keys, NEW present \in BOOLEAN
    PROVE  SettlesIn(present, Append(s, [op |-> "Insert", key |-> k]), k)
<1> DEFINE c == [op |-> "Insert", key |-> k]
           n == Len(s) + 1
<1>1. n \in DOMAIN Append(s, c) /\ Append(s, c)[n] = c
  BY Fields
<1>2. \A j \in DOMAIN Append(s, c) : ~(j > n)
  BY Fields
<1> QED
  BY <1>1, <1>2 DEF SettlesIn

(* Applying the head of the channel keeps a key settled.                   *)
LEMMA SettlesTail ==
    ASSUME NEW s \in Seq(Changes), s # <<>>, NEW k \in Keys,
           NEW before \in BOOLEAN, NEW after \in BOOLEAN,
           Head(s).key # k => after = before,
           Head(s) = [op |-> "Insert", key |-> k] => after,
           SettlesIn(before, s, k)
    PROVE  SettlesIn(after, Tail(s), k)
<1> DEFINE t == Tail(s)
<1>1. /\ t \in Seq(Changes)
      /\ Len(t) = Len(s) - 1
      /\ DOMAIN t = 1 .. Len(t) /\ DOMAIN s = 1 .. Len(s)
      /\ Len(s) \in Nat \ {0}
      /\ \A i \in DOMAIN t : i + 1 \in DOMAIN s /\ t[i] = s[i + 1]
      /\ Head(s) = s[1] /\ 1 \in DOMAIN s
  OBVIOUS
<1>2. CASE before /\ \A i \in DOMAIN s : s[i].key # k
  <2>1. after
    BY <1>1, <1>2
  <2>2. \A i \in DOMAIN t : t[i].key # k
    BY <1>1, <1>2
  <2> QED
    BY <2>1, <2>2 DEF SettlesIn
<1>3. ASSUME NEW i \in DOMAIN s, s[i] = [op |-> "Insert", key |-> k],
             \A j \in DOMAIN s : j > i => s[j].key # k
      PROVE  SettlesIn(after, t, k)
  <2>1. CASE i = 1
    <3>1. after
      BY <1>1, <1>3, <2>1
    <3>2. \A j \in DOMAIN t : t[j].key # k
      BY <1>1, <1>3, <2>1
    <3> QED
      BY <3>1, <3>2 DEF SettlesIn
  <2>2. CASE i # 1
    <3>1. i - 1 \in DOMAIN t /\ t[i - 1] = [op |-> "Insert", key |-> k]
      BY <1>1, <1>3, <2>2
    <3>2. \A j \in DOMAIN t : j > i - 1 => t[j].key # k
      BY <1>1, <1>3, <2>2
    <3> QED
      BY <3>1, <3>2 DEF SettlesIn
  <2> QED
    BY <2>1, <2>2
<1> QED
  BY <1>2, <1>3 DEF SettlesIn

-----------------------------------------------------------------------------
(* TypeCorrect: the model is well typed.                                   *)
THEOREM TypeCorrect == Spec => []TypeOK
<1>1. Init => TypeOK
  BY ConstantsAssumption, Tasks DEF Init, TypeOK
<1>2. TypeOK /\ [Next]_vars => TypeOK'
  <2> SUFFICES ASSUME TypeOK, [Next]_vars PROVE TypeOK'
    OBVIOUS
  <2> USE ConstantsAssumption, Fields, Tasks
      DEF TypeOK, balancerVars, rateLimitVars, healthVars, configVars
  <2>1. ASSUME NEW r \in Routers, ApplyChange(r) PROVE TypeOK'
    BY <2>1 DEF ApplyChange, Applied
  <2>2. ASSUME NEW r \in Routers, ReceiveEvent(r) PROVE TypeOK'
    <3>1. events' \in [Routers -> Seq(Events)] /\ \A q \in Routers : Len(events'[q]) <= EventCap
      BY <2>2 DEF ReceiveEvent
    <3>2. up' \in BOOLEAN
      BY <2>2, Zenon DEF ReceiveEvent
    <3>3. \/ task' = task
          \/ \E k \in Keys : task' = [task EXCEPT ![r] = [at |-> "removing", key |-> k]]
      <4>1. CASE UNCHANGED task
        BY <4>1
      <4>2. ASSUME NEW k \in EventKeys(Head(events[r])),
                   task' = IF k \in limited[r] THEN task
                           ELSE [task EXCEPT ![r] = [at |-> "removing", key |-> k]]
            PROVE  <3>3!2 \/ task' = task
        <5>1. k \in Keys
          BY DEF EventKeys
        <5> QED
          BY <4>2, <5>1, Zenon
      <4> QED
        BY <2>2, <4>1, <4>2, Zenon DEF ReceiveEvent, AlreadyLimited
    <3>4. \A t \in TaskStates : [task EXCEPT ![r] = t] \in [Routers -> TaskStates]
      OBVIOUS
    <3>5. task' \in [Routers -> TaskStates]
      <4>1. ASSUME NEW k \in Keys,
                   task' = [task EXCEPT ![r] = [at |-> "removing", key |-> k]]
            PROVE  task' \in [Routers -> TaskStates]
        <5>1. [at |-> "removing", key |-> k] \in TaskStates
          OBVIOUS
        <5> QED
          BY <3>4, <4>1, <5>1
      <4> QED
        BY <3>3, <4>1
    <3> QED
      BY <2>2, <3>1, <3>2, <3>5 DEF ReceiveEvent
  <2>3. ASSUME NEW r \in Routers, SendRateLimitRemove(r) PROVE TypeOK'
    <3>1. task[r].key \in Keys
      BY <2>3 DEF Send, ScheduleRestore, SendRateLimitRemove
    <3>2. chan' \in [Routers -> Seq(Changes)] /\ \A q \in Routers : Len(chan'[q]) <= ChangeCap
      BY <2>3, <3>1 DEF Send, ScheduleRestore, SendRateLimitRemove
    <3>3. task' \in [Routers -> TaskStates]
      BY <2>3 DEF Send, ScheduleRestore, SendRateLimitRemove
    <3>4. limited' \in [Routers -> SUBSET Keys] /\ timers' \in [Routers -> SUBSET Keys]
      BY <2>3, <3>1 DEF Send, ScheduleRestore, SendRateLimitRemove
    <3> QED
      BY <2>3, <3>2, <3>3, <3>4 DEF Send, ScheduleRestore, SendRateLimitRemove
  <2>4. ASSUME NEW r \in Routers, SendRateLimitInsert(r) PROVE TypeOK'
    <3>1. task[r].key \in Keys
      BY <2>4 DEF Send, SendRateLimitInsert
    <3>2. chan' \in [Routers -> Seq(Changes)] /\ \A q \in Routers : Len(chan'[q]) <= ChangeCap
      BY <2>4, <3>1 DEF Send, SendRateLimitInsert
    <3>3. task' \in [Routers -> TaskStates]
      BY <2>4 DEF Send, SendRateLimitInsert
    <3>4. limited' \in [Routers -> SUBSET Keys] /\ timers' \in [Routers -> SUBSET Keys]
      BY <2>4, <3>1 DEF Send, SendRateLimitInsert
    <3> QED
      BY <2>4, <3>2, <3>3, <3>4 DEF Send, SendRateLimitInsert
  <2>5. ASSUME NEW r \in Routers, NEW e \in Endpoints,
               Request(r, e) \/ RejectNoServices(r, e) PROVE TypeOK'
    <3>1. \E b \in BOOLEAN : request' = [request EXCEPT ![r][e] = b]
      BY <2>5, Zenon DEF Request, RejectNoServices
    <3>2. request' \in [Routers -> [Endpoints -> BOOLEAN]]
      BY <3>1
    <3> QED
      BY <2>5, <3>2 DEF Request, RejectNoServices
  <2>6. ASSUME NEW r \in Routers, NEW e \in Endpoints, NEW k \in Keys,
               Dispatch(r, e, k) PROVE TypeOK'
    BY <2>6 DEF Dispatch
  <2>7. ASSUME NEW r \in Routers, NEW e \in Endpoints, NEW k \in Keys,
               DispatchRateLimited(r, e, k) PROVE TypeOK'
    BY <2>7 DEF DispatchRateLimited
  <2>8. ASSUME NEW r \in Routers, NEW k \in Keys, RestoreTimer(r, k) PROVE TypeOK'
    <3>1. up' \in BOOLEAN
      BY <2>8, Zenon DEF RestoreTimer
    <3>2. \/ task' = task
          \/ task' = [task EXCEPT ![r] = [at |-> "restoring", key |-> k]]
      BY <2>8, Zenon DEF RestoreTimer
    <3>3. task' \in [Routers -> TaskStates]
      <4>1. [at |-> "restoring", key |-> k] \in TaskStates
        OBVIOUS
      <4>2. [task EXCEPT ![r] = [at |-> "restoring", key |-> k]] \in [Routers -> TaskStates]
        BY <4>1
      <4> QED
        BY <3>2, <4>2
    <3>4. timers' \in [Routers -> SUBSET Keys]
      BY <2>8 DEF RestoreTimer
    <3> QED
      BY <2>8, <3>1, <3>3, <3>4 DEF RestoreTimer
  <2>9. ASSUME NEW r \in Routers, NEW k \in Keys, HealthCheck(r, k) PROVE TypeOK'
    <3>1. Siblings(k) \in SUBSET Keys
      BY DEF Siblings
    <3>2. unhealthy' \in [Routers -> SUBSET Keys] /\ todo' \in [Routers -> SUBSET Keys]
      <4>1. \/ unhealthy' = unhealthy
            \/ unhealthy' = [unhealthy EXCEPT ![r] = @ \cup Siblings(k)]
            \/ unhealthy' = [unhealthy EXCEPT ![r] = @ \ {k}]
        BY <2>9, Zenon DEF HealthCheck
      <4>2. todo' = [todo EXCEPT ![r] = @ \ {k}]
        BY <2>9, Zenon DEF HealthCheck
      <4>3. \A S \in SUBSET Keys :
                [unhealthy EXCEPT ![r] = S] \in [Routers -> SUBSET Keys]
        OBVIOUS
      <4>4. /\ unhealthy[r] \cup Siblings(k) \in SUBSET Keys
            /\ unhealthy[r] \ {k} \in SUBSET Keys
        BY <3>1
      <4>5. unhealthy' \in [Routers -> SUBSET Keys]
        <5>1. unhealthy \in [Routers -> SUBSET Keys]
          OBVIOUS
        <5> HIDE DEF TypeOK
        <5> QED  BY <4>1, <4>3, <4>4, <5>1, Zenon
      <4>6. todo' \in [Routers -> SUBSET Keys]
        BY <4>2
      <4> QED
        BY <4>5, <4>6
    <3>3. sending' \in [Routers -> SUBSET Changes]
      <4>1. \/ sending' = sending
            \/ sending' = [sending EXCEPT ![r] = [op : {"Remove"}, key : Siblings(k)]]
            \/ sending' = [sending EXCEPT ![r] = [op : {"Insert"}, key : Siblings(k)]]
        BY <2>9, Zenon DEF HealthCheck
      <4>2. /\ [op : {"Remove"}, key : Siblings(k)] \subseteq Changes
            /\ [op : {"Insert"}, key : Siblings(k)] \subseteq Changes
        BY <3>1
      <4>3. /\ [op : {"Remove"}, key : Siblings(k)] \in SUBSET Changes
            /\ [op : {"Insert"}, key : Siblings(k)] \in SUBSET Changes
        BY <4>2
      <4>4. \A S \in SUBSET Changes :
                [sending EXCEPT ![r] = S] \in [Routers -> SUBSET Changes]
        OBVIOUS
      <4>5. /\ [sending EXCEPT ![r] = [op : {"Remove"}, key : Siblings(k)]]
                    \in [Routers -> SUBSET Changes]
            /\ [sending EXCEPT ![r] = [op : {"Insert"}, key : Siblings(k)]]
                    \in [Routers -> SUBSET Changes]
        <5> HIDE DEF TypeOK
        <5> QED  BY <4>3, <4>4, Zenon
      <4>6. sending \in [Routers -> SUBSET Changes]
        OBVIOUS
      <4> HIDE DEF TypeOK
      <4> QED
        BY <4>1, <4>5, <4>6, Zenon
    <3>4. up' \in BOOLEAN
      BY <2>9, Zenon DEF HealthCheck
    <3> QED
      BY <2>9, <3>2, <3>3, <3>4 DEF HealthCheck
  <2>10. ASSUME NEW r \in Routers, NEW c \in Changes, HealthSend(r, c) PROVE TypeOK'
    BY <2>10 DEF Send, HealthSend
  <2>11. ASSUME NEW r \in Routers, NEW ev \in Events, SignalMonitor(r, ev) PROVE TypeOK'
    BY <2>11 DEF SignalMonitor
  <2>12. CASE RateLimitTick
    BY <2>12 DEF RateLimitTick
  <2>13. CASE HealthTick
    BY <2>13 DEF HealthTick, RoundJoined
  <2>14. ASSUME NEW p \in Providers, Recover(p) PROVE TypeOK'
    BY <2>14 DEF Recover
  <2>15. CASE UNCHANGED vars
    BY <2>15 DEF vars
  <2> QED
    BY <2>1, <2>2, <2>3, <2>4, <2>5, <2>6, <2>7, <2>8, <2>9, <2>10, <2>11,
       <2>12, <2>13, <2>14, <2>15 DEF Next, ShutDown
<1> QED
  BY <1>1, <1>2, PTL DEF Spec

-----------------------------------------------------------------------------
(* No step starts the process again.                                       *)
LEMMA UpStep == ASSUME [Next]_vars, up' PROVE up
<1>1. ASSUME NEW r \in Routers, NEW e \in Endpoints,
             \/ Request(r, e) \/ RejectNoServices(r, e)
             \/ \E k \in Keys : Dispatch(r, e, k) \/ DispatchRateLimited(r, e, k)
      PROVE  up
  BY <1>1, Zenon DEF Request, RejectNoServices, Dispatch, DispatchRateLimited
<1>2. ASSUME NEW r \in Routers,
             \/ ApplyChange(r) \/ ReceiveEvent(r)
             \/ SendRateLimitRemove(r) \/ SendRateLimitInsert(r)
             \/ \E k \in Keys : RestoreTimer(r, k) \/ HealthCheck(r, k)
             \/ \E c \in Changes : HealthSend(r, c)
             \/ \E ev \in Events : SignalMonitor(r, ev)
      PROVE  up
  BY <1>2, Zenon DEF ApplyChange, ReceiveEvent, SendRateLimitRemove,
     SendRateLimitInsert, RestoreTimer, HealthCheck, HealthSend, SignalMonitor
<1>3. RateLimitTick \/ HealthTick \/ (\E p \in Providers : Recover(p)) => up
  BY Zenon DEF RateLimitTick, HealthTick, Recover
<1>4. ShutDown \/ UNCHANGED vars => up
  BY DEF ShutDown, vars
<1> QED
  BY <1>1, <1>2, <1>3, <1>4, Zenon DEF Next

(* The steps that do not belong to the rate limit monitor leave its        *)
(* records alone.                                                          *)
LEMMA RateLimitFrame ==
    ASSUME [Next]_vars
    PROVE  \/ UNCHANGED <<task, limited, timers>>
           \/ RateLimitTick
           \/ \E r \in Routers : \/ ReceiveEvent(r)
                                 \/ SendRateLimitRemove(r)
                                 \/ SendRateLimitInsert(r)
                                 \/ \E k \in Keys : RestoreTimer(r, k)
<1> USE DEF rateLimitVars
<1>1. ASSUME NEW r \in Routers, NEW e \in Endpoints,
             \/ ApplyChange(r) \/ Request(r, e) \/ RejectNoServices(r, e)
             \/ \E k \in Keys : Dispatch(r, e, k) \/ DispatchRateLimited(r, e, k)
      PROVE  UNCHANGED <<task, limited, timers>>
  BY <1>1, Zenon DEF ApplyChange, Request, RejectNoServices, Dispatch, DispatchRateLimited
<1>2. ASSUME NEW r \in Routers, ApplyChange(r)
      PROVE  UNCHANGED <<task, limited, timers>>
  BY <1>2, Zenon DEF ApplyChange
<1>3. ASSUME NEW r \in Routers, NEW k \in Keys, HealthCheck(r, k)
      PROVE  UNCHANGED <<task, limited, timers>>
  BY <1>3, Zenon DEF HealthCheck
<1>4. ASSUME NEW r \in Routers, NEW c \in Changes, HealthSend(r, c)
      PROVE  UNCHANGED <<task, limited, timers>>
  BY <1>4, Zenon DEF Send, HealthSend
<1>5. ASSUME NEW r \in Routers, NEW ev \in Events, SignalMonitor(r, ev)
      PROVE  UNCHANGED <<task, limited, timers>>
  BY <1>5, Zenon DEF SignalMonitor
<1>6. HealthTick \/ (\E p \in Providers : Recover(p)) \/ UNCHANGED vars
        => UNCHANGED <<task, limited, timers>>
  BY Zenon DEF HealthTick, Recover, vars
<1> QED
  BY <1>1, <1>2, <1>3, <1>4, <1>5, <1>6, Zenon DEF Next, ShutDown

(* EveryLimitedKeyHasARestore: RestoreScheduled holds in every reachable   *)
(* state, whatever the number of routers, keys and queued 429 events.      *)
THEOREM EveryLimitedKeyHasARestore == Spec => []RestoreScheduled
<1>1. Init => RestoreScheduled
  BY DEF Init, RestoreScheduled, Restoring
<1>2. TypeOK /\ RestoreScheduled /\ [Next]_vars => RestoreScheduled'
  <2> SUFFICES ASSUME TypeOK, RestoreScheduled, [Next]_vars, up'
               PROVE  RestoreScheduled'
    BY DEF RestoreScheduled
  <2> DEFINE Ok(q) == /\ limited[q] = timers[q] \cup Restoring(q)
                      /\ timers[q] \cap Restoring(q) = {}
                      /\ task[q].at = "removing" => task[q].key \notin limited[q]
  <2>1. \A q \in Routers : Ok(q)
    BY UpStep DEF RestoreScheduled
  <2> SUFFICES ASSUME NEW q \in Routers PROVE Ok(q)'
    BY DEF RestoreScheduled
  <2>2. CASE UNCHANGED <<task, limited, timers>>
    BY <2>1, <2>2 DEF Restoring
  <2>3. CASE RateLimitTick
    BY <2>1, <2>3 DEF RateLimitTick, Restoring, Idle, TypeOK
  <2>4. ASSUME NEW r \in Routers, ReceiveEvent(r) PROVE Ok(q)'
    <3>1. limited' = limited /\ timers' = timers
      BY <2>4, Zenon DEF ReceiveEvent
    <3>2. CASE UNCHANGED task
      BY <2>1, <3>1, <3>2 DEF Restoring
    <3>3. ASSUME NEW k \in Keys, k \notin limited[r], task[r].at = "idle",
                 task' = [task EXCEPT ![r] = [at |-> "removing", key |-> k]]
          PROVE  Ok(q)'
      BY <2>1, <3>1, <3>3 DEF Restoring, TypeOK
    <3>4. \/ UNCHANGED task
          \/ \E k \in Keys : /\ k \notin limited[r] /\ task[r].at = "idle"
                            /\ task' = [task EXCEPT ![r] = [at |-> "removing", key |-> k]]
      BY <2>4, Zenon DEF ReceiveEvent, EventKeys, AlreadyLimited
    <3> QED
      BY <3>2, <3>3, <3>4
  <2>5. ASSUME NEW r \in Routers, SendRateLimitRemove(r) PROVE Ok(q)'
    BY <2>1, <2>5 DEF Send, ScheduleRestore, SendRateLimitRemove, Restoring, TypeOK, Idle
  <2>6. ASSUME NEW r \in Routers, SendRateLimitInsert(r) PROVE Ok(q)'
    BY <2>1, <2>6 DEF Send, SendRateLimitInsert, Restoring, TypeOK, Idle
  <2>7. ASSUME NEW r \in Routers, NEW k \in Keys, RestoreTimer(r, k) PROVE Ok(q)'
    <3>1. /\ task[r].at = "idle" /\ k \in timers[r]
          /\ timers' = [timers EXCEPT ![r] = @ \ {k}]
          /\ task' = [task EXCEPT ![r] = [at |-> "restoring", key |-> k]]
          /\ limited' = limited
      BY <2>7, Zenon DEF RestoreTimer
    <3> QED
      BY <2>1, <3>1 DEF Restoring, TypeOK
  <2> QED
    BY <2>2, <2>3, <2>4, <2>5, <2>6, <2>7, RateLimitFrame
<1> QED
  BY <1>1, <1>2, TypeCorrect, PTL DEF Spec

-----------------------------------------------------------------------------
(* The steps that do not edit a balancer, its channel or a monitor's       *)
(* records leave Kept alone.                                               *)
LEMMA KeptFrame ==
    ASSUME [Next]_vars
    PROVE  \/ UNCHANGED <<monitored, pool, chan, limited, unhealthy, sending>>
           \/ \E r \in Routers : \/ ApplyChange(r)
                                 \/ SendRateLimitRemove(r)
                                 \/ SendRateLimitInsert(r)
                                 \/ \E k \in Keys : HealthCheck(r, k)
                                 \/ \E c \in Changes : HealthSend(r, c)
<1> DEFINE Same == UNCHANGED <<monitored, pool, chan, limited, unhealthy, sending>>
<1> USE DEF rateLimitVars, healthVars, balancerVars, configVars
<1>1. ASSUME NEW r \in Routers, NEW e \in Endpoints,
             \/ Request(r, e) \/ RejectNoServices(r, e)
             \/ \E k \in Keys : Dispatch(r, e, k) \/ DispatchRateLimited(r, e, k)
      PROVE  Same
  BY <1>1, Zenon DEF Request, RejectNoServices, Dispatch, DispatchRateLimited
<1>2. ASSUME NEW r \in Routers, ReceiveEvent(r) PROVE Same
  BY <1>2, Zenon DEF ReceiveEvent
<1>3. ASSUME NEW r \in Routers, NEW k \in Keys, RestoreTimer(r, k) PROVE Same
  BY <1>3, Zenon DEF RestoreTimer
<1>4. ASSUME NEW r \in Routers, NEW ev \in Events, SignalMonitor(r, ev) PROVE Same
  BY <1>4, Zenon DEF SignalMonitor
<1>5. RateLimitTick \/ HealthTick \/ (\E p \in Providers : Recover(p)) \/ UNCHANGED vars
        => Same
  BY Zenon DEF RateLimitTick, HealthTick, Recover, vars
<1> QED
  BY <1>1, <1>2, <1>3, <1>4, <1>5, Zenon DEF Next, ShutDown

(* Sending a Change about another key leaves a kept key kept.              *)
LEMMA KeptAppend ==
    ASSUME TypeOK, NEW r \in Routers, NEW c \in Changes,
           NEW q \in Routers, NEW k \in Keys,
           chan' = [chan EXCEPT ![r] = Append(@, c)],
           UNCHANGED <<pool, monitored>>,
           ~(q = r /\ c.key = k),
           EndsInserted(q, k)
    PROVE  EndsInserted(q, k)'
<1>1. chan[q] \in Seq(Changes) /\ chan[r] \in Seq(Changes)
  BY DEF TypeOK
<1>2. CASE q = r
  <2>1. chan'[q] = Append(chan[q], c)
    BY <1>2 DEF TypeOK
  <2> DEFINE present == k \in pool[q][monitored[q]]
  <2>2. present \in BOOLEAN /\ SettlesIn(present, chan[q], k)
    BY DEF EndsInserted
  <2> HIDE DEF present
  <2>3. SettlesIn(present, chan'[q], k)
    BY <1>1, <1>2, <2>1, <2>2, SettlesAppendOther
  <2> QED
    BY <2>3 DEF EndsInserted, present
<1>3. CASE q # r
  <2>1. chan'[q] = chan[q]
    BY <1>3 DEF TypeOK
  <2> QED
    BY <2>1 DEF EndsInserted
<1> QED
  BY <1>2, <1>3

(* A balancer that is sent an insertion ends up with the key.              *)
LEMMA KeptInsert ==
    ASSUME TypeOK, NEW r \in Routers, NEW k \in Keys,
           chan' = [chan EXCEPT ![r] = Append(@, [op |-> "Insert", key |-> k])],
           UNCHANGED <<pool, monitored>>
    PROVE  EndsInserted(r, k)'
<1>1. chan[r] \in Seq(Changes)
      /\ chan'[r] = Append(chan[r], [op |-> "Insert", key |-> k])
  BY DEF TypeOK
<1> DEFINE present == k \in pool[r][monitored[r]]
<1>2. present \in BOOLEAN
  OBVIOUS
<1> HIDE DEF present
<1>3. SettlesIn(present, chan'[r], k)
  BY <1>1, <1>2, SettlesAppendInsert
<1> QED
  BY <1>3 DEF EndsInserted, present

(* NoProviderIsLost: NoKeyLost holds in every reachable state, for any     *)
(* interleaving of the two monitors and any channel capacity.              *)
THEOREM NoProviderIsLost == Spec => []NoKeyLost
<1>1. Init => NoKeyLost
  BY DEF Init, NoKeyLost, Kept, EndsInserted, SettlesIn
<1>2. TypeOK /\ NoKeyLost /\ [Next]_vars => NoKeyLost'
  <2> SUFFICES ASSUME TypeOK, NoKeyLost, [Next]_vars, up',
                      NEW q \in Routers, NEW j \in Keys
               PROVE  Kept(q, j)'
    BY DEF NoKeyLost
  <2>1. Kept(q, j)
    BY UpStep DEF NoKeyLost
  <2> USE DEF configVars, balancerVars, rateLimitVars, healthVars
  <2>2. CASE UNCHANGED <<monitored, pool, chan, limited, unhealthy, sending>>
    BY <2>1, <2>2 DEF Kept, EndsInserted
  <2>3. ASSUME NEW r \in Routers, ApplyChange(r) PROVE Kept(q, j)'
    <3>1. UNCHANGED <<limited, unhealthy, sending, monitored>>
      BY <2>3 DEF ApplyChange
    <3>2. ASSUME EndsInserted(q, j) PROVE EndsInserted(q, j)'
      <4>1. CASE q # r
        <5>1. chan'[q] = chan[q] /\ pool'[q] = pool[q]
          BY <2>3, <4>1 DEF ApplyChange, TypeOK
        <5> QED
          BY <3>1, <3>2, <5>1 DEF EndsInserted
      <4>2. CASE q = r
        <5> DEFINE s == chan[r]
                   e == monitored[r]
                   c == Head(s)
                   before == j \in pool[r][e]
                   after == j \in pool'[r][e]
        <5>1. s \in Seq(Changes) /\ s # <<>> /\ e \in Endpoints /\ c \in Changes
          BY <2>3 DEF ApplyChange, TypeOK
        <5>2. chan'[r] = Tail(s) /\ monitored'[r] = e
          BY <2>3, <3>1 DEF ApplyChange, TypeOK
        <5>3. c.key \in Keys
          BY <5>1, Fields
        <5>4. c.key # j => (j \in pool'[r][e] <=> j \in pool[r][e])
          BY <2>3, <5>1, <5>3 DEF ApplyChange, Applied, TypeOK
        <5>5. c = [op |-> "Insert", key |-> j] => j \in pool'[r][e]
          BY <2>3, <5>1 DEF ApplyChange, Applied, TypeOK
        <5>6. before \in BOOLEAN /\ after \in BOOLEAN
          OBVIOUS
        <5>7. SettlesIn(before, s, j)
          BY <3>2, <4>2 DEF EndsInserted
        <5>8. SettlesIn(after, Tail(s), j)
          <6> HIDE DEF s, c
          <6>1. c.key # j => after = before
            BY <5>4
          <6>2. c = [op |-> "Insert", key |-> j] => after
            BY <5>5
          <6> USE DEF c
          <6> QED
            BY <5>1, <5>6, <5>7, <6>1, <6>2, SettlesTail
        <5> QED
          BY <4>2, <5>2, <5>8 DEF EndsInserted
      <4> QED
        BY <4>1, <4>2
    <3> QED
      BY <2>1, <3>1, <3>2 DEF Kept
  <2>4. ASSUME NEW r \in Routers, SendRateLimitRemove(r) PROVE Kept(q, j)'
    <3> DEFINE k == task[r].key
               c == [op |-> "Remove", key |-> k]
    <3>1. k \in Keys
      BY <2>4, Tasks DEF Send, ScheduleRestore, SendRateLimitRemove, TypeOK
    <3>2. /\ UNCHANGED <<unhealthy, sending, monitored, pool>>
          /\ chan' = [chan EXCEPT ![r] = Append(@, c)]
          /\ limited' = [limited EXCEPT ![r] = @ \cup {k}]
      BY <2>4, Zenon DEF Send, ScheduleRestore, SendRateLimitRemove
    <3>3. CASE q = r /\ k = j
      BY <3>2, <3>3 DEF Kept, TypeOK
    <3>4. CASE ~(q = r /\ k = j)
      <4>1. EndsInserted(q, j) => EndsInserted(q, j)'
        BY <3>1, <3>2, <3>4, KeptAppend, Fields
      <4> QED
        BY <2>1, <3>2, <4>1 DEF Kept, TypeOK
    <3> QED
      BY <3>3, <3>4
  <2>5. ASSUME NEW r \in Routers, SendRateLimitInsert(r) PROVE Kept(q, j)'
    <3> DEFINE k == task[r].key
               c == [op |-> "Insert", key |-> k]
    <3>1. k \in Keys
      BY <2>5, Tasks DEF Send, SendRateLimitInsert, TypeOK
    <3>2. /\ UNCHANGED <<unhealthy, sending, monitored, pool>>
          /\ chan' = [chan EXCEPT ![r] = Append(@, c)]
          /\ limited' = [limited EXCEPT ![r] = @ \ {k}]
      BY <2>5, Zenon DEF Send, SendRateLimitInsert
    <3>3. CASE q = r /\ k = j
      BY <3>1, <3>2, <3>3, KeptInsert DEF Kept
    <3>4. CASE ~(q = r /\ k = j)
      <4>1. EndsInserted(q, j) => EndsInserted(q, j)'
        BY <3>1, <3>2, <3>4, KeptAppend, Fields
      <4> QED
        BY <2>1, <3>2, <3>4, <4>1 DEF Kept, TypeOK
    <3> QED
      BY <3>3, <3>4
  <2>6. ASSUME NEW r \in Routers, NEW k \in Keys, HealthCheck(r, k) PROVE Kept(q, j)'
    <3>1. UNCHANGED <<limited, monitored, pool, chan>> /\ sending[r] = {}
      BY <2>6, Zenon DEF HealthCheck
    <3>2. EndsInserted(q, j) => EndsInserted(q, j)'
      BY <3>1 DEF EndsInserted
    <3>3. q # r => unhealthy'[q] = unhealthy[q] /\ sending'[q] = sending[q]
      BY <2>6 DEF HealthCheck, TypeOK
    <3>4. \/ unhealthy[r] \subseteq unhealthy'[r]
          \/ /\ unhealthy'[r] = unhealthy[r] \ {k}
             /\ sending'[r] = [op : {"Insert"}, key : Siblings(k)]
      <4>1. \/ unhealthy' = unhealthy
            \/ unhealthy' = [unhealthy EXCEPT ![r] = @ \cup Siblings(k)]
            \/ /\ unhealthy' = [unhealthy EXCEPT ![r] = @ \ {k}]
               /\ sending' = [sending EXCEPT ![r] = [op : {"Insert"}, key : Siblings(k)]]
        BY <2>6, Zenon DEF HealthCheck
      <4> QED
        BY <4>1 DEF TypeOK
    <3>5. [op |-> "Insert", key |-> k] \in [op : {"Insert"}, key : Siblings(k)]
      BY DEF Siblings
    <3>6. CASE q = r /\ j = k
      BY <2>1, <3>1, <3>2, <3>4, <3>5, <3>6 DEF Kept
    <3>7. CASE ~(q = r /\ j = k)
      BY <2>1, <3>1, <3>2, <3>3, <3>4, <3>7 DEF Kept
    <3> QED
      BY <3>6, <3>7
  <2>7. ASSUME NEW r \in Routers, NEW c \in Changes, HealthSend(r, c) PROVE Kept(q, j)'
    <3>1. /\ UNCHANGED <<limited, monitored, pool>> /\ c \in sending[r]
          /\ chan' = [chan EXCEPT ![r] = Append(@, c)]
          /\ sending' = [sending EXCEPT ![r] = @ \ {c}]
          /\ unhealthy' = IF c.op = "Remove"
                          THEN [unhealthy EXCEPT ![r] = @ \cup {c.key}]
                          ELSE unhealthy
      BY <2>7, Zenon DEF Send, HealthSend
    <3>2. CASE q = r /\ c = [op |-> "Insert", key |-> j]
      BY <3>1, <3>2, KeptInsert DEF Kept
    <3>3. CASE q = r /\ c = [op |-> "Remove", key |-> j]
      BY <3>1, <3>3 DEF Kept, TypeOK
    <3>4. CASE ~(q = r /\ c.key = j)
      <4>1. EndsInserted(q, j) => EndsInserted(q, j)'
        BY <3>1, <3>4, KeptAppend
      <4>2. unhealthy[q] \subseteq unhealthy'[q]
        BY <3>1 DEF TypeOK
      <4>3. [op |-> "Insert", key |-> j] \in sending[q]
              => [op |-> "Insert", key |-> j] \in sending'[q]
        BY <3>1, <3>4 DEF TypeOK
      <4> QED
        BY <2>1, <3>1, <4>1, <4>2, <4>3 DEF Kept
    <3>5. c.key = j => \/ c = [op |-> "Insert", key |-> j]
                       \/ c = [op |-> "Remove", key |-> j]
      BY DEF Changes
    <3> QED
      BY <3>2, <3>3, <3>4, <3>5
  <2> QED
    BY <2>2, <2>3, <2>4, <2>5, <2>6, <2>7, KeptFrame
<1> QED
  BY <1>1, <1>2, TypeCorrect, PTL DEF Spec

(* The monitors, interleaved in any way, neither lose a key nor schedule two *)
(* restores of it.                                                           *)
THEOREM ProvidersAreKept == Spec => []ProvidersKept
<1>1. NoKeyLost /\ RestoreScheduled => ProvidersKept
  BY DEF ProvidersKept
<1> QED  BY <1>1, NoProviderIsLost, EveryLimitedKeyHasARestore, PTL
=============================================================================
