---------------------------- MODULE IdentityLimit ----------------------------
(***************************************************************************)
(* The limit on the requests of a workspace in a fixed window              *)
(* (middleware/identity_rate_limit.rs): counted in the process, or by a    *)
(* script in Redis that all processes share.  Unlike the limit on          *)
(* addresses it has no second choice: without an answer the request is     *)
(* refused.  Time is counted in ticks.                                     *)
(***************************************************************************)
EXTENDS Integers, Sequences, FiniteSets

CONSTANTS MaxSeen,       \* bound on the requests
          IdLimit,       \* requests
          IdSeconds,     \* window_seconds
          TicksPerSecond,
          LockWait,      \* bound on the ticks a request waits for the memory's lock
          MaxTicks       \* bound on the clock

ASSUME IdentityAssumption ==
    /\ IdLimit \in Nat \ {0} /\ IdSeconds \in Nat \ {0}
    /\ TicksPerSecond \in Nat \ {0} /\ LockWait \in Nat
    /\ MaxTicks \in Nat /\ MaxSeen \in Nat

IdWindow == IdSeconds * TicksPerSecond

VARIABLES
    ticks,
    backend,      \* "memory" or "redis"
    window,       \* count and expiry of the workspace's window; expires = Never: none set
    cleanedAt,    \* last_cleanup of the memory; Never: not yet
    pending,      \* the requests under way: when they read the clock or sent their script,
                  \* whether it ran, and its answer
    seen,         \* how many requests have come: they are numbered as they come
    windows,      \* history: how many windows have ended
    admitted,     \* history: when requests were admitted, and their turn
    hints,        \* history: of each refusal, when it was given, what retry_after it
                  \* named and when the window ends
    persisted     \* history: when the window lost its expiry; Never: not

identityVars == <<ticks, backend, window, cleanedAt, pending, seen, windows, admitted, hints,
                 persisted>>

Never == -1
NoWindow == [count |-> 0, expires |-> Never]

IdentityTypeOK ==
    /\ ticks \in 0..MaxTicks /\ backend \in {"memory", "redis"}
    /\ window.count \in 0..MaxSeen
    /\ window.expires \in -1..MaxTicks + IdWindow
    /\ cleanedAt \in -1..MaxTicks /\ persisted \in -1..MaxTicks
    /\ seen \in 0..MaxSeen /\ DOMAIN pending \subseteq 1..seen
    /\ Len(admitted) + Len(hints) <= seen

IdentityInit ==
    /\ ticks = 0 /\ backend \in {"memory", "redis"}
    /\ window = NoWindow /\ cleanedAt = Never
    /\ pending = [r \in {} |-> 0] /\ seen = 0 /\ windows = 0
    /\ admitted = <<>> /\ hints = <<>> /\ persisted = Never

\* How old the time is that a request is counted by: the memory's clock is read before its
\* lock is waited for, and Redis has its own.
Slip == IF backend = "memory" THEN LockWait ELSE 0

\* How long a request may be under way: an answer of Redis is waited for a second.
Late == IF backend = "redis" THEN TicksPerSecond ELSE LockWait

\* Redis drops a key that has expired.
Expired(w, t) == w.expires # Never /\ w.expires <= t
IdTick ==
    /\ ticks < MaxTicks /\ ticks' = ticks + 1
    /\ \A r \in DOMAIN pending : ticks < pending[r].sent + Late
    /\ IF backend = "redis" /\ Expired(window, ticks + 1)
       THEN window' = NoWindow /\ windows' = windows + 1
       ELSE UNCHANGED <<window, windows>>
    /\ UNCHANGED <<backend, cleanedAt, pending, seen, admitted, hints, persisted>>

\* As if what is left were cut to whole seconds.
RetryAfter_Cut(left) ==
    LET s == left \div TicksPerSecond IN IF s < 1 THEN 1 ELSE s

\* Whole seconds, rounded up, at least one.
RetryAfter(left) ==
    LET s == (left + TicksPerSecond - 1) \div TicksPerSecond IN IF s < 1 THEN 1 ELSE s

\* The place of a request that is counted now, as the n-th of its window.
Turn(n, w) == [nth |-> n, window |-> w, t |-> ticks]

\* The request is admitted or refused, by its turn; `left' was left of the window at the
\* time it was counted by.
Decide(turn, now, left) ==
    IF turn.nth <= IdLimit
    THEN admitted' = Append(admitted, [at |-> ticks, turn |-> turn]) /\ UNCHANGED hints
    ELSE /\ hints' = Append(hints, [at |-> ticks, after |-> RetryAfter(left),
                                    ends |-> now + left])
         /\ UNCHANGED admitted

\* As if each request restarted the window.
IdCounted_Sliding(w, now) == [count |-> w.count + 1, expires |-> now + IdWindow]

\* check_memory_at: a window that has ended is replaced, then the request is counted.
IdCounted(w, now) ==
    IF w.expires = Never \/ Expired(w, now)
    THEN [count |-> 1, expires |-> now + IdWindow]
    ELSE [w EXCEPT !.count = @ + 1]

\* A request comes: the clock is read, or the script is sent.
IdArrive ==
    /\ seen < MaxSeen /\ seen' = seen + 1
    /\ pending' = [q \in DOMAIN pending \cup {seen'} |->
                      IF q = seen' THEN [sent |-> ticks, ran |-> FALSE, turn |-> Turn(0, 0), left |-> 0]
                      ELSE pending[q]]
    /\ UNCHANGED <<ticks, backend, window, cleanedAt, windows, admitted, hints, persisted>>

\* The request gets the memory's lock, and is counted by the time it read before.  Once in
\* a window the windows that ended are dropped.
CheckMemory(r) ==
    /\ backend = "memory"
    /\ LET now == pending[r].sent
           clean == cleanedAt = Never \/ now - cleanedAt >= IdWindow
           kept == IF clean /\ Expired(window, now) THEN NoWindow ELSE window
       IN  /\ cleanedAt' = IF clean THEN now ELSE cleanedAt
           /\ window' = IdCounted(kept, now)
           /\ windows' = IF Expired(window, now) THEN windows + 1 ELSE windows
           /\ Decide(Turn(window'.count, windows'), now, window'.expires - now)
    /\ pending' = [q \in DOMAIN pending \ {r} |-> pending[q]]
    /\ UNCHANGED <<ticks, backend, seen, persisted>>

\* identity_rate_limit_count: count first, and give the key an expiry if it has none.
RunScript(r) ==
    /\ backend = "redis" /\ ~pending[r].ran
    /\ window' = [count |-> window.count + 1,
                  expires |-> IF window.expires = Never THEN ticks + IdWindow
                              ELSE window.expires]
    /\ pending' = [pending EXCEPT ![r].ran = TRUE, ![r].turn = Turn(window'.count, windows),
                                  ![r].left = window'.expires - ticks]
    /\ UNCHANGED <<ticks, backend, cleanedAt, seen, windows, admitted, hints, persisted>>

\* The answer comes in time.
AnswerScript(r) ==
    /\ pending[r].ran
    /\ Decide(pending[r].turn, pending[r].turn.t, pending[r].left)
    /\ pending' = [q \in DOMAIN pending \ {r} |-> pending[q]]
    /\ UNCHANGED <<ticks, backend, window, cleanedAt, seen, windows, persisted>>

\* ... or does not: the request is refused as unavailable, counted or not.
Unavailable(r) ==
    /\ backend = "redis"
    /\ pending' = [q \in DOMAIN pending \ {r} |-> pending[q]]
    /\ UNCHANGED <<ticks, backend, window, cleanedAt, seen, windows, admitted, hints, persisted>>

\* The key loses its expiry, by an operator or a restore.
Persist ==
    /\ backend = "redis" /\ window.expires # Never /\ persisted = Never
    /\ window' = [window EXCEPT !.expires = Never]
    /\ persisted' = ticks
    /\ UNCHANGED <<ticks, backend, cleanedAt, pending, seen, windows, admitted, hints>>

IdentityNext ==
    \/ IdTick \/ Persist \/ IdArrive
    \/ \E r \in DOMAIN pending : CheckMemory(r) \/ RunScript(r) \/ AnswerScript(r) \/ Unavailable(r)

IdentitySpec == IdentityInit /\ [][IdentityNext]_identityVars
-----------------------------------------------------------------------------
(* Properties                                                               *)

\* Of any run of twice the limit plus one admissions, the last comes at least a window
\* after the first, less the time an answer of Redis or the memory's lock may take,
\* whatever is lost: two neighbouring windows at most meet.
IdentityCap ==
    \A k \in DOMAIN admitted :
        k + 2 * IdLimit \in DOMAIN admitted =>
            admitted[k + 2 * IdLimit].at - admitted[k].at >= IdWindow - Late

\* A refused client that waits as long as it was told finds the window ended, and was not
\* told to wait longer than its end by a second and the time its answer took, nor longer
\* than a window by more than the age of the clock it was counted by, rounded up: a
\* request that waits for the lock while another opens the window is told more than the
\* window.
HintIsTrue ==
    \A k \in DOMAIN hints :
        LET h == hints[k]  until == h.at + h.after * TicksPerSecond
        IN  /\ until >= h.ends
            /\ h.after > 1 => until < h.ends + TicksPerSecond + Late
            /\ (h.after - 1) * TicksPerSecond < IdWindow + Slip

\* An identity gets at most its limit in a window, and a refusal tells it truly when the
\* window ends.
IdentityLimitHolds == IdentityCap /\ HintIsTrue

\* Requests that keep coming do not keep the window open: its end is never moved while it
\* lasts, so a client that is over the limit is served again; only a key that lost its
\* expiry gets a new one.
WindowNotExtended ==
    [][window.expires # Never /\ window'.expires > window.expires => window.expires <= ticks]_window
=============================================================================
