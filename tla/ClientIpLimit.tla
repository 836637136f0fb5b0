---------------------------- MODULE ClientIpLimit ----------------------------
(***************************************************************************)
(* The limit on the requests of a client address in a sliding second       *)
(* (middleware/client_ip_rate_limit): a script over a sorted set in Redis, *)
(* shared by the gateway processes, and a queue of instants in each        *)
(* process for when Redis fails.  Time is counted in ticks; the clock of   *)
(* Redis and those of the processes are only ever compared with            *)
(* themselves, so one clock stands for all.                                *)
(***************************************************************************)
EXTENDS Integers, FiniteSets

CONSTANTS Processes, Clients,
          MaxArrivals,  \* bound on the requests
          IpLimit,      \* requests_per_second
          IpWindow,     \* ticks of a second
          MaxTracked,   \* MAX_TRACKED_IPS
          MaxTime       \* bound on the clock

ASSUME IpAssumption ==
    /\ IpLimit \in Nat \ {0} /\ IpWindow \in Nat \ {0} /\ MaxTracked \in Nat \ {0}
    /\ MaxArrivals \in Nat /\ MaxTime \in Nat /\ "redis" \notin Processes

VARIABLES
    now,
    useRedis,    \* the flag of each process
    zset,        \* each client's sorted set, as the set of its entries
    deques,      \* of each process: client -> queue, as the set of its entries, for the
                 \* clients it tracks
    checks,      \* the requests whose script runs: request -> process and client
    arrivals,    \* how many requests have come: they are numbered as they come
    passed,      \* history: what each backend granted, also when its answer was lost
    refused,     \* history: what each backend refused
    lives        \* history: how often each process has dropped a client's queue

ipVars == <<now, useRedis, zset, deques, checks, arrivals, passed, refused, lives>>

Backends == Processes \cup {"redis"}

IpTypeOK ==
    /\ now \in 0..MaxTime
    /\ useRedis \in [Processes -> BOOLEAN]
    /\ \A c \in Clients : Cardinality(zset[c]) <= IpLimit
    /\ \A p \in Processes : /\ DOMAIN deques[p] \subseteq Clients
                            /\ Cardinality(DOMAIN deques[p]) <= MaxTracked
                            /\ \A c \in DOMAIN deques[p] : Cardinality(deques[p][c]) <= IpLimit
    /\ arrivals \in 0..MaxArrivals /\ DOMAIN checks \subseteq 1..arrivals
    /\ lives \in [Processes -> [Clients -> Nat]]

IpInit ==
    /\ now = 0
    /\ useRedis \in [Processes -> BOOLEAN]
    /\ zset = [c \in Clients |-> {}]
    /\ deques = [p \in Processes |-> [c \in {} |-> {}]]
    /\ checks = [r \in {} |-> 0]
    /\ arrivals = 0 /\ passed = {} /\ refused = {}
    /\ lives = [p \in Processes |-> [c \in Clients |-> 0]]

IpTick == now < MaxTime /\ now' = now + 1
          /\ UNCHANGED <<useRedis, zset, deques, checks, arrivals, passed, refused, lives>>

Without(f, x) == [y \in DOMAIN f \ {x} |-> f[y]]
Put(f, x, v) == [y \in DOMAIN f \cup {x} |-> IF y = x THEN v ELSE f[y]]

\* What a backend stores of a request it counts: the member and the score in Redis, the
\* instant in memory.  Whose it is, and in which life of the queue, is history.
Entry(r, c, by, life) == [request |-> r, client |-> c, by |-> by, at |-> now, life |-> life]

\* The backend grants or refuses a request.
Verdict(e, ok) ==
    /\ passed' = IF ok THEN passed \cup {e} ELSE passed
    /\ refused' = IF ok THEN refused ELSE refused \cup {e}

\* The instants MemoryLimiter keeps: the queue is in the order of the clock, so those that
\* are popped from its front are all the others.
Recent(e) == now - e.at <= IpWindow

\* As if a request that is rejected were counted too.
MemoryCheck_CountsAll(r, p, c, d) ==
    LET fresh == {e \in d[c] : Recent(e)}
        ok == Cardinality(fresh) < IpLimit
        e == Entry(r, c, p, lives'[p][c])
        oldest == CHOOSE f \in fresh : \A g \in fresh : f.at <= g.at
    IN  /\ deques' = [deques EXCEPT ![p] = [d EXCEPT ![c] =
                         (IF ok THEN fresh ELSE fresh \ {oldest}) \cup {e}]]
        /\ Verdict(e, ok)

\* MemoryLimiter::check after the eviction: d is the map, with an entry for c.
MemoryCheck(r, p, c, d) ==
    LET fresh == {e \in d[c] : Recent(e)}
        ok == Cardinality(fresh) < IpLimit
        e == Entry(r, c, p, lives'[p][c])
    IN  /\ deques' = [deques EXCEPT ![p] = [d EXCEPT ![c] = IF ok THEN fresh \cup {e} ELSE fresh]]
        /\ Verdict(e, ok)

\* As if every client were tracked.
Memory_Unbounded(r, p, c) ==
    /\ UNCHANGED lives
    /\ MemoryCheck(r, p, c, IF c \in DOMAIN deques[p] THEN deques[p] ELSE Put(deques[p], c, {}))

\* MemoryLimiter::check: a full map first drops any of its clients.  The code reads the
\* clock just before it waits for the lock of the map; here both are one step, so that a
\* request is counted at the time it gets the lock and queues are in the order of time.
Memory(r, p, c) ==
    LET d == deques[p] IN
    IF c \in DOMAIN d \/ Cardinality(DOMAIN d) < MaxTracked
    THEN /\ UNCHANGED lives
         /\ MemoryCheck(r, p, c, IF c \in DOMAIN d THEN d ELSE Put(d, c, {}))
    ELSE \E victim \in DOMAIN d :
            /\ lives' = [lives EXCEPT ![p][victim] = @ + 1]
            /\ MemoryCheck(r, p, c, Put(Without(d, victim), c, {}))

\* A request reaches the layer, which reads use_redis.
IpArrive(p, c) ==
    /\ arrivals < MaxArrivals /\ arrivals' = arrivals + 1
    /\ IF useRedis[p]
       THEN checks' = Put(checks, arrivals', [process |-> p, client |-> c, ran |-> FALSE])
            /\ UNCHANGED <<deques, passed, refused, lives>>
       ELSE Memory(arrivals', p, c) /\ UNCHANGED checks
    /\ UNCHANGED <<now, useRedis, zset>>

\* The script: what it leaves of the client's set, and whether it grants.
Live(c) == {e \in zset[c] : e.at > now - IpWindow}
Granted(c) == Cardinality(Live(c)) < IpLimit
Scripted(r, c) ==
    [zset EXCEPT ![c] = IF Granted(c) THEN Live(c) \cup {Entry(r, c, "redis", 0)} ELSE Live(c)]

\* The script runs at Redis ...
IpScript(r) ==
    /\ ~checks[r].ran
    /\ LET c == checks[r].client IN
       /\ zset' = Scripted(r, c)
       /\ Verdict(Entry(r, c, "redis", 0), Granted(c))
    /\ checks' = [checks EXCEPT ![r].ran = TRUE]
    /\ UNCHANGED <<now, useRedis, deques, arrivals, lives>>

\* ... and its answer decides the request,
IpAnswered(r) ==
    /\ checks[r].ran
    /\ checks' = Without(checks, r)
    /\ UNCHANGED <<now, useRedis, zset, deques, arrivals, passed, refused, lives>>

\* or the call fails, before or after the script: the process turns to its memory.
IpFails(r) ==
    /\ useRedis' = [useRedis EXCEPT ![checks[r].process] = FALSE]
    /\ Memory(r, checks[r].process, checks[r].client)
    /\ checks' = Without(checks, r)
    /\ UNCHANGED <<now, zset, arrivals>>

\* The task that pings every thirty seconds.
IpRecovers(p) ==
    /\ ~useRedis[p]
    /\ useRedis' = [useRedis EXCEPT ![p] = TRUE]
    /\ UNCHANGED <<now, zset, deques, checks, arrivals, passed, refused, lives>>

IpNext ==
    \/ IpTick
    \/ \E p \in Processes, c \in Clients : IpArrive(p, c)
    \/ \E r \in DOMAIN checks : IpScript(r) \/ IpAnswered(r) \/ IpFails(r)
    \/ \E p \in Processes : IpRecovers(p)

IpSpec == IpInit /\ [][IpNext]_ipVars
-----------------------------------------------------------------------------
(* Properties                                                               *)

\* What the backend of e granted to the client of e in the second up to e.  Redis leaves
\* out what is a whole second old, memory does not.
Window(e) ==
    {g \in passed :
        /\ g.client = e.client /\ g.by = e.by /\ g.life = e.life /\ g.at <= e.at
        /\ e.at - g.at <= IF e.by = "redis" THEN IpWindow - 1 ELSE IpWindow}

\* However Redis comes and goes and whichever process is asked, Redis grants at most the
\* limit in any second, for all processes, and the memory of each process at most the
\* limit in any second, unless it dropped the client's queue in between to make room.
IpWindowCap == \A e \in passed : Cardinality(Window(e)) <= IpLimit

\* A client is turned away only if the backend granted it the limit within the second:
\* what was turned away does not count, and a client that slows down is served again.
IpRefusedOnlyWhenFull == \A e \in refused : Cardinality(Window(e)) >= IpLimit

\* An address gets its limit in a second from each backend: no more and no less.
IpLimitHolds == IpWindowCap /\ IpRefusedOnlyWhenFull
=============================================================================
