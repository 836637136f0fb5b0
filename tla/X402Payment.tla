----------------------------- MODULE X402Payment -----------------------------
(***************************************************************************)
(* A paid request of an x402 endpoint (x402/service.rs): the snapshot of   *)
(* the endpoint, the policy, the payment terms or the settlement by the    *)
(* payment service, the call of the seller's upstream, the record of its   *)
(* result, and the log.  Every await is a step of its own: a client may    *)
(* disconnect there, which drops the rest of the handler, and a call may   *)
(* take effect although its answer is lost or comes after the timeout.     *)
(***************************************************************************)
EXTENDS Naturals

CONSTANTS Purchases,    \* requests, each handled once
          Signatures,  \* payment signatures; a client may send one again
          NoSig,       \* a request without a payment signature
          Nobody       \* the owner of a payment that is not settled

ASSUME SignatureAssumption == NoSig \notin Signatures /\ Nobody \notin Purchases

VARIABLES
    gateway,     \* what startup left: the payment client, its key, the policy mode
    handler,          \* where the handler of each request is
    sig,         \* its Payment-Signature header
    answer,      \* the response it gives, or will give once its log is written
    rpc,         \* its VerifyAndSettlePayment, as the payment service sees it
    settledFor,  \* the request each signature was settled for
    forward,     \* the forwarded request, as the upstream sees it
    result,      \* what RecordServiceResult was asked to record
    logs,        \* copies of its log entry that arrived
    window       \* history: where a settled payment left the normal path

x402Vars == <<gateway, handler, sig, answer, rpc, settledFor, forward, result, logs, window>>

Steps == {"idle", "snapshot", "body", "policy", "terms", "settle", "secret",
          "proxy", "record", "log", "stream", "spawned", "done", "gone"}

\* The answers of the handler, by the error code it gives.
Refusals == {"not_found", "snapshot_error", "body_rejected", "policy_denied",
             "payment_required", "terms_failed", "payment_unavailable",
             "key_unconfigured", "upstream_invalid", "payment_refused"}
Uncertain == {"verify_failed", "verify_timeout"}
AfterPayment == {"signing_failed", "upstream_failed", "upstream"}
Answers == {"none"} \cup Refusals \cup Uncertain \cup AfterPayment

X402TypeOK ==
    /\ gateway \in [client : BOOLEAN, key : BOOLEAN, allowUnavailable : BOOLEAN]
    /\ handler \in [Purchases -> Steps]
    /\ sig \in [Purchases -> Signatures \cup {NoSig}]
    /\ answer \in [Purchases -> Answers]
    /\ rpc \in [Purchases -> {"none", "sent", "settled", "refused"}]
    /\ settledFor \in [Signatures -> Purchases \cup {Nobody}]
    /\ forward \in [Purchases -> {"none", "sent", "received"}]
    /\ result \in [Purchases -> {"none", "succeeded", "failed", "gateway_error"}]
    /\ logs \in [Purchases -> 0..2]
    /\ window \in [Purchases -> {"none", "reply", "secret", "disconnect"}]

X402Init ==
    /\ gateway \in [client : BOOLEAN, key : BOOLEAN, allowUnavailable : BOOLEAN]
    /\ handler = [q \in Purchases |-> "idle"]
    /\ sig = [q \in Purchases |-> NoSig]
    /\ answer = [q \in Purchases |-> "none"]
    /\ rpc = [q \in Purchases |-> "none"]
    /\ settledFor = [s \in Signatures |-> Nobody]
    /\ forward = [q \in Purchases |-> "none"]
    /\ result = [q \in Purchases |-> "none"]
    /\ logs = [q \in Purchases |-> 0]
    /\ window = [q \in Purchases |-> "none"]

payment == <<rpc, settledFor, forward, result>>

ArriveX402(q) ==
    /\ handler[q] = "idle"
    /\ \E s \in Signatures \cup {NoSig} : sig' = [sig EXCEPT ![q] = s]
    /\ handler' = [handler EXCEPT ![q] = "snapshot"]
    /\ UNCHANGED <<gateway, answer, payment, logs, window>>

\* The handler goes on to the next await.
Proceed(q, step) ==
    /\ handler' = [handler EXCEPT ![q] = step]
    /\ UNCHANGED answer

\* An early return: the log entry is written first, then the answer is given.
Reject(q, code) ==
    /\ handler' = [handler EXCEPT ![q] = "log"]
    /\ answer' = [answer EXCEPT ![q] = code]

\* The early return without a log entry: the key of the payment service is unset.
RejectUnlogged(q, code) ==
    /\ handler' = [handler EXCEPT ![q] = "done"]
    /\ answer' = [answer EXCEPT ![q] = code]

-----------------------------------------------------------------------------
(* Endpoint snapshot and signing secret: Redis first, then the database.    *)

\* What resolve_snapshot makes of the two stores' replies.
SnapshotOf(redis, db) ==
    CASE redis = "hit" -> "found"
      [] redis = "partial" -> IF db = "error" THEN "error" ELSE "found"
      [] redis = "malformed" -> "error"
      [] OTHER -> CASE db = "row" -> "found"
                    [] db \in {"error", "malformed"} -> "error"
                    [] OTHER -> "missing"

\* What resolve_endpoint_signing_secret makes of them.
SecretOf(redis, db) ==
    CASE redis = "hit" -> "found"
      [] OTHER -> IF db = "row" THEN "found" ELSE "error"

RedisReplies == {"hit", "partial", "malformed", "miss", "error", "absent"}
DbReplies == {"row", "malformed", "missing", "error", "absent"}

ResolveSnapshot(q) ==
    /\ handler[q] = "snapshot"
    /\ \E redis \in RedisReplies, db \in DbReplies :
         \/ SnapshotOf(redis, db) = "found" /\ Proceed(q, "body")
         \/ SnapshotOf(redis, db) = "missing" /\ Reject(q, "not_found")
         \/ SnapshotOf(redis, db) = "error" /\ Reject(q, "snapshot_error")
    /\ UNCHANGED <<gateway, sig, payment, logs, window>>

\* Content-Length, the limited read and the schema each may refuse the body.
ReadBody(q) ==
    /\ handler[q] = "body"
    /\ Proceed(q, "policy") \/ Reject(q, "body_rejected")
    /\ UNCHANGED <<gateway, sig, payment, logs, window>>

-----------------------------------------------------------------------------
(* Policy, payment terms, settlement                                        *)

\* handle_payment_requirements up to its call of the payment service.
AskTerms(q) ==
    \/ ~gateway.client /\ Reject(q, "payment_unavailable") /\ UNCHANGED rpc
    \/ gateway.client /\ ~gateway.key /\ RejectUnlogged(q, "key_unconfigured") /\ UNCHANGED rpc
    \/ gateway.client /\ gateway.key /\ Proceed(q, "terms") /\ UNCHANGED rpc

\* handle_paid_request up to its call of the payment service.
StartPayment(q) ==
    \/ Reject(q, "upstream_invalid") /\ UNCHANGED rpc
    \/ ~gateway.client /\ Reject(q, "payment_unavailable") /\ UNCHANGED rpc
    \/ gateway.client /\ ~gateway.key /\ RejectUnlogged(q, "key_unconfigured") /\ UNCHANGED rpc
    \/ /\ gateway.client /\ gateway.key
       /\ Proceed(q, "settle")
       /\ rpc' = [rpc EXCEPT ![q] = "sent"]

\* The request passes the policy: terms without a signature, payment with one.
Admit(q) == IF sig[q] = NoSig THEN AskTerms(q) ELSE StartPayment(q)

EvaluatePolicy(q) ==
    /\ handler[q] = "policy"
    /\ \E verdict \in {"allowed", "denied", "unavailable"} :
         \/ /\ verdict = "allowed" \/ (verdict = "unavailable" /\ gateway.allowUnavailable)
            /\ Admit(q)
         \/ /\ verdict = "denied" \/ (verdict = "unavailable" /\ ~gateway.allowUnavailable)
            /\ Reject(q, "policy_denied")
            /\ UNCHANGED rpc
    /\ UNCHANGED <<gateway, sig, settledFor, forward, result, logs, window>>

\* GetPaymentRequirements answers, fails or times out.
ReceiveTerms(q) ==
    /\ handler[q] = "terms"
    /\ \E code \in {"payment_required", "terms_failed"} : Reject(q, code)
    /\ UNCHANGED <<gateway, sig, payment, logs, window>>

\* The payment service, also after the gateway stopped waiting for it: a signature
\* settles at most one payment.
ServiceSettles(q) ==
    /\ rpc[q] = "sent"
    /\ \/ /\ settledFor[sig[q]] = Nobody
          /\ settledFor' = [settledFor EXCEPT ![sig[q]] = q]
          /\ rpc' = [rpc EXCEPT ![q] = "settled"]
       \/ /\ rpc' = [rpc EXCEPT ![q] = "refused"]
          /\ UNCHANGED settledFor
    /\ UNCHANGED <<gateway, handler, sig, answer, forward, result, logs, window>>

\* As if the success of the settlement were not read.
SettleReply_Unchecked(q) ==
    /\ handler[q] = "settle"
    /\ rpc[q] \in {"settled", "refused"}
    /\ Proceed(q, "secret")
    /\ UNCHANGED <<gateway, sig, payment, logs, window>>

\* The answer of the payment service: on to the upstream only when it succeeded.
SettleReply(q) ==
    /\ handler[q] = "settle"
    /\ \/ rpc[q] = "settled" /\ Proceed(q, "secret")
       \/ rpc[q] = "refused" /\ Reject(q, "payment_refused")
    /\ UNCHANGED <<gateway, sig, payment, logs, window>>

\* As if the settlement had no timeout.
SettleFails_NoTimeout(q) ==
    /\ handler[q] = "settle"
    /\ rpc[q] # "sent"
    /\ Reject(q, "verify_failed")
    /\ window' = [window EXCEPT ![q] = "reply"]
    /\ UNCHANGED <<gateway, sig, payment, logs>>

\* A status error, which may stand for a lost answer, and the timeout of the call.
SettleFails(q) ==
    /\ handler[q] = "settle"
    /\ \E code \in Uncertain : Reject(q, code)
    /\ window' = [window EXCEPT ![q] = "reply"]
    /\ UNCHANGED <<gateway, sig, payment, logs>>

-----------------------------------------------------------------------------
(* Forwarding, the record of the result, the log                            *)

\* The signing secret is read after the payment; without it nothing is forwarded
\* and nothing recorded.
ResolveSecret(q) ==
    /\ handler[q] = "secret"
    /\ \E redis \in RedisReplies, db \in DbReplies :
         \/ /\ SecretOf(redis, db) = "found"
            /\ Proceed(q, "proxy")
            /\ forward' = [forward EXCEPT ![q] = "sent"]
            /\ UNCHANGED window
         \/ /\ SecretOf(redis, db) = "error"
            /\ Reject(q, "signing_failed")
            /\ window' = [window EXCEPT ![q] = "secret"]
            /\ UNCHANGED forward
    /\ UNCHANGED <<gateway, sig, rpc, settledFor, result, logs>>

\* The upstream receives the forwarded request, perhaps after the gateway gave up.
UpstreamServes(q) ==
    /\ forward[q] = "sent"
    /\ forward' = [forward EXCEPT ![q] = "received"]
    /\ UNCHANGED <<gateway, handler, sig, answer, rpc, settledFor, result, logs, window>>

\* As if a failed call of the upstream were not recorded.
ProxyPaidRequest_ErrorUnrecorded(q) ==
    /\ handler[q] = "proxy"
    /\ \/ /\ forward[q] = "received"
          /\ \E status \in {"succeeded", "failed"} : result' = [result EXCEPT ![q] = status]
          /\ Proceed(q, "record")
       \/ Reject(q, "upstream_failed") /\ UNCHANGED result
    /\ UNCHANGED <<gateway, sig, rpc, settledFor, forward, logs, window>>

\* Its answer, a transport error or the timeout; the result is recorded next.
ProxyPaidRequest(q) ==
    /\ handler[q] = "proxy"
    /\ \/ /\ forward[q] = "received"
          /\ \E status \in {"succeeded", "failed"} : result' = [result EXCEPT ![q] = status]
       \/ result' = [result EXCEPT ![q] = "gateway_error"]
    /\ Proceed(q, "record")
    /\ UNCHANGED <<gateway, sig, rpc, settledFor, forward, logs, window>>

\* One attempt, whatever comes of it; then the answer of the upstream, whose log
\* waits for the body to end, or the error.
RecordServiceResult(q) ==
    /\ handler[q] = "record"
    /\ IF result[q] = "gateway_error"
       THEN Reject(q, "upstream_failed")
       ELSE /\ handler' = [handler EXCEPT ![q] = "stream"]
            /\ answer' = [answer EXCEPT ![q] = "upstream"]
    /\ UNCHANGED <<gateway, sig, payment, logs, window>>

\* The copies a write leaves: an XADD that reports an error may have taken effect,
\* the entry is then sent over HTTP all the same, and that may fail as well.
Copied == 0..2

\* emit_x402_log_best_effort: the stream of Redis, then HTTP; an error is dropped.
WriteLog(q) ==
    /\ handler[q] \in {"log", "spawned"}
    /\ \E written \in Copied : logs' = [logs EXCEPT ![q] = written]
    /\ handler' = [handler EXCEPT ![q] = "done"]
    /\ UNCHANGED <<gateway, sig, answer, payment, window>>

\* The counted body ends or is dropped: a spawned task writes the log.
BodyCompletes(q) ==
    /\ handler[q] = "stream"
    /\ handler' = [handler EXCEPT ![q] = "spawned"]
    /\ UNCHANGED <<gateway, sig, answer, payment, logs, window>>

Awaiting == {"snapshot", "body", "policy", "terms", "settle", "secret", "proxy",
             "record", "log"}

\* The client disconnects: the handler is dropped at the await it has reached, the
\* write of its log entry included, which may have taken effect by then.
Disconnect(q) ==
    /\ handler[q] \in Awaiting
    /\ \E written \in IF handler[q] = "log" THEN Copied ELSE {0} :
         logs' = [logs EXCEPT ![q] = written]
    /\ handler' = [handler EXCEPT ![q] = "gone"]
    /\ window' = [window EXCEPT ![q] = IF @ = "none" THEN "disconnect" ELSE @]
    /\ UNCHANGED <<gateway, sig, answer, payment>>

\* The process stops: every handler and every spawned task with it.
ProcessStops ==
    /\ logs' \in {l \in [Purchases -> Copied] :
                    \A q \in Purchases : handler[q] \notin {"log", "spawned"} => l[q] = logs[q]}
    /\ handler' = [q \in Purchases |-> IF handler[q] \in Awaiting \cup {"stream", "spawned"}
                                 THEN "gone" ELSE handler[q]]
    /\ window' = [q \in Purchases |-> IF handler[q] \in Awaiting /\ window[q] = "none"
                                     THEN "disconnect" ELSE window[q]]
    /\ handler' # handler
    /\ UNCHANGED <<gateway, sig, answer, payment>>

\* The steps the runtime takes for a request.  The calls of the payment service, the
\* policy service and the upstream end by their timeouts if by nothing else; the reads
\* and writes of Redis (resolve_snapshot, resolve_endpoint_signing_secret and
\* write_x402_log, through the mutex of AppRedis) have none: that Redis answers or
\* fails is an assumption.
HandlerStep(q) ==
    \/ ResolveSnapshot(q) \/ ReadBody(q) \/ EvaluatePolicy(q) \/ ReceiveTerms(q)
    \/ SettleReply(q) \/ SettleFails(q) \/ ResolveSecret(q) \/ ProxyPaidRequest(q)
    \/ RecordServiceResult(q) \/ WriteLog(q)

X402Next ==
    \/ \E q \in Purchases :
          \/ ArriveX402(q) \/ HandlerStep(q) \/ BodyCompletes(q) \/ Disconnect(q)
          \/ ServiceSettles(q) \/ UpstreamServes(q)
    \/ ProcessStops

X402Spec == X402Init /\ [][X402Next]_x402Vars

\* The runtime polls every handler, every response body ends or is dropped, and Redis
\* and the database answer or fail.  Nothing is assumed of the payment service, the
\* policy service and the upstream.
X402Fairness ==
    \A q \in Purchases : WF_x402Vars(HandlerStep(q)) /\ WF_x402Vars(BodyCompletes(q))

X402LiveSpec == X402Spec /\ X402Fairness
-----------------------------------------------------------------------------
(* Properties                                                               *)

\* The requests whose service the seller has delivered.
Served == {q \in Purchases : forward[q] = "received"}

\* The upstream is called for a request only after its own payment was settled,
\* so two requests with one signature are never both served (service.rs: the
\* return on !success between the settlement and proxy_paid_request).
ServedOnlyIfPaid ==
    /\ \A q \in Served : sig[q] \in Signatures /\ settledFor[sig[q]] = q
    /\ \A p, q \in Served : sig[p] = sig[q] => p = q

\* A client that is told its payment was not taken has not paid: also a settlement
\* that completes late belongs to a request that was cancelled, timed out or got a
\* status error (the early returns of handle_paid_request).
RefusedNotCharged ==
    \A q \in Purchases :
        answer[q] \in Refusals => \A s \in Signatures : settledFor[s] # q

\* A settled payment whose handler has ended has its service result recorded, except
\* in the windows the code leaves open: a lost or late answer of the payment
\* service, a signing secret that cannot be read, a disconnect.
SettledIsAccounted ==
    \A s \in Signatures : LET q == settledFor[s] IN
        (q # Nobody /\ handler[q] \in {"stream", "spawned", "done", "gone"})
            => result[q] # "none" \/ window[q] # "none"

\* Nobody is served unpaid, nobody is charged for a refusal, and no settled payment is
\* forgotten outside the windows above, whatever is lost, late or cancelled.
PaymentsBalance == ServedOnlyIfPaid /\ RefusedNotCharged /\ SettledIsAccounted

\* Every request is answered, or its client has gone, even when the payment service,
\* the policy service and the upstream never answer: each of these calls has its
\* timeout.  (Redis is taken to answer or fail: its reads have none.)
RequestAnswered ==
    \A q \in Purchases : handler[q] = "snapshot" ~> handler[q] \in {"done", "gone"}

\* What the endpoint promises, implemented: see PaidDelivery.
Promise == INSTANCE PaidDelivery WITH
    Payments <- Signatures,
    Buyers <- Purchases,
    settled <- {s \in Signatures : settledFor[s] # Nobody},
    deliveredTo <- [s \in Signatures |-> {q \in Served : sig[q] = s}]

\* No payment is settled twice and the seller's service is delivered once, for a
\* settled payment only (proxy_paid_request after VerifyAndSettlePayment).
KeepsPromise == Promise!PaidSpec
=============================================================================
