--------------------------- MODULE EventLogProofs ---------------------------
(***************************************************************************)
(* What sending an event may come to: at most two copies in the log, and   *)
(* at least one if it was accepted.                                        *)
(***************************************************************************)
EXTENDS EventLog, TLAPS

\* The fields of the result of a send.
LEMMA SentFields == \A ok, n : Sent(ok, n).ok = ok /\ Sent(ok, n).copies = n
BY DEF Sent

\* What a send over HTTP reports and what it logs: a success is one copy.
LEMMA SendHttpResult ==
    ASSUME NEW http \in BOOLEAN, NEW h \in SendHttp(http)
    PROVE  h.ok \in BOOLEAN /\ h.copies \in 0..1 /\ (h.ok => h.copies = 1)
<1>1. (h.ok = TRUE \/ h.ok = FALSE) /\ (h.copies = 0 \/ h.copies = 1)
      /\ (h.ok = FALSE \/ h.copies = 1)
  <2>1. CASE h = Sent(TRUE, 1)
    BY <2>1, SentFields, Zenon
  <2>2. CASE h = Sent(FALSE, 0)
    BY <2>2, SentFields, Zenon
  <2>3. CASE h = Sent(FALSE, 1)
    BY <2>3, SentFields, Zenon
  <2> QED  BY <2>1, <2>2, <2>3 DEF SendHttp
<1>2. h.ok \in BOOLEAN
  BY <1>1
<1>3. h.copies \in 0..1
  BY <1>1
<1>4. h.ok => h.copies = 1
  BY <1>1
<1> QED  BY <1>2, <1>3, <1>4

\* What a send reports and what reaches the log: a success is in the log, and at most two
\* copies are, one by each transport (AgentEventLogTransport::send).
LEMMA SendEventResult ==
    ASSUME NEW sink \in [redis : BOOLEAN, http : BOOLEAN], NEW s \in SendEvent(sink)
    PROVE  s.ok \in BOOLEAN /\ s.copies \in 0..2 /\ (s.ok => s.copies > 0)
<1>1. sink.http \in BOOLEAN
  OBVIOUS
<1>2. CASE s \in SendHttp(sink.http)
  BY <1>1, <1>2, SendHttpResult
<1>3. CASE s = Sent(TRUE, 1)
  <2>1. s.ok = TRUE /\ s.copies = 1
    BY <1>3, SentFields, Zenon
  <2>2. s.ok \in BOOLEAN
    BY <2>1
  <2>3. s.copies \in 0..2 /\ s.copies > 0
    BY <2>1
  <2> QED  BY <2>2, <2>3
<1>4. ASSUME NEW h \in SendHttp(sink.http), NEW added \in 0..1, s = Sent(h.ok, h.copies + added)
      PROVE  s.ok \in BOOLEAN /\ s.copies \in 0..2 /\ (s.ok => s.copies > 0)
  <2>1. s.ok = h.ok /\ s.copies = h.copies + added
    BY <1>4, SentFields, Zenon
  <2> QED  BY <1>1, <2>1, SendHttpResult
<1>5. \/ s \in SendHttp(sink.http) \/ s = Sent(TRUE, 1)
      \/ \E h \in SendHttp(sink.http), added \in 0..1 : s = Sent(h.ok, h.copies + added)
  <2> DEFINE R == {Sent(h.ok, h.copies + added) : h \in SendHttp(sink.http), added \in 0..1}
  <2>1. s \in SendHttp(sink.http) \/ s = Sent(TRUE, 1) \/ s \in R
    <3> HIDE DEF R
    <3>1. SendEvent(sink) = SendHttp(sink.http) \cup IF sink.redis THEN {Sent(TRUE, 1)} \cup R ELSE {}
      BY DEF SendEvent, R
    <3> QED  BY <3>1
  <2>2. s \in R => \E h \in SendHttp(sink.http), added \in 0..1 : s = Sent(h.ok, h.copies + added)
    OBVIOUS
  <2> HIDE DEF R
  <2> QED  BY <2>1, <2>2
<1> QED  BY <1>2, <1>3, <1>4, <1>5, Zenon
=============================================================================
