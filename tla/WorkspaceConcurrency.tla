------------------------ MODULE WorkspaceConcurrency ------------------------
(***************************************************************************)
(* The count of a workspace's requests in flight that all gateways share   *)
(* in Redis, for whoever reads it: nothing is refused because of it.       *)
(*                                                                         *)
(* WorkspaceConcurrencyService increments before it calls the layers below *)
(* and wraps the body of the response, whose end or drop spawns a task     *)
(* that decrements, not below zero.  INCR and EXPIRE are two commands; a   *)
(* request whose increment failed, wholly or in part, is never             *)
(* decremented, and neither is one whose client leaves before the response *)
(* is there.  Each operation renews the key's hour.                        *)
(***************************************************************************)
EXTENDS Naturals, FiniteSets

CONSTANT WsRequests  \* requests of one workspace

ASSUME WsAssumption == IsFiniteSet(WsRequests)

VARIABLES
    counter,  \* the key's value, 0 when there is no key
    ws,       \* request -> where it is
    stray     \* history: what happened to the count that no request stands for

wsVars == <<counter, ws, stray>>

(* calling: counted; uncounted: the increment was answered by an error;    *)
(* body: the response is being read; ended: the decrement is under way.    *)
WsStates == {"new", "calling", "uncounted", "body", "ended", "over"}

(* Requests the count stands for.                                          *)
Counted == {r \in WsRequests : ws[r] \in {"calling", "body", "ended"}}

(* The counter is within the requests there are.                           *)
WsTypeOK ==
    /\ counter \in 0 .. Cardinality(WsRequests)
    /\ ws \in [WsRequests -> WsStates]
    /\ stray \in [leaked : 0 .. Cardinality(WsRequests), expired : BOOLEAN]

WsInit ==
    /\ counter = 0
    /\ ws = [r \in WsRequests |-> "new"]
    /\ stray = [leaked |-> 0, expired |-> FALSE]

WsTo(r, s) == ws' = [ws EXCEPT ![r] = s]
WsLeak == stray' = [stray EXCEPT !.leaked = @ + 1]

Incr(r) ==
    /\ ws[r] = "new" /\ counter' = counter + 1
    /\ WsTo(r, "calling") /\ UNCHANGED stray

(* INCR fails, or INCR works and EXPIRE fails or the answer is lost.       *)
IncrFails(r) ==
    /\ ws[r] = "new" /\ WsTo(r, "uncounted")
    /\ \/ UNCHANGED <<counter, stray>>
       \/ counter' = counter + 1 /\ WsLeak

(* The layers below have answered; only a counted request wraps the body.  *)
Respond(r) ==
    /\ ws[r] \in {"calling", "uncounted"}
    /\ WsTo(r, IF ws[r] = "calling" THEN "body" ELSE "over")
    /\ UNCHANGED <<counter, stray>>

(* The client leaves and the call is dropped: nothing decrements.          *)
Leave(r) ==
    /\ ws[r] \in {"calling", "uncounted"} /\ WsTo(r, "over")
    /\ IF ws[r] = "calling" THEN WsLeak ELSE UNCHANGED stray
    /\ UNCHANGED counter

(* Fault: the end of the body and its drop both release.                   *)
EndOfBody_Twice(r) ==
    /\ ws[r] = "body" /\ WsTo(r, "ended")
    /\ counter' = IF counter > 0 THEN counter - 1 ELSE 0
    /\ UNCHANGED stray

(* CountedBody: the end, an error or the drop, whichever is first.         *)
EndOfBody(r) ==
    /\ ws[r] = "body" /\ WsTo(r, "ended") /\ UNCHANGED <<counter, stray>>

(* DECR_FLOOR.                                                             *)
Decr(r) ==
    /\ ws[r] = "ended" /\ WsTo(r, "over")
    /\ counter' = IF counter > 0 THEN counter - 1 ELSE 0
    /\ UNCHANGED stray

DecrFails(r) ==
    /\ ws[r] = "ended" /\ WsTo(r, "over")
    /\ \/ WsLeak /\ UNCHANGED counter
       \/ counter' = (IF counter > 0 THEN counter - 1 ELSE 0) /\ UNCHANGED stray

(* An hour without an operation: the key is gone, whoever is in flight.    *)
Expire ==
    /\ counter > 0 /\ counter' = 0
    /\ stray' = [leaked |-> 0, expired |-> stray.expired \/ Counted # {}]
    /\ UNCHANGED ws

WsNext ==
    \/ \E r \in WsRequests :
          \/ Incr(r) \/ IncrFails(r) \/ Respond(r) \/ Leave(r)
          \/ EndOfBody(r) \/ Decr(r) \/ DecrFails(r)
    \/ Expire

WsSpec == WsInit /\ [][WsNext]_wsVars

-----------------------------------------------------------------------------
(***************************************************************************)
(* The count is never above the requests it stands for and those that      *)
(* leaked since the key was last created; without expiry under requests it *)
(* is exactly that, so the floor of the decrement never hides an error.    *)
(***************************************************************************)
CountAccounted ==
    /\ counter <= Cardinality(Counted) + stray.leaked
    /\ ~stray.expired => counter = Cardinality(Counted) + stray.leaked
=============================================================================
