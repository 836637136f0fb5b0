---------------------------- MODULE PaidDelivery ----------------------------
(***************************************************************************)
(* What a paid endpoint promises its buyers and its sellers, without the   *)
(* protocol that keeps the promise: a payment is settled at most once, the *)
(* seller's service is delivered only for a settled payment, and to one    *)
(* buyer's request.                                                        *)
(***************************************************************************)
CONSTANTS Payments, Buyers

VARIABLES settled,      \* the payments taken from the buyers
          deliveredTo   \* the requests the service was delivered to, by payment

PaidInit ==
    /\ settled = {}
    /\ deliveredTo = [p \in Payments |-> {}]

Settle(p) ==
    /\ p \notin settled
    /\ settled' = settled \cup {p}
    /\ UNCHANGED deliveredTo

Deliver(p, b) ==
    /\ p \in settled
    /\ deliveredTo[p] = {}
    /\ deliveredTo' = [deliveredTo EXCEPT ![p] = {b}]
    /\ UNCHANGED settled

PaidNext == \E p \in Payments : Settle(p) \/ \E b \in Buyers : Deliver(p, b)

PaidSpec == PaidInit /\ [][PaidNext]_<<settled, deliveredTo>>
=============================================================================
