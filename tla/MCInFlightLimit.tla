--------------------------- MODULE MCInFlightLimit ---------------------------
(* A small instance of InFlightLimit for TLC. *)
EXTENDS InFlightLimit, TLC

CONSTANT g1

(* All requests are those of one gateway. *)
MCHomeOne == [r \in Requests |-> g1]
=============================================================================
