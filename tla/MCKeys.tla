------------------------------- MODULE MCKeys -------------------------------
(***************************************************************************)
(* The keys' two sides: the listener that brings changed rows into the     *)
(* caches, and the stages of a request that read rows while they change.   *)
(* They share no variables: each behaviour runs the one that part names    *)
(* while the other rests.                                                  *)
(***************************************************************************)
EXTENDS DatabaseListener, Admission, TLC

VARIABLE part

(* Master keys are interchangeable; the names of models are not.           *)
MCSymmetry == Permutations(MasterKeys)

(* A model under its bare name and under the names of two providers that   *)
(* have it; lists that block no spelling, all, or some while they allow    *)
(* another.                                                                *)
MCModels == {"x", "openai/x", "anthropic/x"}
MCPrefix == [m \in MCModels |-> CASE m = "x" -> "none"
                                 [] m = "openai/x" -> "openai"
                                 [] m = "anthropic/x" -> "anthropic"]
MCBare == [m \in MCModels |-> "x"]
MCLists ==
    {[allowed |-> {}, blocked |-> {}],
     [allowed |-> {}, blocked |-> MCModels],
     [allowed |-> {"x"}, blocked |-> {"openai/x"}],
     [allowed |-> {"anthropic/x"}, blocked |-> {"x", "openai/x"}]}

(* A part that rests has one initial state.                                *)
KeysInit ==
    /\ part \in {"listener", "admission"}
    /\ Init /\ AdmissionInit
    /\ part = "listener" =>
          /\ policyService = "off" /\ virtualKey.access = [allowed |-> {}, blocked |-> {}]
          /\ masterKey.provider = "openai" /\ ~masterKey.url

KeysNext ==
    \/ part = "listener" /\ Next /\ UNCHANGED <<part, admissionVars>>
    \/ part = "admission" /\ AdmissionNext /\ UNCHANGED <<part, vars>>

KeysSpec == KeysInit /\ [][KeysNext]_<<part, vars, admissionVars>>
=============================================================================
