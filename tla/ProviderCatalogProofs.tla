------------------------ MODULE ProviderCatalogProofs ------------------------
(***************************************************************************)
(* Whatever fails, the published catalog never goes back to an older       *)
(* version of a table, and a baseline taken before its load is never ahead *)
(* of the catalog.                                                         *)
(***************************************************************************)
EXTENDS ProviderCatalog, TLAPS

(* Nothing read is newer than its table; the load in progress is at least  *)
(* as new as the catalog in use, and once it has read a table, at least as *)
(* new as the fingerprint taken before it.                                 *)
ReadsOrdered ==
    /\ \A t \in Tables : catalog[t] <= loaded[t] /\ loaded[t] <= db[t]
    /\ \A t \in Tables : baseline[t] <= db[t]
    /\ probe # NoProbe => \A t \in Tables : probe[t] <= db[t]
    /\ stage \in {"bootModels", "models"} /\ probe # NoProbe =>
            probe["providers"] <= loaded["providers"]
    /\ stage \in {"bootModels", "models"} => baseline["providers"] <= loaded["providers"]

(* NoProbe is not a version of the tables.                                 *)
LEMMA NoProbeFact == NoProbe \notin Versions
BY DEF NoProbe, Versions, Tables

(* Every variable of ProviderCatalog keeps its type.                       *)
THEOREM TypeCorrect == Spec => []TypeOK
<1>1. Init => TypeOK
  <2> SUFFICES ASSUME Init  PROVE TypeOK
    OBVIOUS
  <2>1. late \in BOOLEAN
    BY DEF Init
  <2> QED  BY <2>1 DEF Init, TypeOK, Versions, Stages
<1>2. TypeOK /\ [Next]_vars => TypeOK'
  <2> SUFFICES ASSUME TypeOK, [Next]_vars  PROVE TypeOK'
    OBVIOUS
  <2> USE DEF TypeOK, Versions, Stages, Tables
  <2>1. CASE UNCHANGED vars
    BY <2>1 DEF vars
  <2>2. CASE \E t \in Tables : Update(t)
    BY <2>2 DEF Update
  <2>3. CASE BootFingerprint \/ Poll \/ Fingerprint \/ ReadProviders
    BY <2>3 DEF BootFingerprint, Poll, Fingerprint, ReadProviders
  <2>4. CASE ReadModelsAndPublish
    BY <2>4 DEF ReadModelsAndPublish, BaselineAfterLoad
  <2>5. CASE ReloadFails \/ Refingerprint
    BY <2>5 DEF ReloadFails, CatalogAfterFailure, Refingerprint
  <2> QED  BY <2>1, <2>2, <2>3, <2>4, <2>5 DEF Next
<1> QED  BY <1>1, <1>2, PTL DEF Spec

(* The order of versions along fingerprint, load and catalog.              *)
LEMMA OrderInvariant == Spec => [](TypeOK /\ ReadsOrdered)
<1>1. Init => ReadsOrdered
  BY DEF Init, ReadsOrdered, Tables
<1>2. TypeOK /\ ReadsOrdered /\ [Next]_vars => ReadsOrdered'
  <2> SUFFICES ASSUME TypeOK, ReadsOrdered, [Next]_vars  PROVE ReadsOrdered'
    OBVIOUS
  <2> USE NoProbeFact DEF TypeOK, Versions, Tables, ReadsOrdered
  <2>1. CASE UNCHANGED vars
    BY <2>1 DEF vars
  <2>2. ASSUME NEW t \in Tables, Update(t)  PROVE ReadsOrdered'
    <3>1. \A u \in Tables : db[u] <= db'[u] /\ db[u] \in Nat /\ db'[u] \in Nat
      BY <2>2 DEF Update
    <3> QED  BY <2>2, <3>1 DEF Update
  <2>3. CASE BootFingerprint \/ Poll \/ Fingerprint
    BY <2>3 DEF BootFingerprint, Poll, Fingerprint
  <2>4. CASE ReadProviders
    BY <2>4 DEF ReadProviders
  <2>5. CASE ReadModelsAndPublish
    BY <2>5 DEF ReadModelsAndPublish, BaselineAfterLoad
  <2>6. CASE ReloadFails \/ Refingerprint
    BY <2>6 DEF ReloadFails, CatalogAfterFailure, Refingerprint
  <2> QED  BY <2>1, <2>2, <2>3, <2>4, <2>5, <2>6 DEF Next
<1> QED  BY <1>1, <1>2, TypeCorrect, PTL DEF Spec

(* CatalogNeverRegresses: a table of the published catalog is only ever    *)
(* replaced by a later version of it, whichever queries fail.              *)
THEOREM CatalogIsMonotonic == Spec => CatalogNeverRegresses
<1>1. TypeOK /\ ReadsOrdered /\ [Next]_vars => [\A t \in Tables : catalog[t] <= catalog'[t]]_vars
  <2> SUFFICES ASSUME TypeOK, ReadsOrdered, Next  PROVE \A t \in Tables : catalog[t] <= catalog'[t]
    OBVIOUS
  <2>1. CASE ReadModelsAndPublish
    BY <2>1 DEF ReadModelsAndPublish, TypeOK, Versions, Tables, ReadsOrdered
  <2>2. CASE ~ReadModelsAndPublish
    <3>1. catalog' = catalog
      BY <2>2 DEF Next, Update, BootFingerprint, Poll, Fingerprint, ReadProviders,
                  ReloadFails, CatalogAfterFailure, Refingerprint
    <3> QED  BY <3>1 DEF TypeOK, Versions
  <2> QED  BY <2>1, <2>2
<1> QED  BY <1>1, OrderInvariant, PTL DEF Spec, CatalogNeverRegresses

(* BaselineNotAhead: a baseline that was not taken late never hides a      *)
(* version of a table that the catalog does not have.                      *)
THEOREM BaselineNeverAhead == Spec => []BaselineNotAhead
<1> DEFINE Inv == ~late => \A t \in Tables : baseline[t] <= catalog[t]
<1>1. Init => Inv
  BY DEF Init, Tables
<1>2. Inv /\ TypeOK /\ ReadsOrdered /\ [Next]_vars => Inv'
  <2> SUFFICES ASSUME Inv, TypeOK, ReadsOrdered, [Next]_vars  PROVE Inv'
    OBVIOUS
  <2> USE NoProbeFact DEF TypeOK, Versions, Tables
  <2>1. CASE UNCHANGED vars
    BY <2>1 DEF vars
  <2>2. CASE \E t \in Tables : Update(t)
    BY <2>2 DEF Update
  <2>3. CASE BootFingerprint \/ Poll \/ Fingerprint \/ ReadProviders
    BY <2>3 DEF BootFingerprint, Poll, Fingerprint, ReadProviders
  <2>4. CASE ReadModelsAndPublish
    BY <2>4 DEF ReadModelsAndPublish, BaselineAfterLoad, ReadsOrdered
  <2>5. CASE ReloadFails \/ Refingerprint
    BY <2>5 DEF ReloadFails, CatalogAfterFailure, Refingerprint
  <2> QED  BY <2>1, <2>2, <2>3, <2>4, <2>5 DEF Next
<1>3. Inv => BaselineNotAhead
  BY DEF BaselineNotAhead
<1> HIDE DEF Inv
<1> QED  BY <1>1, <1>2, <1>3, OrderInvariant, PTL DEF Spec
=============================================================================
