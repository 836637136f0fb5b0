--------------------------- MODULE ProviderCatalog ---------------------------
(***************************************************************************)
(* The provider catalog: the providers and provider_models tables as the   *)
(* gateway publishes them in AppState.                                     *)
(*                                                                         *)
(* The catalog is loaded at startup and reloaded by the database listener  *)
(* when the fingerprint of the two tables differs from the baseline, the   *)
(* fingerprint recorded with the last load.  The two tables are read one   *)
(* after the other, and the fingerprint in a query of its own, so updates  *)
(* may fall between any two of them.  A table is its version: every update *)
(* changes the updated_at the fingerprint covers.                          *)
(***************************************************************************)
EXTENDS Naturals

CONSTANT MaxVersion  \* bounds the number of updates of each table

ASSUME MaxVersionAssumption == MaxVersion \in Nat

Tables == {"providers", "models"}

VARIABLES
    db,       \* table -> version
    catalog,  \* table -> version of it that AppState publishes
    loaded,   \* table -> version the load in progress has read
    baseline, \* provider_fingerprint_baseline
    probe,    \* current_provider_fingerprint, NoProbe when the query failed
    stage,    \* where the bootstrap or the poll is
    late      \* history: the baseline was taken after the load it belongs to

vars == <<db, catalog, loaded, baseline, probe, stage, late>>

Versions == [Tables -> Nat]
NoProbe == [t \in {} |-> 0]
Stages == {"bootFingerprint", "bootProviders", "bootModels",
           "idle", "fingerprint", "providers", "models", "refingerprint"}
Booting == stage \in {"bootFingerprint", "bootProviders", "bootModels"}

TypeOK ==
    /\ db \in Versions
    /\ catalog \in Versions
    /\ loaded \in Versions
    /\ baseline \in Versions
    /\ probe \in Versions \cup {NoProbe}
    /\ stage \in Stages
    /\ late \in BOOLEAN

(* Before the bootstrap AppState publishes the providers of the YAML       *)
(* configuration: version 0 of both tables.                                *)
Init ==
    LET unread == [t \in Tables |-> 0]
    IN  /\ db = [t \in Tables |-> 1]
        /\ catalog = unread
        /\ loaded = unread
        /\ baseline = unread
        /\ probe = NoProbe
        /\ stage = "bootFingerprint"
        /\ late = FALSE

(* The control plane edits a table.                                        *)
Update(t) ==
    /\ db[t] < MaxVersion
    /\ db' = [db EXCEPT ![t] = @ + 1]
    /\ UNCHANGED <<catalog, loaded, baseline, probe, stage, late>>

(* bootstrap_provider_catalog takes the fingerprint before it reads the    *)
(* tables; a failed query ends the process.                                *)
BootFingerprint ==
    /\ stage = "bootFingerprint"
    /\ probe' = db
    /\ stage' = "bootProviders"
    /\ UNCHANGED <<db, catalog, loaded, baseline, late>>

(* The interval ticks and the poll reaches the catalog.                    *)
Poll ==
    /\ stage = "idle"
    /\ stage' = "fingerprint"
    /\ UNCHANGED <<db, catalog, loaded, baseline, probe, late>>

(* The poll compares fingerprints.  Equal ones leave nothing to do; a      *)
(* failed query forces a reload.                                           *)
Fingerprint ==
    /\ stage = "fingerprint"
    /\ \/ /\ probe' = db
          /\ stage' = IF db = baseline THEN "idle" ELSE "providers"
       \/ /\ probe' = NoProbe
          /\ stage' = "providers"
    /\ UNCHANGED <<db, catalog, loaded, baseline, late>>

(* get_all_providers_for_gateway.                                          *)
ReadProviders ==
    /\ stage \in {"bootProviders", "providers"}
    /\ loaded' = [loaded EXCEPT !["providers"] = db["providers"]]
    /\ stage' = IF Booting THEN "bootModels" ELSE "models"
    /\ UNCHANGED <<db, catalog, baseline, probe, late>>

(* The baseline after a load: the fingerprint taken before it.  Reread     *)
(* takes the fingerprint of the tables as they are, a faulty variant.      *)
BaselineAfterLoad_Reread == db

BaselineAfterLoad == IF probe = NoProbe THEN baseline ELSE probe

(* get_all_provider_models_for_gateway; then the catalog is published and  *)
(* the fingerprint becomes the baseline.  A forced reload has none yet.    *)
ReadModelsAndPublish ==
    LET tables == [loaded EXCEPT !["models"] = db["models"]]
    IN  /\ stage \in {"bootModels", "models"}
        /\ loaded' = tables
        /\ catalog' = tables
        /\ baseline' = BaselineAfterLoad
        /\ stage' = IF probe = NoProbe THEN "refingerprint" ELSE "idle"
        /\ late' = FALSE
        /\ UNCHANGED <<db, probe>>

(* The catalog when a reload fails, and a faulty variant that clears it.   *)
CatalogAfterFailure_Cleared == [t \in Tables |-> 0]

CatalogAfterFailure == catalog

(* One of the two queries of a reload fails: catalog and baseline stay.    *)
ReloadFails ==
    /\ stage \in {"providers", "models"}
    /\ stage' = "idle"
    /\ catalog' = CatalogAfterFailure
    /\ UNCHANGED <<db, loaded, baseline, probe, late>>

(* After a forced reload the fingerprint is asked for again; another       *)
(* failure leaves the old baseline.                                        *)
Refingerprint ==
    /\ stage = "refingerprint"
    /\ stage' = "idle"
    /\ \/ baseline' = db /\ late' = TRUE
       \/ UNCHANGED <<baseline, late>>
    /\ UNCHANGED <<db, catalog, loaded, probe>>

Next ==
    \/ \E t \in Tables : Update(t)
    \/ BootFingerprint \/ Poll \/ Fingerprint \/ ReadProviders
    \/ ReadModelsAndPublish \/ ReloadFails \/ Refingerprint

Spec == Init /\ [][Next]_vars

(* The listener's task runs; queries do not fail for ever.                 *)
Fairness ==
    /\ WF_vars(BootFingerprint) /\ WF_vars(Poll) /\ WF_vars(Refingerprint)
    /\ SF_vars(Fingerprint /\ probe' = db)
    /\ SF_vars(ReadProviders) /\ SF_vars(ReadModelsAndPublish)

LiveSpec == Spec /\ Fairness

-----------------------------------------------------------------------------
(* BaselineNotAhead: unless it was taken late, after a forced reload, the  *)
(* baseline never claims a version of a table that the published catalog   *)
(* does not have: an update that falls between the fingerprint and the     *)
(* reads, or between the two reads, is found by the next poll, a failed    *)
(* reload is tried again, and a forced reload makes good what an earlier   *)
(* late baseline hid.                                                      *)
BaselineNotAhead ==
    ~Booting /\ ~late => \A t \in Tables : baseline[t] <= catalog[t]

(* CatalogNeverRegresses: no interleaving of loads, failures and updates   *)
(* publishes an older version of a table than the one in use.              *)
CatalogNeverRegresses == [][\A t \in Tables : catalog[t] <= catalog'[t]]_vars

(* CatalogCatchesUp: when the tables stop changing, the published catalog  *)
(* becomes what they hold, or the baseline was taken late: an update that  *)
(* fell between a forced reload and its fingerprint stays hidden.          *)
CatalogCatchesUp ==
    \A t \in Tables : catalog[t] # db[t] ~> (catalog[t] = db[t] \/ late)
=============================================================================
