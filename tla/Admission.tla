----------------------------- MODULE Admission -----------------------------
(***************************************************************************)
(* What a request of the unified API passes before it reaches a provider:  *)
(* the route check, authentication, the choice of a model and a provider,  *)
(* the mapper with the policy service, and the dispatcher's own checks.    *)
(* Each stage reads the rows of the control plane as they are then, while  *)
(* some of them also use what authentication captured; the control plane   *)
(* changes rows at any time.  Requests write none of that state, so one    *)
(* request is enough.                                                      *)
(***************************************************************************)
EXTENDS Naturals, FiniteSets

CONSTANTS
    Models,       \* names of models, as requests and policies write them
    NoModel,
    Prefix,       \* the provider a name starts with, "none" for a bare name
    Bare,         \* the name without it
    AccessLists,  \* the pairs of lists the control plane gives to a virtual key
    Proxied,      \* providers the gateway started a direct proxy for
    MaxChanges    \* bound on the changes of the control plane

KeyProviders == {"openai", "anthropic", "custom"}
NoMaster == [id |-> "none", provider |-> "none", url |-> FALSE, change |-> 0]

ASSUME AdmissionAssumption ==
    /\ NoModel \notin Models
    /\ Prefix \in [Models -> KeyProviders \cup {"none"}] /\ Bare \in [Models -> Models]
    /\ \A m \in Models : Bare[Bare[m]] = Bare[m]
    /\ AccessLists \subseteq [allowed : SUBSET Models, blocked : SUBSET Models]
    /\ Proxied \subseteq KeyProviders
    /\ MaxChanges \in Nat

VARIABLES
    virtualKey,   \* the row of the virtual key: live, allowed_models, blocked_models
    masterKey,    \* the row of its master key; change is the change that wrote it
    usable,       \* the master key's row is there and decrypts
    overrides,    \* models of the workspace's model access policy
    allowlist,    \* providers the workspace may use
    changes,
    policyService,  \* configuration: off, or what a call without an answer means
    req           \* the request

controlVars == <<virtualKey, masterKey, usable, overrides, allowlist, changes>>
admissionVars == <<controlVars, policyService, req>>

AdmPaths == {"chat", "media", "models"}
AdmStages == {"new", "auth", "collect", "determine", "default", "plan", "proxy", "map",
              "enforce", "convert", "dispatch", "evaluate", "send", "sent", "fallback",
              "resent", "listed", "refused"}
IsCustom(key) == key.provider = "custom"
MasterKeyRows ==    \* url: the row names a base URL of its own, which any key may
    [id : {"primary", "spare"}, provider : KeyProviders, url : BOOLEAN,
     change : 0 .. MaxChanges]

(* model: the name as it is checked; wire: as it is sent; mapped: the      *)
(* converter took another from its catalog; chosen: the default the        *)
(* gateway chose; checked: some stage has checked the model; override: the *)
(* policy service changed it; allowed: how often the service let the       *)
(* request pass; key: the master key as authentication saw it; carrier:    *)
(* the provider whose client sends; sentKey: whose secret it sends.        *)
AdmRequests ==
    [stage : AdmStages, path : AdmPaths, model : Models \cup {NoModel},
     wire : Models \cup {NoModel}, mapped : BOOLEAN, chosen : Models \cup {NoModel},
     named : SUBSET Models, from : {"client", "default", "service"},
     access : [allowed : SUBSET Models, blocked : SUBSET Models],
     key : MasterKeyRows \cup {NoMaster},
     carrier : KeyProviders \cup {"none"}, checked : BOOLEAN, override : BOOLEAN,
     allowed : 0 .. 2, denied : {"no", "model", "other"},
     sentKey : MasterKeyRows \cup {NoMaster}]

AdmissionTypeOK ==
    /\ virtualKey \in [live : BOOLEAN, access : AccessLists]
    /\ masterKey \in MasterKeyRows
    /\ usable \in BOOLEAN
    /\ overrides \in SUBSET Models
    /\ allowlist \in SUBSET KeyProviders
    /\ changes \in 0 .. MaxChanges
    /\ policyService \in {"off", "allow", "deny"}
    /\ req \in AdmRequests

AdmissionInit ==
    /\ virtualKey \in [live : {TRUE}, access : AccessLists]
    /\ masterKey \in {k \in MasterKeyRows : k.id = "primary" /\ k.change = 0}
    /\ usable = TRUE
    /\ overrides = Models
    /\ allowlist = KeyProviders
    /\ changes = 0
    /\ policyService \in {"off", "allow", "deny"}
    /\ req = [stage |-> "new", path |-> "chat", model |-> NoModel, wire |-> NoModel,
              mapped |-> FALSE, chosen |-> NoModel, named |-> {}, from |-> "client",
              access |-> [allowed |-> {}, blocked |-> {}], key |-> NoMaster, carrier |-> "none",
              checked |-> FALSE, override |-> FALSE, allowed |-> 0, denied |-> "no",
              sentKey |-> NoMaster]
-----------------------------------------------------------------------------
(* The control plane rewrites, withdraws or replaces a row. *)
ChangeRow ==
    /\ changes < MaxChanges
    /\ changes' = changes + 1
    /\ \/ /\ \E access \in AccessLists : virtualKey' = [virtualKey EXCEPT !.access = access]
          /\ UNCHANGED <<masterKey, usable, overrides, allowlist>>
       \/ /\ virtualKey' = [virtualKey EXCEPT !.live = FALSE]
          /\ UNCHANGED <<masterKey, usable, overrides, allowlist>>
       \/ /\ masterKey' \in {k \in MasterKeyRows : k.id = "primary" /\ k.change = changes + 1}
          /\ UNCHANGED <<virtualKey, usable, overrides, allowlist>>
       \/ /\ usable' = FALSE
          /\ UNCHANGED <<virtualKey, masterKey, overrides, allowlist>>
       \/ /\ overrides' \in SUBSET Models
          /\ UNCHANGED <<virtualKey, masterKey, usable, allowlist>>
       \/ /\ \E p \in KeyProviders : allowlist' = allowlist \ {p}
          /\ UNCHANGED <<virtualKey, masterKey, usable, overrides>>
    /\ UNCHANGED <<policyService, req>>

(* The next stage of the request, and its end with an error. *)
Enter(stage, r) == req' = [r EXCEPT !.stage = stage]
Refuse(why) == req' = [req EXCEPT !.stage = "refused", !.denied = why]

(* A stage that only reads and moves the request. *)
Reads == UNCHANGED <<controlVars, policyService>>

(* Any stage may fail for a reason of its own: a quota, a body that cannot *)
(* be read or parsed, a store that does not answer, a provider without     *)
(* configuration.                                                          *)
Done == {"sent", "resent", "listed", "refused"}
FailStage ==
    /\ req.stage \notin Done
    /\ Refuse("other")
    /\ Reads

(* The route check: a path of the unified API, with its method.            *)
Precheck ==
    /\ req.stage = "new"
    /\ \/ \E path \in AdmPaths : Enter("auth", [req EXCEPT !.path = path])
       \/ Refuse("other")
    /\ Reads

(* The request as it is sent by the client: a model, none, or for chat a   *)
(* list of candidates that the large context handler chooses from.         *)
Named(path) == {s \in SUBSET Models : Cardinality(s) <= IF path = "chat" THEN 2 ELSE 1}

(* Authentication: the virtual key must be live; its lists are captured,   *)
(* and so is the master key, its URL included, when it can be read.        *)
Authenticate ==
    /\ req.stage = "auth"
    /\ virtualKey.live
    /\ \E key \in {NoMaster} \cup (IF usable THEN {masterKey} ELSE {}),
          named \in Named(req.path) :
          /\ IsCustom(key) => key.url
          /\ Enter("collect", [req EXCEPT !.named = named, !.key = key,
                                          !.access = virtualKey.access])
    /\ Reads

(* model_access_allowed: an allowed name wins over a blocked one, and a    *)
(* name on neither list is allowed.                                        *)
ModelAccessAllowed(model, allowed, blocked) == model \in allowed \/ model \notin blocked

CheckModelAccess(model) == ModelAccessAllowed(model, req.access.allowed, req.access.blocked)

(* The provider is the one of the master key that authentication saw.      *)
KeyResolved == req.key # NoMaster

(* A name as its provider writes it: without the prefix, if it is the      *)
(* provider's own.                                                         *)
OwnName(model, provider) == IF Prefix[model] = provider THEN Bare[model] ELSE model

(* A media request names its model outside of JSON and is checked here, by *)
(* the name the client wrote; it needs a provider that speaks OpenAI's     *)
(* protocol.                                                               *)
CollectMedia ==
    /\ req.stage = "collect" /\ req.path = "media"
    /\ KeyResolved /\ req.key.provider # "anthropic"
    /\ \E model \in req.named :
          IF CheckModelAccess(model)
          THEN Enter("proxy", [req EXCEPT !.model = model, !.checked = TRUE,
                                          !.wire = OwnName(model, req.key.provider)])
          ELSE Refuse("model")
    /\ Reads

(* The list of models is answered from the catalog. *)
CollectBody ==
    /\ req.stage = "collect"
    /\ \/ req.path = "models" /\ Enter("listed", req)
       \/ req.path = "chat" /\ Enter("determine", req)
    /\ Reads

(* The large context handler settles on one of the candidates; a request   *)
(* without a model gets a default one.                                     *)
DetermineProvider ==
    /\ req.stage = "determine"
    /\ IF req.named = {}
       THEN Enter("default", req)
       ELSE \E model \in req.named : Enter("plan", [req EXCEPT !.model = model])
    /\ Reads

(* A policy's bare names stand for the names of the providers that have    *)
(* the model (of which the catalog knows some).                            *)
Expanded(list) == {m \in Models : Prefix[m] # "none" /\ (m \in list \/ Bare[m] \in list)}

(* Fault: blocked models remain candidates.                                *)
DefaultCandidates_Unfiltered ==
    Expanded(IF req.access.allowed # {} THEN req.access.allowed ELSE overrides)

(* The candidates for a default model: the key's allow list as it was      *)
(* captured, otherwise the workspace's policy as it is now, without the    *)
(* blocked ones.  Which of them the catalog supports and prices highest is *)
(* left open.                                                              *)
DefaultCandidates ==
    {m \in Expanded(IF req.access.allowed # {} THEN req.access.allowed ELSE overrides) :
       ModelAccessAllowed(m, {}, req.access.blocked)}

InjectDefaultModel ==
    /\ req.stage = "default"
    /\ \/ \E model \in DefaultCandidates :
             Enter("plan", [req EXCEPT !.model = model, !.chosen = model, !.from = "default"])
       \/ Refuse("other")
    /\ Reads

(* The route planner checks the model, then takes the key's provider.      *)
PlanRoute ==
    /\ req.stage = "plan"
    /\ CASE ~CheckModelAccess(req.model) -> Refuse("model")
         [] CheckModelAccess(req.model) /\ ~KeyResolved -> Refuse("other")
         [] OTHER -> Enter("proxy", [req EXCEPT !.checked = TRUE])
    /\ Reads

(* The proxy that carries the request: the provider's own, or for a custom *)
(* master key the custom one, or else OpenAI's.                            *)
Carriers ==
    IF req.key.provider \in Proxied THEN {req.key.provider}
    ELSE IF IsCustom(req.key) /\ req.key.url
    THEN IF "custom" \in Proxied THEN {"custom"} ELSE Proxied \cap {"openai"}
    ELSE {}

InitProxy ==
    /\ req.stage = "proxy"
    /\ IF Carriers = {}
       THEN Refuse("other")
       ELSE \E carrier \in Carriers : Enter("map", [req EXCEPT !.carrier = carrier])
    /\ Reads

(* The service put the model there. *)
Changed(model) ==
    [req EXCEPT !.model = model, !.wire = model, !.from = "service", !.allowed = @ + 1]

(* What the policy service makes of the request: nothing when it is off;   *)
(* its answer may rewrite the body, model included, or change the model;   *)
(* when there is no answer in time, the configuration decides.             *)
EvaluateForVkRequest(next) ==
    \/ policyService = "off" /\ Enter(next, req)
    \/ /\ policyService # "off"
       /\ \/ Enter(next, [req EXCEPT !.allowed = @ + 1])
          \/ \E model \in Models : Enter(next, Changed(model))
          \/ \E model \in Models : Enter(next, [Changed(model) EXCEPT !.override = TRUE])
          \/ Refuse("other")
          \/ policyService = "allow" /\ Enter(next, req)

(* The mapper: media goes through; every other request is evaluated.       *)
MapRequest ==
    /\ req.stage = "map"
    /\ IF req.path = "media" THEN Enter("dispatch", req) ELSE EvaluateForVkRequest("enforce")
    /\ Reads

(* The mapper's own check is for requests whose model nobody has checked.  *)
Passthrough == IsCustom(req.key) /\ "custom" \notin Proxied
EnforceModelPolicy ==
    /\ req.stage = "enforce"
    /\ IF Passthrough \/ req.checked \/ req.override \/ CheckModelAccess(req.model)
       THEN Enter("convert", req)
       ELSE Refuse("model")
    /\ Reads

(* Only then is the name written as the provider wants it: in its own way, *)
(* or another name that the catalog has for it.                            *)
ConvertModel ==
    /\ req.stage = "convert"
    /\ \/ Enter("dispatch", [req EXCEPT !.wire = OwnName(req.model, req.carrier)])
       \/ \E model \in Models :
             Enter("dispatch", [req EXCEPT !.wire = model, !.mapped = TRUE])
    /\ Reads

(* The dispatcher asks the workspace's allowlist as it is now, and has the *)
(* request of a custom master key evaluated once more.                     *)
AllowedProvider == IF IsCustom(req.key) /\ req.key.url THEN "custom" ELSE req.carrier
CheckAllowlist ==
    /\ req.stage = "dispatch"
    /\ IF AllowedProvider \notin allowlist THEN Refuse("other")
       ELSE Enter(IF IsCustom(req.key) THEN "evaluate" ELSE "send", req)
    /\ Reads

EvaluateCustom ==
    /\ req.stage = "evaluate"
    /\ EvaluateForVkRequest("send")
    /\ Reads

(* The secret is read again when the request is sent: the master key as it *)
(* is now, or, when it cannot be read, another key of the workspace for    *)
(* the carrier's provider.                                                 *)
SpareKeys ==
    {k \in MasterKeyRows : k.id = "spare" /\ k.provider = req.carrier /\ k.change = 0}
SendKeys == (IF usable THEN {masterKey} ELSE {}) \cup SpareKeys

(* ... and must be of that provider, or custom. *)
MasterKeyProviderMatches(key) == IsCustom(key) \/ key.provider = req.carrier

ApplyKey(next) ==
    \E key \in SendKeys :
        IF MasterKeyProviderMatches(key)
        THEN Enter(next, [req EXCEPT !.sentKey = key])
        ELSE Refuse("other")

SendUpstream == req.stage = "send" /\ ApplyKey("sent") /\ Reads

(* When the provider failed a request whose model the gateway chose, the   *)
(* gateway chooses a default of another provider, by the captured lists    *)
(* and the policy as it is now, asks the allowlist about that provider and *)
(* sends once more, with that provider's client and the name as chosen.    *)
(* Neither the route planner nor the policy service sees it.  The request  *)
(* of a custom key is of another kind and is not sent again.               *)
ChooseFallback ==
    /\ req.stage = "sent" /\ req.chosen # NoModel /\ ~IsCustom(req.key)
    /\ \E model \in DefaultCandidates :
          /\ Prefix[model] # Prefix[req.chosen] /\ Prefix[model] \in allowlist
          /\ Enter("fallback", [req EXCEPT !.model = model, !.wire = model, !.mapped = FALSE,
                                           !.from = "default", !.carrier = Prefix[model]])
    /\ Reads

SendFallback == req.stage = "fallback" /\ ApplyKey("resent") /\ Reads

(* Where a request goes: to the URL that authentication captured, if there *)
(* is one, and otherwise to the provider's.                                *)
Home(key) == [host |-> IF key.url THEN key.id ELSE key.provider,
              change |-> IF key.url THEN key.change ELSE 0]
Destination ==
    IF req.key.url THEN Home(req.key) ELSE [host |-> req.carrier, change |-> 0]

AdmissionNext ==
    \/ ChangeRow
    \/ FailStage
    \/ Precheck \/ Authenticate
    \/ CollectMedia \/ CollectBody
    \/ DetermineProvider \/ InjectDefaultModel \/ PlanRoute
    \/ InitProxy \/ MapRequest \/ EnforceModelPolicy \/ ConvertModel
    \/ CheckAllowlist \/ EvaluateCustom \/ SendUpstream
    \/ ChooseFallback \/ SendFallback

AdmissionSpec == AdmissionInit /\ [][AdmissionNext]_admissionVars
-----------------------------------------------------------------------------
Sent == {"sent", "resent"}

(* The names that differ only in the provider they start with.             *)
Spellings(model) == {m \in Models : Bare[m] = Bare[model]}

(* Whichever way the model came into the body - the client's name, one of  *)
(* its candidates, a media form, a default, the default of a fallback - a  *)
(* request that reaches a provider was cleared under the name it had, by   *)
(* the lists captured at authentication, unless the policy service put it  *)
(* there.  The check is by the name as it was written: what is blocked in  *)
(* one spelling can be sent in another.  What is blocked in every spelling *)
(* and allowed in none is not sent in any, but for what the converter's    *)
(* catalog puts in the place of a name, which nobody checks.               *)
ModelCleared ==
    req.stage \in Sent /\ req.from # "service"
        => /\ ModelAccessAllowed(req.model, req.access.allowed, req.access.blocked)
           /\ req.mapped \/ ~ Spellings(req.wire) \subseteq req.access.blocked \ req.access.allowed

(* The gateway never refuses the model it chose itself, although it        *)
(* chooses from the policy as it is now and checks against the lists       *)
(* captured at authentication.                                             *)
DefaultNeverRefused == req.from = "default" => req.denied # "model"

(* Where an unavailable policy service denies, nothing but media reaches a *)
(* provider without its consent; a request of a custom master key needs it *)
(* at the dispatcher (again).                                              *)
FilteredBeforeSent ==
    req.stage \in Sent /\ policyService = "deny"
        => req.allowed = (IF req.path = "media" THEN 0 ELSE 1) + (IF IsCustom(req.key) THEN 1 ELSE 0)

(* A secret goes where it is for - the URL of its row, or its provider's - *)
(* on the first attempt and on the fallback to another provider, as long   *)
(* as the key is the one that authentication saw.  When the row was        *)
(* replaced or could not be read meanwhile, the secret of another row is   *)
(* sent: of the client's provider or custom, and where it is for unless    *)
(* one of the two rows names a URL or is custom.  Then it goes to the      *)
(* place of the other.                                                     *)
KeyFitsTarget ==
    req.stage \in Sent
        => /\ req.sentKey.provider \in {req.carrier, "custom"}
           /\ \/ Home(req.sentKey) = Destination
              \/ /\ req.sentKey # req.key
                 /\ req.key.url \/ req.sentKey.url \/ IsCustom(req.sentKey)

(* What is sent was admitted: its model is cleared, its content filtered,  *)
(* its secret fits; and the gateway does not refuse its own default.       *)
SentIsAdmitted == ModelCleared /\ DefaultNeverRefused /\ FilteredBeforeSent /\ KeyFitsTarget
=============================================================================
