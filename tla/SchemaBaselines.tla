--------------------------- MODULE SchemaBaselines ---------------------------
(***************************************************************************)
(* The versioned contracts of one endpoint: the dashboard saves, activates *)
(* and deletes them (internal/transport/http/schema_handler.go), a webhook *)
(* is compared with the active one and the drift found is stored with it   *)
(* (internal/service/ingestion_service.go), and a drift may be dismissed   *)
(* or accepted, which makes a new contract of the webhook that drifted.    *)
(* No handler uses a transaction; they run concurrently.                   *)
(***************************************************************************)
EXTENDS SchemaDrift, FiniteSets

CONSTANTS
    Edits,       \* requests of the dashboard
    BaselineIds, \* identifiers of schema_baselines, given out in this order
    Hooks,       \* webhooks
    Doc,         \* the document each of them carries
    Samples,     \* documents an operator infers a contract from
    Contracts,   \* contracts written by hand or imported
    Slips        \* how many statements of handlers may fail

ASSUME BaselinesAssumption ==
    /\ Doc \in [Hooks -> Documents]
    /\ Samples \subseteq Documents
    /\ Contracts \subseteq [Paths -> Node]
    /\ BaselineIds \subseteq Nat \ {0}
    /\ Slips \in Nat

VARIABLES
    table,     \* schema_baselines
    taken,     \* identifiers given out so far
    drifts,    \* schema_drift_events, with the contract the webhook drifted from
    at,        \* where each request of the dashboard is
    edit,      \* what it asks for
    version,   \* the version it will give its baseline
    hook,      \* where each webhook is
    against,   \* the baselines (none or one) each webhook is compared with
    crossed,   \* whether two requests were activating at once
    slipped    \* statements that failed so far

editing == <<at, edit, version>>
receiving == <<hook, against>>
baselinesVars == <<table, taken, drifts, editing, receiving, crossed, slipped>>

Row == [id : BaselineIds, version : Nat, contract : [Paths -> Node], active : BOOLEAN]
Drift == [hook : Hooks, baseline : BaselineIds, contract : [Paths -> Node],
          acknowledged : BOOLEAN]

Edit ==
    [op : {"save"}, contract : [Paths -> Node], activate : BOOLEAN]
      \union [op : {"activate", "delete"}, id : BaselineIds]
      \union [op : {"deactivate", "none"}]
      \union [op : {"rewrite"}, id : BaselineIds, contract : [Paths -> Node]]
      \union [op : {"dismiss", "accept"}, hook : Hooks, baseline : BaselineIds]

BaselinesTypeOK ==
    /\ table \in SUBSET Row /\ taken \in SUBSET BaselineIds
    /\ drifts \in SUBSET Drift
    /\ at \in [Edits -> {"unsent", "asked", "numbered", "cleared", "done"}]
    /\ edit \in [Edits -> Edit] /\ version \in [Edits -> Nat]
    /\ hook \in [Hooks -> {"unsent", "compared", "stored", "refused"}]
    /\ against \in [Hooks -> SUBSET Row]
    /\ crossed \in BOOLEAN /\ slipped \in Nat

NoEdit == [op |-> "none"]

BaselinesInit ==
    /\ table = {} /\ taken = {} /\ drifts = {}
    /\ at = [h \in Edits |-> "unsent"]
    /\ edit = [h \in Edits |-> NoEdit]
    /\ version = [h \in Edits |-> 0]
    /\ hook = [w \in Hooks |-> "unsent"]
    /\ against = [w \in Hooks |-> {}]
    /\ crossed = FALSE /\ slipped = 0

-----------------------------------------------------------------------------
(* Statements. *)

GetActiveSchemaBaseline == {r \in table : r.active}

Versions == {r.version : r \in table}

(* The one after the last, or the first. *)
GetNextSchemaVersion ==
    {last + 1 : last \in {v \in Versions \union {0} : \A n \in Versions : n <= v}}

(* MUTANT: only the latest version is turned off.                          *)
DeactivateLatestSchemaBaseline ==
    {[r EXCEPT !.active = @ /\ \E s \in table : s.version > r.version] : r \in table}

DeactivateAllSchemaBaselines == {[r EXCEPT !.active = FALSE] : r \in table}

ActivateSchemaBaseline(id) == {IF r.id = id THEN [r EXCEPT !.active = TRUE] ELSE r : r \in table}

UpdateSchemaBaselineContent(id, contract) ==
    {IF r.id = id THEN [r EXCEPT !.contract = contract] ELSE r : r \in table}

(* (endpoint_id, version) is UNIQUE. *)
CreateSchemaBaseline(v, contract, active) ==
    /\ v \notin Versions
    /\ \E id \in BaselineIds \ taken :
          /\ \A j \in BaselineIds \ taken : id <= j
          /\ table' = table \union
                {[id |-> id, version |-> v, contract |-> contract, active |-> active]}
          /\ taken' = taken \union {id}

(* Deleting a baseline deletes its drift events. *)
DeleteSchemaBaseline(id) ==
    /\ table' = {r \in table : r.id # id}
    /\ drifts' = {d \in drifts : d.baseline # id}

AcknowledgeSchemaDrift(e) ==
    drifts' = {IF d.hook = e.hook /\ d.baseline = e.baseline
               THEN [d EXCEPT !.acknowledged = TRUE] ELSE d : d \in drifts}

ListSchemaDriftsByEndpoint(e) == {d \in drifts : d.hook = e.hook /\ d.baseline = e.baseline}

-----------------------------------------------------------------------------
(* Requests of the dashboard. *)

Slip == slipped < Slips /\ slipped' = slipped + 1
Sound == UNCHANGED slipped

Asks(h, e) ==
    /\ at[h] = "unsent" /\ at' = [at EXCEPT ![h] = "asked"]
    /\ edit' = [edit EXCEPT ![h] = e]
    /\ UNCHANGED <<table, taken, drifts, version, receiving, crossed, slipped>>

Saves(h, contract) ==
    \E activate \in BOOLEAN :
        Asks(h, [op |-> "save", contract |-> contract, activate |-> activate])

InferBaseline(h) == \E doc \in Samples : Saves(h, InferJSONSchema(doc))
ImportOpenAPI(h) == \E contract \in Contracts : Saves(h, contract)
SaveManual(h) == \E contract \in Contracts : Saves(h, contract)
AskActivate(h) == \E id \in taken : Asks(h, [op |-> "activate", id |-> id])
AskDeactivate(h) == Asks(h, [op |-> "deactivate"])
AskDelete(h) == \E id \in taken : Asks(h, [op |-> "delete", id |-> id])
AskUpdate(h) ==
    \E id \in taken : \E contract \in Contracts :
        Asks(h, [op |-> "rewrite", id |-> id, contract |-> contract])
AskDismiss(h) ==
    \E d \in drifts : Asks(h, [op |-> "dismiss", hook |-> d.hook, baseline |-> d.baseline])
AskAccept(h) ==
    \E d \in drifts : Asks(h, [op |-> "accept", hook |-> d.hook, baseline |-> d.baseline])

Sends(h) ==
    \/ InferBaseline(h) \/ ImportOpenAPI(h) \/ SaveManual(h) \/ AskActivate(h)
    \/ AskDeactivate(h) \/ AskDelete(h) \/ AskUpdate(h) \/ AskDismiss(h) \/ AskAccept(h)

(* The answer is sent: nothing is left of the request. *)
Finished(h) ==
    /\ at' = [at EXCEPT ![h] = "done"]
    /\ edit' = [edit EXCEPT ![h] = NoEdit]
    /\ version' = [version EXCEPT ![h] = 0]

(* Handlers of one statement. *)
DeactivateBaseline(h) ==
    /\ at[h] = "asked" /\ edit[h].op = "deactivate" /\ Finished(h)
    /\ \/ table' = DeactivateAllSchemaBaselines /\ Sound
       \/ UNCHANGED table /\ Slip
    /\ UNCHANGED <<taken, drifts, receiving, crossed>>

DeleteBaseline(h) ==
    /\ at[h] = "asked" /\ edit[h].op = "delete" /\ Finished(h)
    /\ DeleteSchemaBaseline(edit[h].id)
    /\ UNCHANGED <<taken, receiving, crossed, slipped>>

UpdateBaseline(h) ==
    /\ at[h] = "asked" /\ edit[h].op = "rewrite" /\ Finished(h)
    /\ table' = UpdateSchemaBaselineContent(edit[h].id, edit[h].contract)
    /\ UNCHANGED <<taken, drifts, receiving, crossed, slipped>>

DismissDrift(h) ==
    /\ at[h] = "asked" /\ edit[h].op = "dismiss" /\ Finished(h)
    /\ AcknowledgeSchemaDrift(edit[h])
    /\ UNCHANGED <<table, taken, receiving, crossed, slipped>>

(* Accepting acknowledges the event, whether or not that works, and makes  *)
(* a contract of what was kept of the webhook; without the event there is  *)
(* nothing to make one of.                                                 *)
AcceptDrift(h) ==
    /\ at[h] = "asked" /\ edit[h].op = "accept"
    /\ \/ AcknowledgeSchemaDrift(edit[h]) /\ Sound
       \/ UNCHANGED drifts /\ Slip
    /\ IF ListSchemaDriftsByEndpoint(edit[h]) = {} THEN Finished(h)
       ELSE /\ edit' = [edit EXCEPT ![h] =
                  [op |-> "save", activate |-> TRUE,
                   contract |-> InferJSONSchema(Redacted(Doc[edit[h].hook]))]]
            /\ UNCHANGED <<at, version>>
    /\ UNCHANGED <<table, taken, receiving, crossed>>

(* A new baseline takes the next version; without an answer, the first. *)
NumberBaseline(h) ==
    /\ at[h] = "asked" /\ edit[h].op = "save"
    /\ at' = [at EXCEPT ![h] = "numbered"]
    /\ \/ (\E v \in GetNextSchemaVersion : version' = [version EXCEPT ![h] = v]) /\ Sound
       \/ version' = [version EXCEPT ![h] = 1] /\ Slip
    /\ UNCHANGED <<table, taken, drifts, edit, receiving, crossed>>

Activating(h) == at[h] = "cleared" /\ (edit[h].op = "activate" \/ edit[h].activate)

(* Activation is two statements: all baselines off, whether or not that    *)
(* works, then one on.                                                     *)
ClearBaselines(h) ==
    /\ \/ at[h] = "asked" /\ edit[h].op = "activate"
       \/ at[h] = "numbered" /\ edit[h].activate
    /\ at' = [at EXCEPT ![h] = "cleared"]
    /\ \/ table' = DeactivateAllSchemaBaselines /\ Sound
       \/ UNCHANGED table /\ Slip
    /\ crossed' = (crossed \/ \E g \in Edits : Activating(g))
    /\ UNCHANGED <<taken, drifts, edit, version, receiving>>

ActivateBaseline(h) ==
    /\ at[h] = "cleared" /\ edit[h].op = "activate" /\ Finished(h)
    /\ table' = ActivateSchemaBaseline(edit[h].id)
    /\ UNCHANGED <<taken, drifts, receiving, crossed, slipped>>

(* A version somebody else took meanwhile is refused. *)
StoreBaseline(h) ==
    /\ edit[h].op = "save"
    /\ at[h] = IF edit[h].activate THEN "cleared" ELSE "numbered"
    /\ \/ CreateSchemaBaseline(version[h], edit[h].contract, edit[h].activate) /\ Sound
       \/ version[h] \in Versions /\ UNCHANGED <<table, taken>> /\ Sound
       \/ UNCHANGED <<table, taken>> /\ Slip
    /\ Finished(h)
    /\ UNCHANGED <<drifts, receiving, crossed>>

-----------------------------------------------------------------------------
(* Webhooks. *)

(* The active baseline is read; of several, any. *)
validateSchemaContract(w) ==
    /\ hook[w] = "unsent" /\ hook' = [hook EXCEPT ![w] = "compared"]
    /\ \/ \E r \in GetActiveSchemaBaseline : against' = [against EXCEPT ![w] = {r}]
       \/ GetActiveSchemaBaseline = {} /\ UNCHANGED against
    /\ UNCHANGED <<table, taken, drifts, editing, crossed, slipped>>

Drifted(w) == {r \in against[w] : DetectDrift(r.contract, Doc[w]) # {}}

(* MUTANT: a baseline turned off meanwhile counts as gone.                 *)
ReferencesActive(r) == \E s \in table : s.id = r.id /\ s.active

(* schema_drift_events.baseline_id is a foreign key.                       *)
References(r) == \E s \in table : s.id = r.id

(* The webhook's transaction, which the drift is part of: an event of a    *)
(* baseline that was deleted meanwhile cannot be inserted, and aborts it.  *)
StoreHook(w) ==
    /\ hook[w] = "compared"
    /\ IF \A r \in Drifted(w) : References(r)
       THEN /\ hook' = [hook EXCEPT ![w] = "stored"]
            /\ drifts' = drifts \union
                 {[hook |-> w, baseline |-> r.id, contract |-> r.contract,
                   acknowledged |-> FALSE] : r \in Drifted(w)}
       ELSE hook' = [hook EXCEPT ![w] = "refused"] /\ UNCHANGED drifts
    /\ UNCHANGED <<table, taken, editing, against, crossed, slipped>>

-----------------------------------------------------------------------------
Handles(h) ==
    \/ Sends(h) \/ DeactivateBaseline(h) \/ DeleteBaseline(h) \/ UpdateBaseline(h)
    \/ DismissDrift(h) \/ AcceptDrift(h) \/ NumberBaseline(h) \/ ClearBaselines(h)
    \/ ActivateBaseline(h) \/ StoreBaseline(h)

BaselinesNext ==
    \/ \E h \in Edits : Handles(h)
    \/ \E w \in Hooks : validateSchemaContract(w) \/ StoreHook(w)

BaselinesSpec == BaselinesInit /\ [][BaselinesNext]_baselinesVars

-----------------------------------------------------------------------------
(* At most one baseline is active, as long as no statement fails and no    *)
(* two requests are between turning all off and turning theirs on.  (Two   *)
(* that are leave two active ones, and each webhook is compared with       *)
(* either.)                                                                *)
OneActiveBaseline == Cardinality(GetActiveSchemaBaseline) > 1 => crossed \/ slipped > 0

(* A webhook drifts again from the contract that accepting its own drift   *)
(* made only if a field of it is null, which inference makes required and  *)
(* comparison finds missing, or if redaction turned a field of another     *)
(* type into a string.  No other webhook has its acceptance undone so.     *)
DriftSettles ==
    \A d \in drifts :
        d.contract = InferJSONSchema(Redacted(Doc[d.hook])) => Unsettled(Doc[d.hook])

(* A webhook is lost to its own drift report only when the baseline it was *)
(* compared with was deleted before it was stored.                         *)
RefusedOnlyIfDeleted ==
    \A w \in Hooks : hook[w] = "refused" =>
        \E r \in against[w] : r.id \in taken /\ \A s \in table : s.id # r.id
=============================================================================
