------------------------------ MODULE AiPrivacy ------------------------------
(***************************************************************************)
(* Explanations by a language model, and the settings of the organization  *)
(* that say whether data may leave for one (internal/ai,                   *)
(* internal/service/ai_settings_service.go, ai_handler.go and AIExplain of *)
(* delivery_handler.go).  A handler reads the settings once and then asks  *)
(* the model, while an owner may change them; what the model does not      *)
(* answer, the built-in rulebooks do.                                      *)
(***************************************************************************)
EXTENDS Naturals

CONSTANTS
    Questions, \* requests for an explanation
    Provider,  \* "groq", "openai" or "local": what the process started with
    Texts,     \* texts findings and deliveries bring along
    Labels,    \* kinds of data in a finding's category, type and severity
    Revisions  \* how often the settings are changed

(* What of a text matters: whether it is a JSON object, and the pieces of  *)
(* data in it.  A piece is something one of the patterns matches, in quotes*)
(* or as a bare number, or it belongs to the value of a key with a telling *)
(* name or of one of the organization's own keys, of which it is the first *)
(* word or comes after it (rest).  The key is a member of the object or of *)
(* an object in it, stands inside a string, or stands below an array that  *)
(* is directly inside an array.  A string that is an object in turn is left*)
(* out: less of it is sent than of other strings.                          *)
Patterns == {"pattern", "bare pattern"}
Kinds == Patterns \union {"sensitive key", "custom key", "other"}
Piece == [kind : Kinds, place : {"member", "string", "inner array"}, rest : BOOLEAN]
Text == [object : BOOLEAN, data : SUBSET Piece]

ASSUME AiAssumption ==
    /\ Provider \in {"groq", "openai", "local"}
    /\ Texts \subseteq Text
    /\ Labels \subseteq SUBSET Kinds
    /\ Revisions \in Nat

(* The organization's own keys: none, as they are written in the texts, or *)
(* stored with spaces around them.                                         *)
Levels == {"NONE", "SANITIZED", "FULL_LOCAL"}
OwnKeys == {"none", "exact", "padded"}
AiSettings == [enabled : BOOLEAN, level : Levels, keys : OwnKeys]

Causes == {"refused target", "401/403", "404", "429", "5xx", "other status", "network error"}

VARIABLES
    aiRow,     \* the organization's settings: ai_enabled, ai_data_sharing_level and
               \* what ai_custom_redaction_patterns says of the custom keys
    revised,   \* how often they were changed
    asking,    \* where each question is
    question,  \* the text it brings along, and the failed delivery it is about
    privacy,   \* what it read of the settings
    inForce,   \* the settings in force at some time since it arrived
    told,      \* what of its text and labels was sent to a provider
    advice     \* what the local analysis of a delivery makes of it

aiVars == <<aiRow, revised, asking, question, privacy, inForce, told, advice>>

NoSettings == [level |-> "FULL_LOCAL", keys |-> "none"]
NoQuestion == [about |-> "nothing"]
Nothing == [text |-> {}, labels |-> {}]

(* One text stands for each of those a question has (evidence and message, *)
(* or the two bodies and the error): each is sanitized on its own.         *)
Question == [about : {"finding"}, text : Texts, labels : Labels]
              \union [about : {"incident"}, text : Texts, cause : Causes]

AiTypeOK ==
    /\ aiRow \in AiSettings /\ revised \in Nat
    /\ asking \in [Questions -> {"unsent", "arrived", "policy", "cloud", "local", "answered", "failed"}]
    /\ question \in [Questions -> Question \union {NoQuestion}]
    /\ privacy \in [Questions -> [level : Levels, keys : OwnKeys]]
    /\ inForce \in [Questions -> SUBSET AiSettings]
    /\ told \in [Questions -> [text : SUBSET Piece, labels : SUBSET Kinds]]
    /\ advice \in [Questions -> {"none", "replay", "no replay"}]

(* An organization starts with the model disabled. *)
AiInit ==
    /\ aiRow = [enabled |-> FALSE, level |-> "SANITIZED", keys |-> "none"]
    /\ revised = 0
    /\ asking = [q \in Questions |-> "unsent"]
    /\ question = [q \in Questions |-> NoQuestion]
    /\ privacy = [q \in Questions |-> NoSettings]
    /\ inForce = [q \in Questions |-> {}]
    /\ told = [q \in Questions |-> Nothing]
    /\ advice = [q \in Questions |-> "none"]

-----------------------------------------------------------------------------
(* The settings. *)

GetOrganizationAISettings == aiRow
UpdateOrganizationAISettings(s) == aiRow' = s

Running(q) == asking[q] \in {"arrived", "policy", "cloud", "local"}

(* MUTANT: the level is stored as it was sent.                             *)
UpdateSettingsUnchecked ==
    /\ revised < Revisions /\ revised' = revised + 1
    /\ \E s \in [enabled : BOOLEAN, level : Levels \union {"OTHER"}, keys : OwnKeys] :
          UpdateOrganizationAISettings(s)
    /\ inForce' = [q \in Questions |->
                     IF Running(q) THEN inForce[q] \union {aiRow'} ELSE inForce[q]]
    /\ UNCHANGED <<asking, question, privacy, told, advice>>

(* Any other level than the three becomes SANITIZED. *)
UpdateSettings ==
    /\ revised < Revisions /\ revised' = revised + 1
    /\ \E s \in [enabled : BOOLEAN, level : Levels \union {"OTHER"}, keys : OwnKeys] :
          UpdateOrganizationAISettings(
              [s EXCEPT !.level = IF @ \in Levels THEN @ ELSE "SANITIZED"])
    /\ inForce' = [q \in Questions |->
                     IF Running(q) THEN inForce[q] \union {aiRow'} ELSE inForce[q]]
    /\ UNCHANGED <<asking, question, privacy, told, advice>>

-----------------------------------------------------------------------------
(* Sanitizing a text.  What the patterns match is masked first, wherever   *)
(* it is, and the text so masked is parsed: a bare number that became      *)
(* [REDACTED_...] without quotes makes it no JSON any more.                *)
StaysObject(text) == text.object /\ \A p \in text.data : p.kind # "bare pattern"

(* In what is no object, only the first word after one of the own keys.    *)
HiddenInText(p, keys) == p.kind = "custom key" /\ keys # "none" /\ ~p.rest

(* MUTANT: the organization's own keys are forgotten in objects.           *)
sanitizeJSONMapTelling(data, keys) ==
    {p \in data : p.place = "member" => p.kind # "sensitive key"}

(* In an object, the whole value of a member whose key has a telling name  *)
(* or is an own key, compared with its spaces.  Strings are texts of their *)
(* own; an array inside an array is copied.                                *)
sanitizeJSONMap(data, keys) ==
    {p \in data :
        CASE p.place = "member" ->
                p.kind # "sensitive key" /\ ~(p.kind = "custom key" /\ keys = "exact")
          [] p.place = "string" -> ~HiddenInText(p, keys)
          [] p.place = "inner array" -> TRUE}

SanitizeForAI(text, keys) ==
    LET masked == {p \in text.data : p.kind \notin Patterns} IN
    IF StaysObject(text) THEN sanitizeJSONMap(masked, keys)
    ELSE {p \in masked : ~HiddenInText(p, keys)}

isCloudAllowed(level) == level \in {"SANITIZED", "MASKED_CLOUD", "FULL_CLOUD"}

NewExplainer == Provider \in {"groq", "openai"}

-----------------------------------------------------------------------------
(* A question. *)

AiMoves(q, from, to) == asking[q] = from /\ asking' = [asking EXCEPT ![q] = to]

ReceiveQuestion(q, kind) ==
    /\ AiMoves(q, "unsent", "arrived")
    /\ \E k \in kind : question' = [question EXCEPT ![q] = k]
    /\ inForce' = [inForce EXCEPT ![q] = {aiRow}]
    /\ UNCHANGED <<aiRow, revised, privacy, told, advice>>

ReceiveFinding(q) == ReceiveQuestion(q, [about : {"finding"}, text : Texts, labels : Labels])
ReceiveIncident(q) == ReceiveQuestion(q, [about : {"incident"}, text : Texts, cause : Causes])

(* Disabled is fully local; the organization's own keys are read only when *)
(* it is enabled.  Settings that cannot be read end the request.           *)
ReadPolicy(q) ==
    LET s == GetOrganizationAISettings IN
    /\ AiMoves(q, "arrived", "policy")
    /\ privacy' = [privacy EXCEPT ![q] =
                     IF s.enabled THEN [level |-> s.level, keys |-> s.keys] ELSE NoSettings]
    /\ UNCHANGED <<aiRow, revised, question, inForce, told, advice>>

PolicyUnread(q) ==
    /\ AiMoves(q, "arrived", "failed")
    /\ UNCHANGED <<aiRow, revised, question, privacy, inForce, told, advice>>

Cloud(q) == isCloudAllowed(privacy[q].level) /\ NewExplainer

(* The request to the provider is sent: the texts sanitized, the category, *)
(* type and severity of a finding as the client named them.                *)
SendPrompt(q, labels) ==
    /\ Cloud(q) /\ AiMoves(q, "policy", "cloud")
    /\ told' = [told EXCEPT ![q] = [text |-> SanitizeForAI(question[q].text, privacy[q].keys),
                                   labels |-> labels]]
    /\ UNCHANGED <<aiRow, revised, question, privacy, inForce, advice>>

callLLM(q) == question[q].about = "finding" /\ SendPrompt(q, question[q].labels)
callIncidentLLM(q) == question[q].about = "incident" /\ SendPrompt(q, {})

(* An unusable answer, or none, leaves it to the rulebook; so does a level *)
(* or a process that has no provider.                                      *)
CloudAnswers(q) ==
    /\ \/ AiMoves(q, "cloud", "answered")
       \/ AiMoves(q, "cloud", "local")
       \/ ~Cloud(q) /\ AiMoves(q, "policy", "local")
    /\ UNCHANGED <<aiRow, revised, question, privacy, inForce, told, advice>>

(* The rulebook of findings always has an entry. *)
localRulebook(q) ==
    /\ question[q].about = "finding" /\ AiMoves(q, "local", "answered")
    /\ UNCHANGED <<aiRow, revised, question, privacy, inForce, told, advice>>

(* The rulebook of deliveries says whether a replay may help. *)
localIncidentRulebook(q) ==
    /\ question[q].about = "incident" /\ AiMoves(q, "local", "answered")
    /\ advice' = [advice EXCEPT ![q] = IF question[q].cause \in {"refused target", "401/403", "404"}
                                     THEN "no replay" ELSE "replay"]
    /\ UNCHANGED <<aiRow, revised, question, privacy, inForce, told>>

ExplainFinding(q) == ReceiveFinding(q) \/ callLLM(q) \/ localRulebook(q)
ExplainDeliveryIncident(q) == ReceiveIncident(q) \/ callIncidentLLM(q) \/ localIncidentRulebook(q)

AiNext ==
    \/ UpdateSettings
    \/ \E q \in Questions :
          \/ ExplainFinding(q) \/ ExplainDeliveryIncident(q)
          \/ ReadPolicy(q) \/ PolicyUnread(q) \/ CloudAnswers(q)

AiSpec == AiInit /\ [][AiNext]_aiVars

-----------------------------------------------------------------------------
(* What may be sent of a text under settings s.  Nothing a pattern matches;*)
(* of a text still an object, no value of a member with a telling name or  *)
(* an own key; of any text, not the first word of an own key's value,      *)
(* unless it is below an array in an array or the key was stored padded.   *)
(* More is not kept: values of telling names in other texts, what follows  *)
(* the first word, arrays in arrays.                                       *)
MayBeSent(data, text, s) ==
    \A p \in data :
        /\ p.kind \notin Patterns
        /\ p.place = "member" /\ StaysObject(text) =>
              p.kind # "sensitive key" /\ (s.keys = "exact" => p.kind # "custom key")
        /\ p.kind = "custom key" /\ s.keys # "none" =>
              p.rest \/ p.place = "inner array" \/ s.keys = "padded"

(* Nothing of a question goes to a provider unless, at some time since it  *)
(* arrived, the organization had the model enabled at a level that shares, *)
(* and then only what the keys it named at that same time let through: no  *)
(* later question leaves once an owner was told that sharing is off.  The  *)
(* labels of a finding need the consent too, but nothing of them is hidden.*)
CloudNeedsConsent ==
    \A q \in Questions : asking[q] = "cloud" \/ told[q] # Nothing =>
        \E s \in inForce[q] :
            /\ s.enabled /\ s.level = "SANITIZED"
            /\ MayBeSent(told[q].text, question[q].text, s)
=============================================================================
