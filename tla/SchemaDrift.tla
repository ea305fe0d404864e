----------------------------- MODULE SchemaDrift -----------------------------
(***************************************************************************)
(* Contracts inferred from payloads, and how a payload drifts from one     *)
(* (internal/security/schema: infer.go and drift.go), with the redaction   *)
(* a stored payload went through (internal/security/redaction).            *)
(*                                                                         *)
(* A JSON document is the type found at each of its paths.  An element of  *)
(* an array stands for the first: neither inference nor comparison looks   *)
(* at another.  Formats and values are left out.                           *)
(***************************************************************************)
EXTENDS Naturals

CONSTANTS
    Paths,     \* where a value may be
    Top,       \* the document itself
    Up,        \* the path each other path is directly below
    Element,   \* paths of array elements; the others are named fields
    Sensitive  \* fields whose value redaction replaces

ASSUME DriftAssumption ==
    /\ Top \in Paths
    /\ Up \in [Paths \ {Top} -> Paths]
    /\ Element \subseteq Paths \ {Top}
    /\ Sensitive \subseteq Paths \ ({Top} \union Element)

Types == {"string", "boolean", "integer", "number", "null", "array", "object"}
Field(p) == p # Top /\ p \notin Element

Documents ==
    {doc \in [Paths -> Types \union {"absent"}] :
        /\ doc[Top] # "absent"
        /\ \A p \in Paths \ {Top} : doc[p] # "absent" =>
              doc[Up[p]] = IF p \in Element THEN "array" ELSE "object"}

(* What a contract says of a path: "any" is the empty schema {}. *)
Node == [type : Types \union {"any", "absent"}, required : BOOLEAN]

-----------------------------------------------------------------------------
(* What is kept of a document: a sensitive field holds a string, with      *)
(* nothing below it.                                                       *)
isSensitiveKey(p) == p \in Sensitive

Hidden[p \in Paths] == p # Top /\ (isSensitiveKey(Up[p]) \/ Hidden[Up[p]])

(* MUTANT: redaction takes every number for a secret.                      *)
RedactedWidely(doc) ==
    [p \in Paths |->
        IF Hidden[p] THEN "absent"
        ELSE IF doc[p] = "integer" \/ (isSensitiveKey(p) /\ doc[p] # "absent") THEN "string"
        ELSE doc[p]]

Redacted(doc) ==
    [p \in Paths |->
        IF Hidden[p] THEN "absent"
        ELSE IF isSensitiveKey(p) /\ doc[p] # "absent" THEN "string"
        ELSE doc[p]]

(* Every field the sample has is required; the elements of an empty array  *)
(* may be anything.                                                        *)
inferValue(doc, p) ==
    IF p \in Element /\ doc[p] = "absent" /\ doc[Up[p]] = "array" THEN "any" ELSE doc[p]

InferJSONSchema(doc) ==
    [p \in Paths |-> [type |-> inferValue(doc, p), required |-> Field(p) /\ doc[p] # "absent"]]

-----------------------------------------------------------------------------
isTypeCompatible(expected, actual) ==
    \/ expected = actual
    \/ expected = "number" /\ actual = "integer"

(* A null passes for any type. *)
Mismatch(contract, doc, p) ==
    /\ contract[p].type # "any"
    /\ doc[p] # "null"
    /\ ~isTypeCompatible(contract[p].type, doc[p])

(* Whether the comparison looks below a path: at the fields of what should *)
(* be an object, or may be anything, and at the elements of an array.      *)
Opens(contract, doc, p) ==
    /\ ~Mismatch(contract, doc, p)
    /\ contract[p].type \in {"object", "any", "array"}

Descends(contract, doc, p) ==
    IF p \in Element THEN contract[Up[p]].type = "array"
                     ELSE contract[Up[p]].type \in {"object", "any"}

(* The values of the document that are compared with their own node. *)
Compared(contract, doc) ==
    LET compared[p \in Paths] ==
          \/ p = Top
          \/ /\ compared[Up[p]]
             /\ Opens(contract, doc, Up[p]) /\ Descends(contract, doc, p)
             /\ doc[p] # "absent" /\ contract[p].type # "absent"
    IN compared

Changes == {"FIELD_ADDED", "FIELD_MISSING", "TYPE_MISMATCH"}

(* Fields are looked for in an object, or in a null standing for one. *)
Searched(contract, doc, p) ==
    /\ Field(p)
    /\ Compared(contract, doc)[Up[p]]
    /\ Opens(contract, doc, Up[p]) /\ Descends(contract, doc, p)
    /\ doc[Up[p]] \in {"object", "null"}

compareNode(contract, doc, p) ==
    {c \in Changes :
        CASE c = "TYPE_MISMATCH" -> Compared(contract, doc)[p] /\ Mismatch(contract, doc, p)
          [] c = "FIELD_MISSING" -> /\ Searched(contract, doc, p) /\ contract[p].required
                                    /\ doc[p] \in {"absent", "null"}
          [] c = "FIELD_ADDED" -> /\ Searched(contract, doc, p)
                                  /\ doc[p] # "absent" /\ contract[p].type = "absent"}

DetectDrift(contract, doc) == {d \in Paths \X Changes : d[2] \in compareNode(contract, doc, d[1])}

Breaking(drift) == \E d \in drift : d[2] # "FIELD_ADDED"

(* A document whose own redacted contract it drifts from: a field is null, *)
(* or redaction changed the type of one.                                   *)
Unsettled(doc) ==
    \E p \in Paths :
        /\ Field(p) /\ ~Hidden[p]
        /\ \/ doc[p] = "null"
           \/ isSensitiveKey(p) /\ doc[p] \notin {"absent", "string"}

=============================================================================
