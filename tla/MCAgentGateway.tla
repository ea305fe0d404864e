--------------------------- MODULE MCAgentGateway ---------------------------
(* Small instances of AgentGateway for TLC. *)
EXTENDS AgentGateway

CONSTANTS a1, x1, x3, c1, f1, f2

(* Both streams are of one agent, which reconnects. *)
OneAgent == [s \in Streams |-> a1]

(* Two scans of one commit and one outside a repository. *)
CommitTwice == [x \in Scans |-> IF x = x3 THEN NoCommit ELSE c1]
(* The scan outside a repository is clean. *)
TwoOneNone == [x \in Scans |-> CASE x = x1 -> {f1, f2} [] x = x3 -> {} [] OTHER -> {f1}]

EachOnce == [k \in Kinds |-> 1]
=============================================================================
