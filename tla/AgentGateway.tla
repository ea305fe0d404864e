---------------------------- MODULE AgentGateway ----------------------------
(***************************************************************************)
(* The gRPC server the agents on developers' machines talk to              *)
(* (internal/transport/grpc/server.go): ConnectSession, one long-lived     *)
(* stream per connected agent, with the map of sessions the dashboard      *)
(* lists; SyncScanResults, which stores the scan of one commit and its     *)
(* findings statement by statement; and the server's graceful stop.        *)
(*                                                                         *)
(* A scan event sent on a stream is stored by the same code as a           *)
(* synchronised scan without a commit, and is modelled as one.             *)
(***************************************************************************)
EXTENDS Naturals, FiniteSets

CONSTANTS
    Agents,      \* ids agents give themselves
    Streams,     \* connections agents open, each once
    AgentOf,     \* the agent behind each stream
    NoStream,    \* what the map holds for an agent without a session
    Scans,       \* calls of SyncScanResults
    Commits,     \* commits of a repository: project, repository, commit and scan type
    CommitOf,    \* the commit each scan names
    NoCommit,    \* outside a git repository a scan names no commit
    Findings,    \* what scans find
    FindingsOf,  \* the findings of each scan
    Limit,       \* how often each kind of event below may happen
    Budget       \* how many of these events may happen in all

(* The events whose number a run bounds: the process being killed, a       *)
(* database call failing, a scanning agent giving up on its call.          *)
Kinds == {"crash", "fault", "giveUp"}

ASSUME GatewayAssumption ==
    /\ AgentOf \in [Streams -> Agents]
    /\ NoStream \notin Streams
    /\ CommitOf \in [Scans -> Commits \union {NoCommit}]
    /\ NoCommit \notin Commits
    /\ FindingsOf \in [Scans -> SUBSET Findings]
    /\ Limit \in [Kinds -> Nat]
    /\ Budget \in Nat

VARIABLES
    server,    \* "up", "stopping" (in GracefulStop) or "stopped"
    conn,      \* the agent's end of each stream
    handler,   \* ConnectSession: "reading" until the first message arrives
    sessions,  \* the map of sessions: the stream of each agent
    call,      \* where each call of SyncScanResults is
    todo,      \* findings it has still to insert
    cut,       \* calls whose context the agent's timeout cancelled
    answer,    \* what the agent was told
    scans,     \* agent_scans: one row for each scan stored
    stored,    \* security_findings: those of each scan
    shared,    \* history: agents that ever had two handlers with a session
    raced,     \* history: scans that passed the check beside another of their commit
    spent      \* how often each kind of bounded event happened

streamVars == <<conn, handler, sessions, shared>>
tables == <<scans, stored>>
callVars == <<call, todo, cut, answer, raced>>
vars == <<server, streamVars, callVars, tables, spent>>

TypeOK ==
    /\ server \in {"up", "stopping", "stopped"}
    /\ conn \in [Streams -> {"none", "open", "closed"}]
    /\ handler \in [Streams -> {"none", "reading", "registered", "done"}]
    /\ sessions \in [Agents -> Streams \union {NoStream}]
    /\ call \in [Scans -> {"none", "checking", "inserting", "writing", "done"}]
    /\ todo \in [Scans -> SUBSET Findings]
    /\ cut \in SUBSET Scans
    /\ answer \in [Scans -> {"none", "accepted", "error"}]
    /\ scans \in SUBSET Scans
    /\ stored \in [Scans -> SUBSET Findings]
    /\ shared \in SUBSET Agents
    /\ raced \in SUBSET Scans
    /\ spent \in [Kinds -> Nat]

Init ==
    /\ server = "up"
    /\ conn = [s \in Streams |-> "none"]
    /\ handler = [s \in Streams |-> "none"]
    /\ sessions = [a \in Agents |-> NoStream]
    /\ call = [x \in Scans |-> "none"]
    /\ todo = [x \in Scans |-> {}]
    /\ cut = {}
    /\ answer = [x \in Scans |-> "none"]
    /\ scans = {}
    /\ stored = [x \in Scans |-> {}]
    /\ shared = {}
    /\ raced = {}
    /\ spent = [k \in Kinds |-> 0]

Spend(k) ==
    /\ spent[k] < Limit[k]
    /\ spent["crash"] + spent["fault"] + spent["giveUp"] < Budget
    /\ spent' = [spent EXCEPT ![k] = @ + 1]
-----------------------------------------------------------------------------
(* Agents' streams. *)

(* The agent dials and its key is accepted, or the lookup of the key fails. *)
ConnectSession(s) ==
    /\ server = "up"
    /\ conn[s] = "none"
    /\ \/ /\ conn' = [conn EXCEPT ![s] = "open"]
          /\ handler' = [handler EXCEPT ![s] = "reading"]
          /\ UNCHANGED spent
       \/ /\ conn' = [conn EXCEPT ![s] = "closed"]
          /\ Spend("fault")
          /\ UNCHANGED handler
    /\ UNCHANGED <<server, sessions, shared, callVars, tables>>

(* The first message creates the session and stores it under the agent's   *)
(* id; later ones find it there in a local variable and store nothing.     *)
FirstMessage(s) ==
    LET a == AgentOf[s] IN
    /\ handler[s] = "reading"
    /\ handler' = [handler EXCEPT ![s] = "registered"]
    /\ sessions' = [sessions EXCEPT ![a] = s]
    /\ shared' = IF \E u \in Streams : AgentOf[u] = a /\ handler[u] = "registered"
                 THEN shared \union {a} ELSE shared
    /\ UNCHANGED <<server, conn, callVars, tables, spent>>

(* The agent ends its stream, or the network loses it. *)
Disconnect(s) ==
    /\ conn[s] = "open"
    /\ conn' = [conn EXCEPT ![s] = "closed"]
    /\ UNCHANGED <<server, handler, sessions, shared, callVars, tables, spent>>

(* MUTANT: the deferred delete is forgotten. *)
HandlerEndsKeeping(s) ==
    /\ handler[s] \in {"reading", "registered"}
    /\ conn[s] # "open"
    /\ handler' = [handler EXCEPT ![s] = "done"]
    /\ UNCHANGED <<server, conn, sessions, shared, callVars, tables, spent>>

(* MUTANT: a handler deletes the agent's session without having stored one. *)
HandlerEndsUnseen(s) ==
    /\ handler[s] \in {"reading", "registered"}
    /\ conn[s] # "open"
    /\ handler' = [handler EXCEPT ![s] = "done"]
    /\ sessions' = [sessions EXCEPT ![AgentOf[s]] = NoStream]
    /\ UNCHANGED <<server, conn, shared, callVars, tables, spent>>

(* Recv returns an error, and the deferred function deletes whatever       *)
(* session the map holds for the agent.                                    *)
HandlerEnds(s) ==
    /\ handler[s] \in {"reading", "registered"}
    /\ conn[s] # "open"
    /\ handler' = [handler EXCEPT ![s] = "done"]
    /\ sessions' = IF handler[s] = "reading" THEN sessions
                   ELSE [sessions EXCEPT ![AgentOf[s]] = NoStream]
    /\ UNCHANGED <<server, conn, shared, callVars, tables, spent>>
-----------------------------------------------------------------------------
(* Scans.  A statement fails for a fault, or because the agent's timeout   *)
(* has cancelled its context; it may then have reached the database.       *)

InProgress(x) == call[x] \in {"checking", "inserting", "writing"}

SameCommit(x, y) == CommitOf[x] # NoCommit /\ CommitOf[x] = CommitOf[y]

Runs(x) == x \notin cut /\ UNCHANGED spent
Fails(x) == (x \in cut /\ UNCHANGED spent) \/ (x \notin cut /\ Spend("fault"))

(* An agent that gave up has been told of an error and hears no answer. *)
Return(x, a) ==
    /\ call' = [call EXCEPT ![x] = "done"]
    /\ answer' = IF x \in cut THEN answer ELSE [answer EXCEPT ![x] = a]

(* The project behind the key is resolved again; then the check is skipped *)
(* for a scan that names no commit.                                        *)
SyncScanResults(x) ==
    /\ server = "up"
    /\ call[x] = "none"
    /\ \/ /\ call' = [call EXCEPT ![x] = IF CommitOf[x] = NoCommit THEN "inserting"
                                         ELSE "checking"]
          /\ UNCHANGED <<answer, spent>>
       \/ Return(x, "error") /\ Spend("fault")
    /\ UNCHANGED <<server, streamVars, todo, cut, raced, tables>>

(* The call runs into its timeout at the agent's end. *)
GiveUp(x) ==
    /\ InProgress(x)
    /\ x \notin cut
    /\ Spend("giveUp")
    /\ cut' = cut \union {x}
    /\ answer' = [answer EXCEPT ![x] = "error"]
    /\ UNCHANGED <<server, streamVars, call, todo, raced, tables>>

Rivals(x) == {y \in Scans \ {x} : SameCommit(x, y) /\ call[y] = "inserting"}

(* MUTANT: the commit's earlier scan is not looked up. *)
CheckNothing(x) ==
    /\ call[x] = "checking"
    /\ call' = [call EXCEPT ![x] = "inserting"]
    /\ raced' = IF Rivals(x) = {} THEN raced ELSE raced \union {x} \union Rivals(x)
    /\ UNCHANGED <<server, streamVars, todo, cut, answer, tables, spent>>

(* An earlier scan of the commit is the answer; none, or an error of the   *)
(* query, lets the call go on.                                             *)
CheckExisting(x) ==
    /\ call[x] = "checking"
    /\ \/ /\ Runs(x)
          /\ \E y \in scans : SameCommit(x, y)
          /\ Return(x, "accepted")
          /\ UNCHANGED raced
       \/ /\ Fails(x) \/ (Runs(x) /\ \A y \in scans : ~SameCommit(x, y))
          /\ call' = [call EXCEPT ![x] = "inserting"]
          /\ raced' = IF Rivals(x) = {} THEN raced ELSE raced \union {x} \union Rivals(x)
          /\ UNCHANGED answer
    /\ UNCHANGED <<server, streamVars, todo, cut, tables>>

(* MUTANT: a failing insert is only logged. *)
CreateScanUnchecked(x) ==
    /\ call[x] = "inserting"
    /\ \/ /\ Runs(x)
          /\ scans' = scans \union {x}
          /\ call' = [call EXCEPT ![x] = "writing"]
          /\ todo' = [todo EXCEPT ![x] = FindingsOf[x]]
          /\ UNCHANGED answer
       \/ /\ Fails(x)
          /\ scans' \in {scans, scans \union {x}}
          /\ Return(x, "accepted")
          /\ UNCHANGED todo
    /\ UNCHANGED <<server, streamVars, cut, raced, stored>>

CreateAgentScan(x) ==
    /\ call[x] = "inserting"
    /\ \/ /\ Runs(x)
          /\ scans' = scans \union {x}
          /\ call' = [call EXCEPT ![x] = "writing"]
          /\ todo' = [todo EXCEPT ![x] = FindingsOf[x]]
          /\ UNCHANGED answer
       \/ /\ Fails(x)
          /\ scans' \in {scans, scans \union {x}}
          /\ Return(x, "error")
          /\ UNCHANGED todo
    /\ UNCHANGED <<server, streamVars, cut, raced, stored>>

(* MUTANT: the first finding inserted ends the loop. *)
CreateOneFinding(x) ==
    /\ call[x] = "writing"
    /\ \E f \in todo[x] :
          \/ Runs(x) /\ stored' = [stored EXCEPT ![x] = @ \union {f}]
          \/ Fails(x) /\ stored' \in {stored, [stored EXCEPT ![x] = @ \union {f}]}
    /\ todo' = [todo EXCEPT ![x] = {}]
    /\ UNCHANGED <<server, streamVars, call, cut, answer, raced, scans>>

(* MUTANT: a finding that cannot be inserted is tried again. *)
CreateFindingRetrying(x) ==
    /\ call[x] = "writing"
    /\ \E f \in todo[x] :
          \/ /\ Runs(x)
             /\ todo' = [todo EXCEPT ![x] = @ \ {f}]
             /\ stored' = [stored EXCEPT ![x] = @ \union {f}]
          \/ /\ Fails(x)
             /\ stored' \in {stored, [stored EXCEPT ![x] = @ \union {f}]}
             /\ UNCHANGED todo
    /\ UNCHANGED <<server, streamVars, call, cut, answer, raced, scans>>

(* One finding is inserted; an error is logged and the loop goes on. *)
CreateSecurityFinding(x) ==
    /\ call[x] = "writing"
    /\ \E f \in todo[x] :
          /\ todo' = [todo EXCEPT ![x] = @ \ {f}]
          /\ \/ Runs(x) /\ stored' = [stored EXCEPT ![x] = @ \union {f}]
             \/ Fails(x) /\ stored' \in {stored, [stored EXCEPT ![x] = @ \union {f}]}
    /\ UNCHANGED <<server, streamVars, call, cut, answer, raced, scans>>

(* MUTANT: the scan's action is returned in the place of its acceptance. *)
ScanCompletedWithAction(x) ==
    /\ call[x] = "writing"
    /\ todo[x] = {}
    /\ Return(x, IF FindingsOf[x] = {} THEN "allow" ELSE "block")
    /\ UNCHANGED <<server, streamVars, todo, cut, raced, tables, spent>>

ScanCompleted(x) ==
    /\ call[x] = "writing"
    /\ todo[x] = {}
    /\ Return(x, "accepted")
    /\ UNCHANGED <<server, streamVars, todo, cut, raced, tables, spent>>
-----------------------------------------------------------------------------
(* The server. *)

(* GracefulStop refuses new calls and waits for the ones it has. *)
Stop ==
    /\ server = "up"
    /\ server' = "stopping"
    /\ UNCHANGED <<streamVars, callVars, tables, spent>>

Serving ==
    \/ \E s \in Streams : handler[s] \in {"reading", "registered"}
    \/ \E x \in Scans : InProgress(x)

StopReturns ==
    /\ server = "stopping"
    /\ ~Serving
    /\ server' = "stopped"
    /\ UNCHANGED <<streamVars, callVars, tables, spent>>

(* The process is killed; one that was not stopping is started again. *)
Kill ==
    /\ server # "stopped"
    /\ Spend("crash")
    /\ server' = IF server = "up" THEN "up" ELSE "stopped"
    /\ conn' = [s \in Streams |-> IF conn[s] = "open" THEN "closed" ELSE conn[s]]
    /\ handler' = [s \in Streams |-> IF handler[s] = "none" THEN "none" ELSE "done"]
    /\ sessions' = [a \in Agents |-> NoStream]
    /\ call' = [x \in Scans |-> IF InProgress(x) THEN "done" ELSE call[x]]
    /\ answer' = [x \in Scans |-> IF InProgress(x) THEN "error" ELSE answer[x]]
    /\ todo' = [x \in Scans |-> {}]
    /\ UNCHANGED <<shared, cut, raced, tables>>

Stopped == server = "stopped" /\ UNCHANGED vars
-----------------------------------------------------------------------------
Sync(x) ==
    \/ CheckExisting(x)
    \/ CreateAgentScan(x)
    \/ CreateSecurityFinding(x)
    \/ ScanCompleted(x)

Next ==
    \/ \E s \in Streams :
          ConnectSession(s) \/ FirstMessage(s) \/ Disconnect(s) \/ HandlerEnds(s)
    \/ \E x \in Scans : SyncScanResults(x) \/ GiveUp(x) \/ Sync(x)
    \/ Stop
    \/ StopReturns
    \/ Kill
    \/ Stopped

Spec == Init /\ [][Next]_vars

(* Goroutines are scheduled, statements return and the transport reports   *)
(* a stream that ended.  Nothing obliges an agent to leave.                *)
FairSpec ==
    /\ Spec
    /\ \A s \in Streams : WF_vars(HandlerEnds(s))
    /\ \A x \in Scans : WF_vars(Sync(x))
    /\ WF_vars(StopReturns)
-----------------------------------------------------------------------------
(* PROPERTIES *)

(* No session outlives its handler: what the map holds can be sent to,     *)
(* through reconnects, broken streams and a killed process.                *)
SessionsLive ==
    \A a \in Agents :
        sessions[a] # NoStream =>
            AgentOf[sessions[a]] = a /\ handler[sessions[a]] = "registered"

(* An agent with a running handler is in the map, unless it once had two   *)
(* at the same time: the end of either takes the other's session away.     *)
ListedUnlessShared ==
    \A s \in Streams :
        handler[s] = "registered" /\ AgentOf[s] \notin shared => sessions[AgentOf[s]] = s

(* Sending a commit again does not store it twice (server_test.go:178), as *)
(* long as the database answers, agents wait, and no two calls of one      *)
(* commit stand between the check and the insert together: nothing but the *)
(* check keeps the second row out.                                         *)
OneScanPerCommit ==
    spent["fault"] = 0 =>
        \A x, y \in scans \ (raced \union cut) : SameCommit(x, y) => x = y

(* What an agent is told was accepted is in the database, under its own    *)
(* row or an earlier one of its commit, whatever failed meanwhile.         *)
AcceptedScanStored ==
    \A x \in Scans :
        answer[x] = "accepted" => x \in scans \/ \E y \in scans : SameCommit(x, y)

(* A scan with a row of its own was accepted with all of its findings,     *)
(* unless the database failed in between, when findings are skipped.       *)
FindingsComplete ==
    spent["fault"] = 0 =>
        \A x \in scans : answer[x] = "accepted" => stored[x] = FindingsOf[x]

(* Once all agents have left, a graceful stop ends, whatever calls were    *)
(* under way, given up or failing.                                         *)
StopEnds ==
    (<>[](\A s \in Streams : conn[s] # "open")) =>
        (server = "stopping" ~> server = "stopped")

(* Claims of the source that the code does not keep; see README.md.        *)

(* main.go:160-181 announces a cascade of five steps of which the gRPC     *)
(* server's graceful stop is the second: a stop that began ends.           *)
ShutdownProceeds == server = "stopping" ~> server = "stopped"

=============================================================================
